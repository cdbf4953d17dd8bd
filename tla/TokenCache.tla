----------------------------- MODULE TokenCache -----------------------------
(***************************************************************************)
(* The bearer token of a REST source (dataglot-federation, rest/oauth2.rs):*)
(* scans share one cached token, which bearer() hands out until shortly    *)
(* before it expires and fetches anew, without the lock, after that.       *)
(*                                                                         *)
(* A token is the time at which the source stops accepting it.  The cache  *)
(* knows only when the answer arrived and the lifetime the answer stated.  *)
(***************************************************************************)
EXTENDS Integers

CONSTANTS
    None,
    Callers,
    Skew,        \* bearer's margin before expiry (30 s)
    Timeout,     \* the HTTP client's timeout of one request (30 s)
    Lifetimes,   \* what the endpoint may state as expires_in
    MaxTime

\* The margin covers the time an answer may take.
TokenAssumption ==
    /\ Skew \in Nat /\ Timeout \in Nat /\ Skew >= Timeout
    /\ Lifetimes \subseteq Nat \ {0} /\ MaxTime \in Nat /\ None \notin Nat

VARIABLES
    now,
    cached,      \* None or [token, expires_at]
    call,        \* per caller: None, or the request it waits for
    handed       \* what bearer returned last, None at first

vars == <<now, cached, call, handed>>

Init == now = 0 /\ cached = None /\ call = [c \in Callers |-> None] /\ handed = None

\* Mutant: a token is used up to the very moment it expires.
Fresh_NoSkew(t) == t.expires_at > now
\* bearer's test of the cached token.
Fresh(t) == t.expires_at > now + Skew

\* The fast path, under the lock.
BearerCached(c) ==
    /\ call[c] = None /\ cached # None /\ Fresh(cached)
    /\ handed' = [left |-> cached.token - now, fetched |-> None]
    /\ UNCHANGED <<now, cached, call>>

\* The slow path: the lock is released and the request sent.
BearerFetches(c) ==
    /\ call[c] = None /\ (cached # None => ~Fresh(cached))
    /\ call' = [call EXCEPT ![c] = [sent |-> now, token |-> None, expires_in |-> None]]
    /\ UNCHANGED <<now, cached, handed>>

\* The endpoint issues a token; its lifetime counts from here.
Issue(c) ==
    /\ call[c] # None /\ call[c].token = None
    /\ \E life \in Lifetimes :
         call' = [call EXCEPT ![c].token = now + life, ![c].expires_in = life]
    /\ UNCHANGED <<now, cached, handed>>

\* The answer arrives: bearer takes the lock again, reads the clock and
\* stores, over whatever another caller stored meanwhile.
Receive(c) ==
    /\ call[c] # None /\ call[c].token # None
    /\ cached' = [token |-> call[c].token, expires_at |-> now + call[c].expires_in]
    /\ handed' = [left |-> call[c].token - now, fetched |-> call[c].expires_in]
    /\ call' = [call EXCEPT ![c] = None]
    /\ UNCHANGED now

\* An error status, a body without a token, or the timeout: the scan fails.
FetchFails(c) ==
    /\ call[c] # None
    /\ call' = [call EXCEPT ![c] = None]
    /\ UNCHANGED <<now, cached, handed>>

\* A request does not outlive its timeout.
Tick ==
    /\ now < MaxTime
    /\ \A c \in Callers : call[c] # None => now < call[c].sent + Timeout
    /\ now' = now + 1
    /\ UNCHANGED <<cached, call, handed>>

Next ==
    \/ Tick
    \/ \E c \in Callers : BearerCached(c) \/ BearerFetches(c) \/ Issue(c) \/ Receive(c) \/ FetchFails(c)

Spec == Init /\ [][Next]_vars

-----------------------------------------------------------------------------
(* Properties.                                                             *)

\* A token that bearer returns is still accepted by the source, although the
\* cache counts the lifetime from the arrival of the answer and not from the
\* issue, and although slow answers of two callers overwrite one another.
\* All of the margin may go to the time an answer takes.  A token that lives
\* no longer than a request may take can be dead when it first arrives, but
\* is never served from the cache.
TokenUsable ==
    handed # None =>
        \/ handed.left > 0
        \/ handed.fetched # None /\ handed.fetched <= Timeout
=============================================================================
