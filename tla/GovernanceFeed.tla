--------------------------- MODULE GovernanceFeed ---------------------------
(***************************************************************************)
(* The inbound webhook (dataglot-server, webhook.rs): a governance         *)
(* platform posts one event at a time, retries it until it has an answer,  *)
(* and requests and answers get lost or arrive late.  The server keeps     *)
(* what the events made of the rule store in memory only.                  *)
(***************************************************************************)
EXTENDS Governance, Integers, Sequences

CONSTANTS
    NoEvent,
    Events,       \* what the platform may send; see Governance
    Faults,       \* why a request may be refused before it reaches the store
    Configured,   \* the governance of the configuration file
    MaxEvents     \* bound: events sent

\* A configuration that does not build fails the start; lower_payload accepts
\* no other types.
FeedConstants ==
    /\ IsGovernance(Configured) /\ GovernanceBuilds(Configured)
    /\ \A e \in Events : e.type \in EventTypes
    /\ "none" \notin Faults
    /\ MaxEvents \in Nat
    /\ NoEvent \notin [n : Nat, event : Events, fault : Faults \cup {"none"}]

VARIABLES
    governance,   \* the server's rule store
    pending,      \* the event the platform is delivering, with its number, or NoEvent
    sent,         \* events sent so far
    requests,     \* requests on their way
    answers,      \* answers on their way
    log,          \* history: the events the platform was told are accepted, since the start
    late          \* history: a copy of an event was applied after the platform had moved on

vars == <<governance, pending, sent, requests, answers, log, late>>

Init ==
    /\ governance = Configured
    /\ pending = NoEvent /\ sent = 0
    /\ requests = {} /\ answers = {}
    /\ log = <<>> /\ late = FALSE

-----------------------------------------------------------------------------
(* The platform.                                                           *)

Send(e, fault) ==
    /\ pending = NoEvent /\ sent < MaxEvents
    /\ sent' = sent + 1
    /\ pending' = [n |-> sent + 1, event |-> e, fault |-> fault]
    /\ requests' = requests \cup {pending'}
    /\ UNCHANGED <<governance, answers, log, late>>

Retry ==
    /\ pending # NoEvent
    /\ requests' = requests \cup {pending}
    /\ UNCHANGED <<governance, pending, sent, answers, log, late>>

\* An answer to an earlier event is not waited for any more.
Answered(a) ==
    /\ answers' = answers \ {a}
    /\ IF pending # NoEvent /\ a.n = pending.n
          THEN /\ pending' = NoEvent
               /\ log' = IF a.ok THEN Append(log, pending.event) ELSE log
          ELSE UNCHANGED <<pending, log>>
    /\ UNCHANGED <<governance, sent, requests, late>>

-----------------------------------------------------------------------------
(* The server and the network.                                             *)

\* handle_event: the body's size, the signature, the envelope, its version
\* and the payload are checked before the store is touched.
HandleEvent(r) ==
    LET new == ApplyOutcome(governance, r.event)
        refused == r.fault \in Faults \/ ~GovernanceBuilds(ApplyEvent(governance, r.event))
    IN  /\ requests' = requests \ {r}
        /\ governance' = IF r.fault \in Faults THEN governance ELSE new
        /\ answers' = answers \cup {[n |-> r.n, ok |-> ~refused]}
        /\ late' = (late \/ (r # pending /\ governance' # governance))
        /\ UNCHANGED <<pending, sent, log>>

Lose ==
    /\ \/ \E r \in requests : requests' = requests \ {r} /\ UNCHANGED answers
       \/ \E a \in answers : answers' = answers \ {a} /\ UNCHANGED requests
    /\ UNCHANGED <<governance, pending, sent, log, late>>

\* The server stops and starts again; connections are gone.
Restart ==
    /\ governance' = Configured
    /\ requests' = {} /\ answers' = {} /\ log' = <<>> /\ late' = FALSE
    /\ UNCHANGED <<pending, sent>>

Next ==
    \/ \E e \in Events, f \in Faults \cup {"none"} : Send(e, f)
    \/ Retry
    \/ \E a \in answers : Answered(a)
    \/ \E r \in requests : HandleEvent(r)
    \/ Lose
    \/ Restart

Spec == Init /\ [][Next]_vars

-----------------------------------------------------------------------------
(* Properties.                                                             *)

\* What an event is about: a binding, or the policy of an id.
Key(e) == IF e.type = "policy.upserted" THEN e.about.id ELSE e.about
Kind(e) == IF e.type \in {"tag.assigned", "tag.removed"} THEN "tag"
           ELSE IF e.type \in {"policy.upserted", "policy.deleted"} THEN "policy" ELSE "certification"
Adds(e) == e.type \in {"tag.assigned", "policy.upserted", "certification.upserted"}
Held(kind) == IF kind = "tag" THEN governance.columns
              ELSE IF kind = "policy" THEN governance.policies ELSE governance.certifications
HeldAt(kind, key) == {x \in Held(kind) : (IF kind = "policy" THEN x.id ELSE x) = key}

\* Between two events the server enforces, about everything the platform has
\* told it since it started, what it was told last: retries of an event that
\* was already applied, refusals and lost answers make no difference (unless
\* a copy of an earlier event arrived after a later one, which the server
\* does not recognise).
AckedIsEnforced ==
    pending = NoEvent /\ ~late =>
        \A i \in DOMAIN log :
            LET e == log[i]
                overridden == \E j \in (i + 1)..Len(log) : Kind(log[j]) = Kind(e) /\ Key(log[j]) = Key(e)
            IN  overridden \/ HeldAt(Kind(e), Key(e)) = IF Adds(e) THEN {e.about} ELSE {}

=============================================================================
