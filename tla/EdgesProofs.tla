---------------------------- MODULE EdgesProofs ----------------------------
(***************************************************************************)
(* Proofs about four components at the edge of the server, for every value *)
(* of their constants: the lease of the schedulers (SchedulerLease), the   *)
(* admission of connections (ConnectionAdmission), the stores (MetaStores) *)
(* and the tokens of HTTP sources (TokenCache).                            *)
(*                                                                         *)
(* Three are timed or counted protocols, so their invariants are           *)
(* inequalities and cardinalities.  For the lease: when a request or a     *)
(* timer is due bounds the clock (Timely), a payload is stamped a delay    *)
(* before it is due (Stamped), a leader gives up a lease after its last    *)
(* success (Patience), and a leader either still has the expiry it wrote,  *)
(* or was robbed no earlier than that expiry allows (Hands).  For the      *)
(* admission: each counter is the number of connections in the places that *)
(* hold it; for the token bucket, what is left in it and what has passed   *)
(* never exceed the burst and the refill of any stretch of time that ends  *)
(* now (Left), and so of any that ended before (Paid).  For the tokens:    *)
(* the cache believes in one for at most a request's timeout too long      *)
(* (NearlyRight).  For the stores: disk, memory and subscriber each lag    *)
(* behind the history by what is under way.                                *)
(*                                                                         *)
(* Each theorem is about the specification of one component: its property  *)
(* holds, and so does the property of Edges that says so while it moves.   *)
(***************************************************************************)
EXTENDS Edges, FiniteSets, FiniteSetTheorems, TLAPS

-----------------------------------------------------------------------------
(* The lease: what the invariant says.                                     *)

LeaseTypes ==
    /\ time \in 0 .. Horizon
    /\ lease \in [etag : Nat, expires : Int]
    /\ mode \in [Schedulers -> L!Modes]
    /\ req \in [Schedulers -> [due : Nat, expires : Int, stale : Nat]]
    /\ term \in [Schedulers -> [etag : Nat, lastOk : Nat]]
    /\ wake \in [Schedulers -> Nat]
    /\ faults \in Nat /\ exits \in Nat
    /\ stolenAt \in 0 .. time /\ vacantSince \in 0 .. time

\* The clock waits for what is due, and nothing is due far ahead; the next heartbeat
\* is an interval after the one under way was sent.
OnTime(s) ==
    /\ req[s].due <= time + MaxDelay /\ wake[s] <= time + Heartbeat
    /\ mode[s] \in L!Requests => time <= req[s].due
    /\ mode[s] \in {"waiting", "serving"} => time <= wake[s]
    /\ mode[s] = "beating" => wake[s] = req[s].due - MaxDelay + Heartbeat
Timely == \A s \in Schedulers : OnTime(s)

\* fresh_payload is stamped when the request is sent, on the sender's clock.
FreshPayload(s) ==
    mode[s] \in {"creating", "stealing", "beating"} =>
        req[s].expires = req[s].due - MaxDelay + Offset[s] + LeaseDuration
Stamped == \A s \in Schedulers : FreshPayload(s)

\* Etags only grow, and the object has one as soon as it exists.
EtagsOf(s) ==
    /\ L!Serving(s) => term[s].etag >= 1 /\ term[s].etag <= lease.etag
    /\ mode[s] = "stealing" => req[s].stale <= lease.etag
    /\ mode[s] = "reading" => lease.etag >= 1
Etags == /\ lease.etag = 0 => lease = L!NoLease
         /\ \A s \in Schedulers : EtagsOf(s)

\* A leader gives up at the first reply that comes a lease after its last success.
Patient(s) ==
    /\ L!Serving(s) => term[s].lastOk <= time
    /\ mode[s] = "serving" => wake[s] < term[s].lastOk + LeaseDuration + Heartbeat
    /\ mode[s] = "beating" => /\ req[s].due < term[s].lastOk + LeaseDuration + Heartbeat + MaxDelay
                              /\ term[s].lastOk <= req[s].due - MaxDelay
Patience == \A s \in Schedulers : Patient(s)

\* s lost the lease, no earlier than the last expiry it knows it wrote ...
Robbed(s) ==
    /\ term[s].etag < lease.etag
    /\ term[s].lastOk + LeaseDuration <= stolenAt + MaxSkew + MaxDelay
\* ... or the object still has an expiry at least as late.
Kept(s) == term[s].lastOk - MaxDelay + Offset[s] + LeaseDuration <= lease.expires
Hands ==
    /\ \A s \in Schedulers : L!Serving(s) => Robbed(s) \/ Kept(s)
    /\ \A s, o \in Schedulers : s # o /\ L!Serving(s) /\ L!Serving(o) => Robbed(s) \/ Robbed(o)

\* A scheduler that steals with the current etag has seen the lease expire.
SeenExpired(s) ==
    mode[s] = "stealing" /\ req[s].stale = lease.etag => lease.expires <= time + Offset[s]
Expired == \A s \in Schedulers : SeenExpired(s)

\* Without faults, a leader's lease is the object's, and far from its expiry.
Fits == 2 * MaxDelay + Heartbeat + MaxSkew < LeaseDuration
Secure(s) ==
    /\ L!Serving(s) => term[s].etag = lease.etag
    /\ mode[s] = "serving" =>
          wake[s] - Heartbeat - MaxDelay + Offset[s] + LeaseDuration <= lease.expires
    /\ mode[s] = "beating" =>
          req[s].due - Heartbeat - 2 * MaxDelay + Offset[s] + LeaseDuration <= lease.expires
Healthy == faults = 0 /\ Fits => \A s \in Schedulers : Secure(s)

\* Without faults, how late each scheduler can be in its loop when nobody serves.
Limit == vacantSince + LeaseDuration + MaxSkew + Heartbeat
InTime(s) ==
    /\ lease.etag >= 1 => lease.expires <= vacantSince + LeaseDuration + MaxSkew + Offset[s]
    /\ mode[s] = "waiting" => wake[s] <= Limit + MaxDelay
    /\ mode[s] = "creating" => req[s].due <= Limit + 2 * MaxDelay
    /\ mode[s] = "reading" => req[s].due <= Limit + 3 * MaxDelay
    /\ mode[s] = "stealing" => \/ req[s].due <= vacantSince + MaxDelay
                               \/ req[s].stale = lease.etag /\ req[s].due <= Limit + 4 * MaxDelay
    /\ mode[s] = "rereading" => req[s].due <= vacantSince + 2 * MaxDelay
Filled == (\E s \in Schedulers : L!Serving(s)) => vacantSince = time
Vacancy == Filled /\ (faults = 0 => \A s \in Schedulers : InTime(s))

LeaseInv == LeaseTypes /\ Timely /\ Stamped /\ Etags /\ Patience /\ Hands /\ Expired /\ Healthy /\ Vacancy

-----------------------------------------------------------------------------
(* The lease: the moves a scheduler makes.                                 *)

Effect(s, m, q, t, w) ==
    /\ mode' = [mode EXCEPT ![s] = m] /\ req' = [req EXCEPT ![s] = q]
    /\ term' = [term EXCEPT ![s] = t] /\ wake' = [wake EXCEPT ![s] = w]
Sends(s, m, expiry, etag, w) ==
    /\ Effect(s, m, [due |-> time + MaxDelay, expires |-> expiry, stale |-> etag], term[s], w)
    /\ lease' = lease /\ faults' = faults
Sleeps(s, d) == Effect(s, "waiting", L!NoRequest, L!NoTerm, time + d)
Writes(s) == lease' = [etag |-> lease.etag + 1, expires |-> req[s].expires]

\* What the history variables keep: a change of hands is recorded while somebody
\* does not know of it, and somebody who serves fills the vacancy.
Notes(change) ==
    /\ stolenAt' \in {0, stolenAt, time}
    /\ (\E o \in Schedulers : L!Serving(o)' /\ term'[o].etag # lease'.etag)
          => stolenAt' = IF change THEN time ELSE stolenAt
    /\ vacantSince' \in {vacantSince, time}
    /\ (\E o \in Schedulers : L!Serving(o)') => vacantSince' = time

Claimable(s) == \/ mode[s] = "creating" /\ lease.etag = 0
                \/ mode[s] = "stealing" /\ lease.etag = req[s].stale

Asks(s) ==
    /\ \/ mode[s] = "waiting" /\ Sends(s, "creating", time + Offset[s] + LeaseDuration, 0, 0)
       \/ mode[s] = "creating" /\ lease.etag >= 1 /\ Sends(s, "reading", 0, 0, wake[s])
       \/ /\ mode[s] = "reading" /\ lease.expires <= time + Offset[s]
          /\ Sends(s, "stealing", time + Offset[s] + LeaseDuration, lease.etag, wake[s])
       \/ mode[s] = "stealing" /\ lease.etag # req[s].stale /\ Sends(s, "rereading", 0, 0, wake[s])
    /\ Notes(FALSE)
Beats(s) ==
    /\ mode[s] = "serving" /\ time >= wake[s]
    /\ Sends(s, "beating", time + Offset[s] + LeaseDuration, 0, wake[s] + Heartbeat)
    /\ Notes(FALSE)
Wins(s) ==
    /\ Claimable(s) /\ Writes(s) /\ faults' = faults /\ Notes(TRUE)
    /\ Effect(s, "serving", L!NoRequest, [etag |-> lease.etag + 1, lastOk |-> time], time + Heartbeat)
WinsUnheard(s) ==
    /\ Claimable(s) /\ Writes(s) /\ faults' = faults + 1 /\ Notes(TRUE) /\ Sleeps(s, Heartbeat)
GivesUp(s) ==
    /\ mode[s] \in {"creating", "reading", "stealing", "rereading"}
    /\ \/ faults' = faults + 1
       \/ /\ faults' = faults
          /\ mode[s] = "rereading" \/ (mode[s] = "reading" /\ lease.expires > time + Offset[s])
    /\ lease' = lease /\ Notes(FALSE) /\ Sleeps(s, Heartbeat)
Renews(s) ==
    /\ mode[s] = "beating" /\ lease.etag = term[s].etag /\ Writes(s) /\ faults' = faults /\ Notes(FALSE)
    /\ Effect(s, "serving", L!NoRequest, [etag |-> lease.etag + 1, lastOk |-> time], wake[s])
Errs(s) ==
    /\ mode[s] = "beating" /\ time - term[s].lastOk < LeaseDuration
    /\ lease' = lease \/ (lease.etag = term[s].etag /\ Writes(s))
    /\ faults' = faults + 1 /\ Notes(FALSE)
    /\ Effect(s, "serving", L!NoRequest, term[s], wake[s])
StepsDown(s) ==
    /\ mode[s] = "beating"
    /\ \/ faults' = faults + 1 /\ (lease' = lease \/ (lease.etag = term[s].etag /\ Writes(s)))
       \/ faults' = faults /\ lease' = lease /\ lease.etag # term[s].etag
    /\ Notes(FALSE) /\ Sleeps(s, 0)
ComesOrGoes(s) ==
    /\ \/ Effect(s, "down", L!NoRequest, L!NoTerm, 0)
       \/ mode[s] = "down" /\ Sleeps(s, 0)
    /\ lease' = lease /\ faults' = faults /\ Notes(FALSE) /\ vacantSince' = time

Move(s) ==
    \/ Asks(s) \/ Beats(s) \/ Wins(s) \/ WinsUnheard(s) \/ GivesUp(s) \/ Renews(s) \/ Errs(s)
    \/ StepsDown(s) \/ ComesOrGoes(s)

\* The assumptions on the constants, which MCEdges has TLC evaluate.
Timing == L!TimingAssumption /\ L!SkewAssumption /\ L!BudgetAssumption

LEMMA Constants ==
    ASSUME Timing
    PROVE  /\ LeaseDuration \in Nat /\ Heartbeat \in Nat /\ MaxDelay \in Nat /\ Horizon \in Nat /\ MaxSkew \in Nat
           /\ Heartbeat > 0 /\ Heartbeat < LeaseDuration /\ MaxDelay <= Heartbeat
           /\ MaxFaults \in Nat /\ MaxExits \in Nat
           /\ \A s \in Schedulers : Offset[s] \in Int
           /\ \A s, o \in Schedulers : Offset[s] <= Offset[o] + MaxSkew
BY DEF Timing, L!TimingAssumption, L!SkewAssumption, L!BudgetAssumption, L!ValidTiming

LEMMA RecordNotes ==
    ASSUME NEW change \in BOOLEAN, L!Record(change)
    PROVE  Notes(change)
<1>1. /\ stolenAt' \in {0, stolenAt, time} /\ vacantSince' \in {vacantSince, time}
      /\ (\E o \in Schedulers : L!Serving(o)') => vacantSince' = time
  BY DEF L!Record
<1>2. (\E o \in Schedulers : L!Serving(o)' /\ term'[o].etag # lease'.etag)
          => stolenAt' = IF change THEN time ELSE stolenAt
  BY DEF L!Record, L!Superseded
<1> QED BY <1>1, <1>2 DEF Notes

LEMMA StepMoves ==
    ASSUME Timing, LeaseTypes, Etags, NEW s \in Schedulers, L!Step(s)
    PROVE  Move(s) /\ time' = time /\ exits' \in {exits, exits + 1}
<1> USE Constants DEF LeaseTypes
<1>1. /\ mode = [mode EXCEPT ![s] = mode[s]] /\ req = [req EXCEPT ![s] = req[s]]
      /\ term = [term EXCEPT ![s] = term[s]] /\ wake = [wake EXCEPT ![s] = wake[s]]
  OBVIOUS
<1>2. L!Held <=> lease.etag >= 1
  BY DEF L!Held, L!NoLease, Etags
<1>3. CASE L!StartClaim(s)
  <2>1. Notes(FALSE) BY <1>3, RecordNotes DEF L!StartClaim
  <2>2. Asks(s)
    BY <1>1, <1>3, <2>1 DEF L!StartClaim, L!Send, L!FreshExpiry, L!LocalNow, Asks, Sends, Effect
  <2> QED BY <1>3, <2>2 DEF L!StartClaim, Move
<1>4. ASSUME L!Claimed(s), Claimable(s) PROVE Wins(s) \/ WinsUnheard(s)
  <2>1. Notes(TRUE) BY <1>4, RecordNotes DEF L!Claimed
  <2>2. Writes(s) /\ lease'.etag = lease.etag + 1 BY <1>4 DEF L!Claimed, L!Written, Writes
  <2>3. CASE L!StartTerm(s) /\ UNCHANGED faults
    BY <1>4, <2>1, <2>2, <2>3 DEF L!StartTerm, L!Lead, Wins, Effect
  <2>4. CASE L!Fault /\ L!SleepFor(s, Heartbeat)
    BY <1>4, <2>1, <2>2, <2>4 DEF L!Fault, L!SleepFor, WinsUnheard, Sleeps, Effect
  <2> QED BY <1>4, <2>3, <2>4 DEF L!Claimed
<1>5. ASSUME L!ClaimFailed(s), mode[s] \in {"creating", "reading", "stealing", "rereading"} PROVE GivesUp(s)
  <2>1. Notes(FALSE) BY <1>5, RecordNotes DEF L!ClaimFailed
  <2> QED BY <1>5, <2>1 DEF L!ClaimFailed, L!Fault, L!SleepFor, GivesUp, Sleeps, Effect
<1>6. CASE L!CreateReply(s)
  <2>1. CASE ~L!Held /\ L!Claimed(s)
    <3>1. Claimable(s) BY <1>2, <1>6, <2>1 DEF L!CreateReply, Claimable
    <3> QED BY <1>4, <1>6, <2>1, <3>1 DEF L!CreateReply, Move
  <2>2. CASE L!Held /\ L!Send(s, "reading", 0, 0) /\ UNCHANGED <<lease, term, wake, faults>> /\ L!Record(FALSE)
    <3>1. Notes(FALSE) BY <2>2, RecordNotes
    <3>2. Asks(s) BY <1>1, <1>2, <1>6, <2>2, <3>1 DEF L!CreateReply, L!Send, Asks, Sends, Effect
    <3> QED BY <1>6, <3>2 DEF L!CreateReply, Move
  <2>3. CASE L!ClaimFailed(s)
    BY <1>5, <1>6, <2>3 DEF L!CreateReply, Move
  <2> QED BY <1>6, <2>1, <2>2, <2>3 DEF L!CreateReply
<1>7. CASE L!ReadReply(s)
  <2>1. CASE ~L!Stealable(s) /\ L!SleepFor(s, Heartbeat) /\ UNCHANGED <<lease, faults>> /\ L!Record(FALSE)
    <3>1. Notes(FALSE) BY <2>1, RecordNotes
    <3>2. GivesUp(s)
      BY <1>7, <2>1, <3>1 DEF L!ReadReply, L!Stealable, L!LocalNow, L!SleepFor, GivesUp, Sleeps, Effect
    <3> QED BY <1>7, <3>2 DEF L!ReadReply, Move
  <2>2. CASE /\ L!Stealable(s) /\ L!Send(s, "stealing", L!FreshExpiry(s), lease.etag)
             /\ UNCHANGED <<lease, term, wake, faults>> /\ L!Record(FALSE)
    <3>1. Notes(FALSE) BY <2>2, RecordNotes
    <3>2. lease.expires <= time + Offset[s] BY <2>2 DEF L!Stealable, L!LocalNow
    <3>3. Asks(s)
      BY <1>1, <1>7, <2>2, <3>1, <3>2 DEF L!ReadReply, L!Send, L!FreshExpiry, L!LocalNow, Asks, Sends, Effect
    <3> QED BY <1>7, <3>3 DEF L!ReadReply, Move
  <2>3. CASE L!ClaimFailed(s)
    BY <1>5, <1>7, <2>3 DEF L!ReadReply, Move
  <2> QED BY <1>7, <2>1, <2>2, <2>3 DEF L!ReadReply
<1>8. CASE L!StealReply(s)
  <2>1. CASE lease.etag = req[s].stale /\ L!Claimed(s)
    <3>1. Claimable(s) BY <1>8, <2>1 DEF L!StealReply, Claimable
    <3> QED BY <1>4, <1>8, <2>1, <3>1 DEF L!StealReply, Move
  <2>2. CASE /\ lease.etag # req[s].stale /\ L!Send(s, "rereading", 0, 0)
             /\ UNCHANGED <<lease, term, wake, faults>> /\ L!Record(FALSE)
    <3>1. Notes(FALSE) BY <2>2, RecordNotes
    <3>2. Asks(s) BY <1>1, <1>8, <2>2, <3>1 DEF L!StealReply, L!Send, Asks, Sends, Effect
    <3> QED BY <1>8, <3>2 DEF L!StealReply, Move
  <2>3. CASE L!ClaimFailed(s)
    BY <1>5, <1>8, <2>3 DEF L!StealReply, Move
  <2> QED BY <1>8, <2>1, <2>2, <2>3 DEF L!StealReply
<1>9. CASE L!RereadReply(s)
  <2>1. Notes(FALSE) BY <1>9, RecordNotes DEF L!RereadReply
  <2>2. GivesUp(s)
    BY <1>9, <2>1 DEF L!RereadReply, L!SleepFor, L!Fault, GivesUp, Sleeps, Effect
  <2> QED BY <1>9, <2>2 DEF L!RereadReply, Move
<1>10. CASE L!SendHeartbeat(s)
  <2>1. Notes(FALSE) BY <1>10, RecordNotes DEF L!SendHeartbeat
  <2>2. Beats(s)
    BY <1>1, <1>10, <2>1 DEF L!SendHeartbeat, L!Send, L!FreshExpiry, L!LocalNow, Beats, Sends, Effect
  <2> QED BY <1>10, <2>2 DEF L!SendHeartbeat, Move
<1>11. CASE L!HeartbeatReply(s)
  <2>1. mode[s] = "beating" /\ time' = time /\ exits' = exits /\ Notes(FALSE)
    BY <1>11, RecordNotes DEF L!HeartbeatReply
  <2>2. ASSUME L!Fault, L!AfterBackendError(s), lease' = lease \/ (lease.etag = term[s].etag /\ Writes(s))
        PROVE  Errs(s) \/ StepsDown(s)
    BY <1>1, <2>1, <2>2 DEF L!AfterBackendError, L!StepDown, L!SleepFor, L!Fault, Errs, StepsDown, Sleeps,
       Effect
  <2>3. CASE L!Matches(s) /\ lease' = L!Written(s) /\ L!Lead(s) /\ UNCHANGED <<wake, faults>>
    <3>1. Writes(s) /\ lease'.etag = lease.etag + 1 /\ lease.etag = term[s].etag
      BY <2>3 DEF L!Written, Writes, L!Matches
    <3>2. Renews(s) BY <1>1, <2>1, <2>3, <3>1 DEF L!Lead, Renews, Effect
    <3> QED BY <2>1, <3>2 DEF Move
  <2>4. CASE L!Matches(s) /\ lease' = L!Written(s) /\ L!Fault /\ L!AfterBackendError(s)
    BY <2>1, <2>2, <2>4 DEF L!Written, Writes, L!Matches, Move
  <2>5. CASE ~L!Matches(s) /\ L!StepDown(s) /\ UNCHANGED <<lease, faults>>
    <3>1. StepsDown(s) BY <2>1, <2>5 DEF L!Matches, L!StepDown, L!SleepFor, StepsDown, Sleeps, Effect
    <3> QED BY <2>1, <3>1 DEF Move
  <2>6. CASE L!Fault /\ L!AfterBackendError(s) /\ UNCHANGED lease
    BY <2>1, <2>2, <2>6 DEF Move
  <2> QED BY <1>11, <2>3, <2>4, <2>5, <2>6 DEF L!HeartbeatReply
<1>12. CASE L!Exit(s)
  <2>1. Notes(FALSE) BY <1>12 DEF L!Exit, L!Superseded, Notes
  <2>2. ComesOrGoes(s) BY <1>12, <2>1 DEF L!Exit, ComesOrGoes, Effect
  <2> QED BY <1>12, <2>2 DEF L!Exit, Move
<1>13. CASE L!Restart(s)
  <2>1. Notes(FALSE) BY <1>13 DEF L!Restart, Notes
  <2>2. ComesOrGoes(s) BY <1>13, <2>1 DEF L!Restart, L!SleepFor, ComesOrGoes, Sleeps, Effect
  <2> QED BY <1>13, <2>2 DEF L!Restart, Move
<1> QED BY <1>3, <1>6, <1>7, <1>8, <1>9, <1>10, <1>11, <1>12, <1>13 DEF L!Step

LEMMA EffectAt ==
    ASSUME LeaseTypes, NEW s \in Schedulers, NEW m, NEW q, NEW t, NEW w, Effect(s, m, q, t, w)
    PROVE  /\ mode'[s] = m /\ req'[s] = q /\ term'[s] = t /\ wake'[s] = w
           /\ \A o \in Schedulers : o # s =>
                 mode'[o] = mode[o] /\ req'[o] = req[o] /\ term'[o] = term[o] /\ wake'[o] = wake[o]
BY DEF LeaseTypes, Effect

-----------------------------------------------------------------------------
(* The lease: every move keeps the invariant.                              *)

\* What s is after a move, and that nobody else moves.
Others(s) == \A o \in Schedulers : o # s =>
    mode'[o] = mode[o] /\ req'[o] = req[o] /\ term'[o] = term[o] /\ wake'[o] = wake[o]
IsAsking(s, m, expiry, etag) ==
    /\ mode'[s] = m /\ term'[s] = term[s]
    /\ req'[s].due = time + MaxDelay /\ req'[s].expires = expiry /\ req'[s].stale = etag
IsWaiting(s, d) == mode'[s] = "waiting" /\ req'[s].due = 0 /\ wake'[s] = time + d
IsLeading(s, e, t, w) ==
    mode'[s] = "serving" /\ req'[s].due = 0 /\ term'[s].etag = e /\ term'[s].lastOk = t /\ wake'[s] = w

LEMMA MoveAt ==
    ASSUME LeaseTypes, NEW s \in Schedulers
    PROVE  /\ Move(s) => Others(s)
           /\ \A m, x, e, w : Sends(s, m, x, e, w) => IsAsking(s, m, x, e) /\ wake'[s] = w
           /\ \A d : Sleeps(s, d) => IsWaiting(s, d)
           /\ \A e, t, w : Effect(s, "serving", L!NoRequest, [etag |-> e, lastOk |-> t], w) => IsLeading(s, e, t, w)
           /\ Writes(s) => lease'.etag = lease.etag + 1 /\ lease'.expires = req[s].expires
<1>1. Move(s) => Others(s)
  <2>1. Move(s) => \E m, q, t, w : Effect(s, m, q, t, w)
    BY DEF Move, Asks, Beats, Wins, WinsUnheard, GivesUp, Renews, Errs, StepsDown, ComesOrGoes, Sends, Sleeps
  <2> QED BY <2>1, EffectAt DEF Others
<1>2. ASSUME NEW m, NEW x, NEW e, NEW w, Sends(s, m, x, e, w) PROVE IsAsking(s, m, x, e) /\ wake'[s] = w
  <2>1. req'[s] = [due |-> time + MaxDelay, expires |-> x, stale |-> e] /\ mode'[s] = m /\ term'[s] = term[s] /\ wake'[s] = w
    BY <1>2, EffectAt DEF Sends
  <2> QED BY <2>1 DEF IsAsking
<1>3. ASSUME NEW d, Sleeps(s, d) PROVE IsWaiting(s, d)
  <2>1. req'[s] = L!NoRequest /\ mode'[s] = "waiting" /\ wake'[s] = time + d
    BY <1>3, EffectAt DEF Sleeps
  <2> QED BY <2>1 DEF IsWaiting, L!NoRequest
<1>4. ASSUME NEW e, NEW t, NEW w, Effect(s, "serving", L!NoRequest, [etag |-> e, lastOk |-> t], w)
      PROVE  IsLeading(s, e, t, w)
  <2>1. req'[s] = L!NoRequest /\ mode'[s] = "serving" /\ term'[s] = [etag |-> e, lastOk |-> t] /\ wake'[s] = w
    BY <1>4, EffectAt
  <2> QED BY <2>1 DEF IsLeading, L!NoRequest
<1>5. Writes(s) => lease'.etag = lease.etag + 1 /\ lease'.expires = req[s].expires
  BY DEF Writes
<1> QED BY <1>1, <1>2, <1>3, <1>4, <1>5

LEMMA MoveTypes ==
    ASSUME Timing, LeaseTypes, NEW s \in Schedulers, Move(s), time' = time, exits' \in {exits, exits + 1}
    PROVE  LeaseTypes'
<1> USE Constants DEF LeaseTypes, Move
<1> DEFINE Request == [due : Nat, expires : Int, stale : Nat]
           Term == [etag : Nat, lastOk : Nat]
<1>1. \E m \in L!Modes : mode' = [mode EXCEPT ![s] = m]
  BY DEF Asks, Beats, Wins, WinsUnheard, GivesUp, Renews, Errs, StepsDown, ComesOrGoes, Sends, Sleeps, Effect,
         L!Modes, L!Requests
<1>2. \E q \in Request : req' = [req EXCEPT ![s] = q]
  <2>1. ASSUME NEW x \in Int, NEW e \in Nat PROVE [due |-> time + MaxDelay, expires |-> x, stale |-> e] \in Request
    OBVIOUS
  <2>2. time + Offset[s] + LeaseDuration \in Int /\ lease.etag \in Nat /\ L!NoRequest \in Request
    BY DEF L!NoRequest
  <2>3. CASE Asks(s)
    <3>1. PICK x \in {time + Offset[s] + LeaseDuration, 0}, e \in {0, lease.etag} :
            req' = [req EXCEPT ![s] = [due |-> time + MaxDelay, expires |-> x, stale |-> e]]
      BY <2>3 DEF Asks, Sends, Effect
    <3>2. x \in Int /\ e \in Nat BY <2>2
    <3>3. [due |-> time + MaxDelay, expires |-> x, stale |-> e] \in Request BY <2>1, <3>2
    <3> QED BY <3>1, <3>3
  <2>4. CASE Beats(s)
    <3>1. req' = [req EXCEPT ![s] = [due |-> time + MaxDelay, expires |-> time + Offset[s] + LeaseDuration, stale |-> 0]]
      BY <2>4 DEF Beats, Sends, Effect
    <3> QED BY <2>1, <2>2, <3>1
  <2>5. CASE ~Asks(s) /\ ~Beats(s)
    <3>1. req' = [req EXCEPT ![s] = L!NoRequest]
      BY <2>5 DEF Wins, WinsUnheard, GivesUp, Renews, Errs, StepsDown, ComesOrGoes, Sleeps, Effect
    <3> QED BY <2>2, <3>1
  <2> QED BY <2>3, <2>4, <2>5
<1>3. \E t \in Term : term' = [term EXCEPT ![s] = t]
  <2>1. term[s] \in Term /\ [etag |-> lease.etag + 1, lastOk |-> time] \in Term /\ L!NoTerm \in Term
    BY DEF L!NoTerm
  <2> QED
    BY <2>1 DEF Asks, Beats, Wins, WinsUnheard, GivesUp, Renews, Errs, StepsDown, ComesOrGoes, Sends, Sleeps,
       Effect
<1>4. \E w \in Nat : wake' = [wake EXCEPT ![s] = w]
  <2>1. PICK w \in {0, wake[s], wake[s] + Heartbeat, time + Heartbeat, time + 0} : wake' = [wake EXCEPT ![s] = w]
    BY DEF Asks, Beats, Wins, WinsUnheard, GivesUp, Renews, Errs, StepsDown, ComesOrGoes, Sends, Sleeps, Effect
  <2>2. {0, wake[s], wake[s] + Heartbeat, time + Heartbeat, time + 0} \subseteq Nat OBVIOUS
  <2> QED BY <2>1, <2>2
<1>5. lease' \in [etag : Nat, expires : Int] /\ faults' \in Nat
  <2>1. [etag |-> lease.etag + 1, expires |-> req[s].expires] \in [etag : Nat, expires : Int]
    OBVIOUS
  <2>2. lease' = lease \/ lease' = [etag |-> lease.etag + 1, expires |-> req[s].expires]
    BY DEF Asks, Beats, Wins, WinsUnheard, GivesUp, Renews, Errs, StepsDown, ComesOrGoes, Sends, Writes
  <2>3. faults' \in {faults, faults + 1}
    BY DEF Asks, Beats, Wins, WinsUnheard, GivesUp, Renews, Errs, StepsDown, ComesOrGoes, Sends
  <2> QED BY <2>1, <2>2, <2>3
<1>6. stolenAt' \in 0 .. time /\ vacantSince' \in 0 .. time
  BY DEF Asks, Beats, Wins, WinsUnheard, GivesUp, Renews, Errs, StepsDown, ComesOrGoes, Notes
<1>7. mode' \in [Schedulers -> L!Modes] BY <1>1
<1>8. req' \in [Schedulers -> Request] BY <1>2
<1>9. term' \in [Schedulers -> Term] BY <1>3
<1>10. wake' \in [Schedulers -> Nat] BY <1>4
<1> QED BY <1>5, <1>6, <1>7, <1>8, <1>9, <1>10

\* What a move does to s, in numbers: one definition per kind of move.
Same == lease' = lease /\ faults' = faults /\ Notes(FALSE)
Rewritten(s) == lease'.etag = lease.etag + 1 /\ lease'.expires = req[s].expires
Claims(s) ==
    /\ mode[s] = "waiting" /\ Same /\ IsAsking(s, "creating", time + Offset[s] + LeaseDuration, 0) /\ wake'[s] = 0
Looks(s) ==
    /\ mode[s] = "creating" /\ lease.etag >= 1 /\ Same /\ IsAsking(s, "reading", 0, 0) /\ wake'[s] = wake[s]
Seizes(s) ==
    /\ mode[s] = "reading" /\ lease.expires <= time + Offset[s] /\ Same
    /\ IsAsking(s, "stealing", time + Offset[s] + LeaseDuration, lease.etag) /\ wake'[s] = wake[s]
Loses(s) ==
    /\ mode[s] = "stealing" /\ lease.etag # req[s].stale /\ Same
    /\ IsAsking(s, "rereading", 0, 0) /\ wake'[s] = wake[s]
Pulses(s) ==
    /\ mode[s] = "serving" /\ time >= wake[s] /\ Same
    /\ IsAsking(s, "beating", time + Offset[s] + LeaseDuration, 0) /\ wake'[s] = wake[s] + Heartbeat
Rises(s) ==
    /\ Claimable(s) /\ Rewritten(s) /\ faults' = faults /\ Notes(TRUE)
    /\ IsLeading(s, lease.etag + 1, time, time + Heartbeat)
Misses(s) ==
    /\ Claimable(s) /\ Rewritten(s) /\ faults' = faults + 1 /\ Notes(TRUE) /\ IsWaiting(s, Heartbeat)
Rests(s) ==
    /\ mode[s] \in {"creating", "reading", "stealing", "rereading"}
    /\ \/ faults' = faults + 1
       \/ /\ faults' = faults
          /\ mode[s] = "rereading" \/ (mode[s] = "reading" /\ lease.expires > time + Offset[s])
    /\ lease' = lease /\ Notes(FALSE) /\ IsWaiting(s, Heartbeat)
Extends(s) ==
    /\ mode[s] = "beating" /\ lease.etag = term[s].etag /\ Rewritten(s) /\ faults' = faults /\ Notes(FALSE)
    /\ IsLeading(s, lease.etag + 1, time, wake[s])
Persists(s) ==
    /\ mode[s] = "beating" /\ time - term[s].lastOk < LeaseDuration /\ faults' = faults + 1 /\ Notes(FALSE)
    /\ lease' = lease \/ (lease.etag = term[s].etag /\ Rewritten(s))
    /\ IsLeading(s, term[s].etag, term[s].lastOk, wake[s])
Yields(s) ==
    /\ mode[s] = "beating" /\ IsWaiting(s, 0) /\ Notes(FALSE)
    /\ lease' = lease \/ (lease.etag = term[s].etag /\ Rewritten(s))
    /\ faults' = faults + 1 \/ (faults' = faults /\ lease.etag # term[s].etag /\ lease' = lease)
Turns(s) ==
    /\ Same /\ vacantSince' = time
    /\ IsWaiting(s, 0) \/ (mode'[s] = "down" /\ req'[s].due = 0 /\ wake'[s] = 0)
Points(s) ==
    \/ Claims(s) \/ Looks(s) \/ Seizes(s) \/ Loses(s) \/ Pulses(s) \/ Rises(s) \/ Misses(s) \/ Rests(s)
    \/ Extends(s) \/ Persists(s) \/ Yields(s) \/ Turns(s)

LEMMA MovePoints ==
    ASSUME LeaseTypes, NEW s \in Schedulers, Move(s)
    PROVE  Others(s) /\ Points(s)
<1>1. Others(s) BY MoveAt
<1>2. ASSUME NEW m, NEW x, NEW e, NEW w, Sends(s, m, x, e, w)
      PROVE  IsAsking(s, m, x, e) /\ wake'[s] = w /\ lease' = lease /\ faults' = faults
  BY <1>2, MoveAt DEF Sends
<1>3. Writes(s) => Rewritten(s) BY MoveAt DEF Rewritten
<1>4. CASE Asks(s)
  <2>1. Notes(FALSE) BY <1>4 DEF Asks
  <2>2. CASE mode[s] = "waiting" /\ Sends(s, "creating", time + Offset[s] + LeaseDuration, 0, 0)
    BY <1>1, <1>2, <2>1, <2>2 DEF Claims, Same, Points
  <2>3. CASE mode[s] = "creating" /\ lease.etag >= 1 /\ Sends(s, "reading", 0, 0, wake[s])
    BY <1>1, <1>2, <2>1, <2>3 DEF Looks, Same, Points
  <2>4. CASE /\ mode[s] = "reading" /\ lease.expires <= time + Offset[s]
             /\ Sends(s, "stealing", time + Offset[s] + LeaseDuration, lease.etag, wake[s])
    BY <1>1, <1>2, <2>1, <2>4 DEF Seizes, Same, Points
  <2>5. CASE mode[s] = "stealing" /\ lease.etag # req[s].stale /\ Sends(s, "rereading", 0, 0, wake[s])
    BY <1>1, <1>2, <2>1, <2>5 DEF Loses, Same, Points
  <2> QED BY <1>1, <1>4, <2>2, <2>3, <2>4, <2>5 DEF Asks
<1>5. CASE Beats(s)
  <2>1. Sends(s, "beating", time + Offset[s] + LeaseDuration, 0, wake[s] + Heartbeat) BY <1>5 DEF Beats
  <2> QED BY <1>1, <1>2, <1>5, <2>1 DEF Beats, Pulses, Same, Points
<1>6. CASE Wins(s) BY <1>1, <1>3, <1>6, MoveAt DEF Wins, Rises, Points
<1>7. CASE WinsUnheard(s) BY <1>1, <1>3, <1>7, MoveAt DEF WinsUnheard, Misses, Points
<1>8. CASE GivesUp(s) BY <1>1, <1>8, MoveAt DEF GivesUp, Rests, Points
<1>9. CASE Renews(s) BY <1>1, <1>3, <1>9, MoveAt DEF Renews, Extends, Points
<1>10. CASE Errs(s)
  <2>1. Effect(s, "serving", L!NoRequest, term[s], wake[s]) BY <1>10 DEF Errs
  <2>2. mode'[s] = "serving" /\ req'[s] = L!NoRequest /\ term'[s] = term[s] /\ wake'[s] = wake[s]
    BY <2>1, EffectAt
  <2>3. IsLeading(s, term[s].etag, term[s].lastOk, wake[s]) BY <2>2 DEF IsLeading, L!NoRequest
  <2> QED BY <1>1, <1>3, <1>10, <2>3 DEF Errs, Persists, Points
<1>11. CASE StepsDown(s) BY <1>1, <1>3, <1>11, MoveAt DEF StepsDown, Yields, Points
<1>12. CASE ComesOrGoes(s)
  <2>1. Effect(s, "down", L!NoRequest, L!NoTerm, 0) => mode'[s] = "down" /\ req'[s] = L!NoRequest /\ wake'[s] = 0
    BY EffectAt
  <2>2. Sleeps(s, 0) => IsWaiting(s, 0) BY MoveAt
  <2>3. L!NoRequest.due = 0 BY DEF L!NoRequest
  <2>4. IsWaiting(s, 0) \/ (mode'[s] = "down" /\ req'[s].due = 0 /\ wake'[s] = 0)
    BY <1>12, <2>1, <2>2, <2>3 DEF ComesOrGoes
  <2> QED BY <1>1, <1>12, <2>4 DEF ComesOrGoes, Turns, Same, Points
<1> QED BY <1>4, <1>5, <1>6, <1>7, <1>8, <1>9, <1>10, <1>11, <1>12 DEF Move

\* The numbers of a state.
Numbers ==
    /\ time \in Nat /\ lease.etag \in Nat /\ lease.expires \in Int /\ faults \in Nat
    /\ stolenAt \in Nat /\ stolenAt <= time /\ vacantSince \in Nat /\ vacantSince <= time
    /\ \A s \in Schedulers :
          /\ mode[s] \in L!Modes
          /\ req[s].due \in Nat /\ req[s].expires \in Int /\ req[s].stale \in Nat
          /\ term[s].etag \in Nat /\ term[s].lastOk \in Nat /\ wake[s] \in Nat

LEMMA TypedNumbers ==
    ASSUME Timing
    PROVE  (LeaseTypes => Numbers) /\ (LeaseTypes' => Numbers')
BY Constants DEF LeaseTypes, Numbers

LEMMA TimelyKept ==
    ASSUME Timing, LeaseInv, NEW s \in Schedulers, Move(s), time' = time, LeaseTypes'
    PROVE  Timely'
<1>1. Others(s) /\ Points(s) BY MovePoints DEF LeaseInv
<1>2. Numbers /\ Numbers' BY TypedNumbers DEF LeaseInv
<1>3. ASSUME NEW o \in Schedulers, o # s PROVE OnTime(o)'
  BY <1>1, <1>3 DEF LeaseInv, Timely, OnTime, Others
<1>4. OnTime(s)'
  <2>1. CASE Claims(s)
    BY <1>1, <1>2, <2>1, Constants DEF Claims, LeaseInv, Timely, OnTime, Claimable, IsAsking, IsWaiting,
       IsLeading, L!Requests, Numbers
  <2>2. CASE Looks(s)
    BY <1>1, <1>2, <2>2, Constants DEF Looks, LeaseInv, Timely, OnTime, Claimable, IsAsking, IsWaiting,
       IsLeading, L!Requests, Numbers
  <2>3. CASE Seizes(s)
    BY <1>1, <1>2, <2>3, Constants DEF Seizes, LeaseInv, Timely, OnTime, Claimable, IsAsking, IsWaiting,
       IsLeading, L!Requests, Numbers
  <2>4. CASE Loses(s)
    BY <1>1, <1>2, <2>4, Constants DEF Loses, LeaseInv, Timely, OnTime, Claimable, IsAsking, IsWaiting,
       IsLeading, L!Requests, Numbers
  <2>5. CASE Pulses(s)
    BY <1>1, <1>2, <2>5, Constants DEF Pulses, LeaseInv, Timely, OnTime, Claimable, IsAsking, IsWaiting,
       IsLeading, L!Requests, Numbers
  <2>6. CASE Rises(s)
    BY <1>1, <1>2, <2>6, Constants DEF Rises, LeaseInv, Timely, OnTime, Claimable, IsAsking, IsWaiting,
       IsLeading, L!Requests, Numbers
  <2>7. CASE Misses(s)
    BY <1>1, <1>2, <2>7, Constants DEF Misses, LeaseInv, Timely, OnTime, Claimable, IsAsking, IsWaiting,
       IsLeading, L!Requests, Numbers
  <2>8. CASE Rests(s)
    BY <1>1, <1>2, <2>8, Constants DEF Rests, LeaseInv, Timely, OnTime, Claimable, IsAsking, IsWaiting,
       IsLeading, L!Requests, Numbers
  <2>9. CASE Extends(s)
    BY <1>1, <1>2, <2>9, Constants DEF Extends, LeaseInv, Timely, OnTime, Claimable, IsAsking, IsWaiting,
       IsLeading, L!Requests, Numbers
  <2>10. CASE Persists(s)
    BY <1>1, <1>2, <2>10, Constants DEF Persists, LeaseInv, Timely, OnTime, Claimable, IsAsking, IsWaiting,
       IsLeading, L!Requests, Numbers
  <2>11. CASE Yields(s)
    BY <1>1, <1>2, <2>11, Constants DEF Yields, LeaseInv, Timely, OnTime, Claimable, IsAsking, IsWaiting,
       IsLeading, L!Requests, Numbers
  <2>12. CASE Turns(s)
    BY <1>1, <1>2, <2>12, Constants DEF Turns, LeaseInv, Timely, OnTime, Claimable, IsAsking, IsWaiting,
       IsLeading, L!Requests, Numbers
  <2> QED BY <1>1, <2>1, <2>2, <2>3, <2>4, <2>5, <2>6, <2>7, <2>8, <2>9, <2>10, <2>11, <2>12 DEF Points
<1> QED BY <1>3, <1>4 DEF Timely

LEMMA StampedKept ==
    ASSUME Timing, LeaseInv, NEW s \in Schedulers, Move(s), time' = time, LeaseTypes'
    PROVE  Stamped'
<1>1. Others(s) /\ Points(s) BY MovePoints DEF LeaseInv
<1>2. Numbers /\ Numbers' BY TypedNumbers DEF LeaseInv
<1>3. ASSUME NEW o \in Schedulers, o # s PROVE FreshPayload(o)'
  BY <1>1, <1>3 DEF LeaseInv, Stamped, FreshPayload, Others
<1>4. FreshPayload(s)'
  <2>1. CASE Claims(s)
    BY <1>1, <1>2, <2>1, Constants DEF Claims, FreshPayload, IsAsking, IsWaiting, IsLeading, Numbers
  <2>2. CASE Looks(s)
    BY <1>1, <1>2, <2>2, Constants DEF Looks, FreshPayload, IsAsking, IsWaiting, IsLeading, Numbers
  <2>3. CASE Seizes(s)
    BY <1>1, <1>2, <2>3, Constants DEF Seizes, FreshPayload, IsAsking, IsWaiting, IsLeading, Numbers
  <2>4. CASE Loses(s)
    BY <1>1, <1>2, <2>4, Constants DEF Loses, FreshPayload, IsAsking, IsWaiting, IsLeading, Numbers
  <2>5. CASE Pulses(s)
    BY <1>1, <1>2, <2>5, Constants DEF Pulses, FreshPayload, IsAsking, IsWaiting, IsLeading, Numbers
  <2>6. CASE Rises(s)
    BY <1>1, <1>2, <2>6, Constants DEF Rises, FreshPayload, IsAsking, IsWaiting, IsLeading, Numbers
  <2>7. CASE Misses(s)
    BY <1>1, <1>2, <2>7, Constants DEF Misses, FreshPayload, IsAsking, IsWaiting, IsLeading, Numbers
  <2>8. CASE Rests(s)
    BY <1>1, <1>2, <2>8, Constants DEF Rests, FreshPayload, IsAsking, IsWaiting, IsLeading, Numbers
  <2>9. CASE Extends(s)
    BY <1>1, <1>2, <2>9, Constants DEF Extends, FreshPayload, IsAsking, IsWaiting, IsLeading, Numbers
  <2>10. CASE Persists(s)
    BY <1>1, <1>2, <2>10, Constants DEF Persists, FreshPayload, IsAsking, IsWaiting, IsLeading, Numbers
  <2>11. CASE Yields(s)
    BY <1>1, <1>2, <2>11, Constants DEF Yields, FreshPayload, IsAsking, IsWaiting, IsLeading, Numbers
  <2>12. CASE Turns(s)
    BY <1>1, <1>2, <2>12, Constants DEF Turns, FreshPayload, IsAsking, IsWaiting, IsLeading, Numbers
  <2> QED BY <1>1, <2>1, <2>2, <2>3, <2>4, <2>5, <2>6, <2>7, <2>8, <2>9, <2>10, <2>11, <2>12 DEF Points
<1> QED BY <1>3, <1>4 DEF Stamped

LEMMA EtagsKept ==
    ASSUME Timing, LeaseInv, NEW s \in Schedulers, Move(s), time' = time, LeaseTypes'
    PROVE  Etags'
<1>1. Others(s) /\ Points(s) BY MovePoints DEF LeaseInv
<1>2. Numbers /\ Numbers' BY TypedNumbers DEF LeaseInv
<1>3. lease' = lease \/ lease'.etag = lease.etag + 1
  BY <1>1 DEF Points, Claims, Looks, Seizes, Loses, Pulses, Rises, Misses, Rests, Extends, Persists, Yields,
     Turns, Same, Rewritten
<1>4. ASSUME NEW o \in Schedulers, o # s PROVE EtagsOf(o)'
  BY <1>1, <1>2, <1>3, <1>4 DEF LeaseInv, Etags, EtagsOf, Others, L!Serving, Numbers
<1>5. EtagsOf(s)'
  <2>1. CASE Claims(s)
    BY <1>1, <1>2, <2>1 DEF Claims, Same, Rewritten, LeaseInv, Etags, EtagsOf, IsAsking, IsWaiting, IsLeading,
       L!Serving, Numbers
  <2>2. CASE Looks(s)
    BY <1>1, <1>2, <2>2 DEF Looks, Same, Rewritten, LeaseInv, Etags, EtagsOf, IsAsking, IsWaiting, IsLeading,
       L!Serving, Numbers
  <2>3. CASE Seizes(s)
    BY <1>1, <1>2, <2>3 DEF Seizes, Same, Rewritten, LeaseInv, Etags, EtagsOf, IsAsking, IsWaiting, IsLeading,
       L!Serving, Numbers
  <2>4. CASE Loses(s)
    BY <1>1, <1>2, <2>4 DEF Loses, Same, Rewritten, LeaseInv, Etags, EtagsOf, IsAsking, IsWaiting, IsLeading,
       L!Serving, Numbers
  <2>5. CASE Pulses(s)
    BY <1>1, <1>2, <2>5 DEF Pulses, Same, Rewritten, LeaseInv, Etags, EtagsOf, IsAsking, IsWaiting, IsLeading,
       L!Serving, Numbers
  <2>6. CASE Rises(s)
    BY <1>1, <1>2, <2>6 DEF Rises, Same, Rewritten, LeaseInv, Etags, EtagsOf, IsAsking, IsWaiting, IsLeading,
       L!Serving, Numbers
  <2>7. CASE Misses(s)
    BY <1>1, <1>2, <2>7 DEF Misses, Same, Rewritten, LeaseInv, Etags, EtagsOf, IsAsking, IsWaiting, IsLeading,
       L!Serving, Numbers
  <2>8. CASE Rests(s)
    BY <1>1, <1>2, <2>8 DEF Rests, Same, Rewritten, LeaseInv, Etags, EtagsOf, IsAsking, IsWaiting, IsLeading,
       L!Serving, Numbers
  <2>9. CASE Extends(s)
    BY <1>1, <1>2, <2>9 DEF Extends, Same, Rewritten, LeaseInv, Etags, EtagsOf, IsAsking, IsWaiting, IsLeading,
       L!Serving, Numbers
  <2>10. CASE Persists(s)
    BY <1>1, <1>2, <2>10 DEF Persists, Same, Rewritten, LeaseInv, Etags, EtagsOf, IsAsking, IsWaiting,
       IsLeading, L!Serving, Numbers
  <2>11. CASE Yields(s)
    BY <1>1, <1>2, <2>11 DEF Yields, Same, Rewritten, LeaseInv, Etags, EtagsOf, IsAsking, IsWaiting, IsLeading,
       L!Serving, Numbers
  <2>12. CASE Turns(s)
    BY <1>1, <1>2, <2>12 DEF Turns, Same, Rewritten, LeaseInv, Etags, EtagsOf, IsAsking, IsWaiting, IsLeading,
       L!Serving, Numbers
  <2> QED BY <1>1, <2>1, <2>2, <2>3, <2>4, <2>5, <2>6, <2>7, <2>8, <2>9, <2>10, <2>11, <2>12 DEF Points
<1>6. lease'.etag = 0 => lease' = L!NoLease'
  BY <1>2, <1>3 DEF LeaseInv, Etags, L!NoLease, Numbers
<1> QED BY <1>4, <1>5, <1>6 DEF Etags

LEMMA PatienceKept ==
    ASSUME Timing, LeaseInv, NEW s \in Schedulers, Move(s), time' = time, LeaseTypes'
    PROVE  Patience'
<1>1. Others(s) /\ Points(s) BY MovePoints DEF LeaseInv
<1>2. Numbers /\ Numbers' BY TypedNumbers DEF LeaseInv
<1>3. ASSUME NEW o \in Schedulers, o # s PROVE Patient(o)'
  BY <1>1, <1>3 DEF LeaseInv, Patience, Patient, Others, L!Serving
<1>4. Patient(s)'
  <2>1. CASE Claims(s)
    BY <1>1, <1>2, <2>1, Constants DEF Claims, LeaseInv, Timely, OnTime, Patience, Patient, IsAsking, IsWaiting,
       IsLeading, L!Serving, L!Requests, Numbers
  <2>2. CASE Looks(s)
    BY <1>1, <1>2, <2>2, Constants DEF Looks, LeaseInv, Timely, OnTime, Patience, Patient, IsAsking, IsWaiting,
       IsLeading, L!Serving, L!Requests, Numbers
  <2>3. CASE Seizes(s)
    BY <1>1, <1>2, <2>3, Constants DEF Seizes, LeaseInv, Timely, OnTime, Patience, Patient, IsAsking, IsWaiting,
       IsLeading, L!Serving, L!Requests, Numbers
  <2>4. CASE Loses(s)
    BY <1>1, <1>2, <2>4, Constants DEF Loses, LeaseInv, Timely, OnTime, Patience, Patient, IsAsking, IsWaiting,
       IsLeading, L!Serving, L!Requests, Numbers
  <2>5. CASE Pulses(s)
    BY <1>1, <1>2, <2>5, Constants DEF Pulses, LeaseInv, Timely, OnTime, Patience, Patient, IsAsking, IsWaiting,
       IsLeading, L!Serving, L!Requests, Numbers
  <2>6. CASE Rises(s)
    BY <1>1, <1>2, <2>6, Constants DEF Rises, LeaseInv, Timely, OnTime, Patience, Patient, IsAsking, IsWaiting,
       IsLeading, L!Serving, L!Requests, Numbers
  <2>7. CASE Misses(s)
    BY <1>1, <1>2, <2>7, Constants DEF Misses, LeaseInv, Timely, OnTime, Patience, Patient, IsAsking, IsWaiting,
       IsLeading, L!Serving, L!Requests, Numbers
  <2>8. CASE Rests(s)
    BY <1>1, <1>2, <2>8, Constants DEF Rests, LeaseInv, Timely, OnTime, Patience, Patient, IsAsking, IsWaiting,
       IsLeading, L!Serving, L!Requests, Numbers
  <2>9. CASE Extends(s)
    BY <1>1, <1>2, <2>9, Constants DEF Extends, LeaseInv, Timely, OnTime, Patience, Patient, IsAsking,
       IsWaiting, IsLeading, L!Serving, L!Requests, Numbers
  <2>10. CASE Persists(s)
    BY <1>1, <1>2, <2>10, Constants DEF Persists, LeaseInv, Timely, OnTime, Patience, Patient, IsAsking,
       IsWaiting, IsLeading, L!Serving, L!Requests, Numbers
  <2>11. CASE Yields(s)
    BY <1>1, <1>2, <2>11, Constants DEF Yields, LeaseInv, Timely, OnTime, Patience, Patient, IsAsking,
       IsWaiting, IsLeading, L!Serving, L!Requests, Numbers
  <2>12. CASE Turns(s)
    BY <1>1, <1>2, <2>12, Constants DEF Turns, LeaseInv, Timely, OnTime, Patience, Patient, IsAsking, IsWaiting,
       IsLeading, L!Serving, L!Requests, Numbers
  <2> QED BY <1>1, <2>1, <2>2, <2>3, <2>4, <2>5, <2>6, <2>7, <2>8, <2>9, <2>10, <2>11, <2>12 DEF Points
<1> QED BY <1>3, <1>4 DEF Patience

LEMMA ExpiredKept ==
    ASSUME Timing, LeaseInv, NEW s \in Schedulers, Move(s), time' = time, LeaseTypes'
    PROVE  Expired'
<1>1. Others(s) /\ Points(s) BY MovePoints DEF LeaseInv
<1>2. Numbers /\ Numbers' BY TypedNumbers DEF LeaseInv
<1>3. lease' = lease \/ lease'.etag = lease.etag + 1
  BY <1>1 DEF Points, Claims, Looks, Seizes, Loses, Pulses, Rises, Misses, Rests, Extends, Persists, Yields,
     Turns, Same, Rewritten
<1>4. ASSUME NEW o \in Schedulers, o # s PROVE SeenExpired(o)'
  BY <1>1, <1>2, <1>3, <1>4 DEF LeaseInv, Expired, SeenExpired, Etags, EtagsOf, Others, Numbers
<1>5. SeenExpired(s)'
  <2>1. CASE Claims(s)
    BY <1>1, <1>2, <2>1 DEF Claims, Same, SeenExpired, IsAsking, IsWaiting, IsLeading, Numbers
  <2>2. CASE Looks(s) BY <1>1, <1>2, <2>2 DEF Looks, Same, SeenExpired, IsAsking, IsWaiting, IsLeading, Numbers
  <2>3. CASE Seizes(s)
    BY <1>1, <1>2, <2>3 DEF Seizes, Same, SeenExpired, IsAsking, IsWaiting, IsLeading, Numbers
  <2>4. CASE Loses(s) BY <1>1, <1>2, <2>4 DEF Loses, Same, SeenExpired, IsAsking, IsWaiting, IsLeading, Numbers
  <2>5. CASE Pulses(s)
    BY <1>1, <1>2, <2>5 DEF Pulses, Same, SeenExpired, IsAsking, IsWaiting, IsLeading, Numbers
  <2>6. CASE Rises(s) BY <1>1, <1>2, <2>6 DEF Rises, Same, SeenExpired, IsAsking, IsWaiting, IsLeading, Numbers
  <2>7. CASE Misses(s)
    BY <1>1, <1>2, <2>7 DEF Misses, Same, SeenExpired, IsAsking, IsWaiting, IsLeading, Numbers
  <2>8. CASE Rests(s) BY <1>1, <1>2, <2>8 DEF Rests, Same, SeenExpired, IsAsking, IsWaiting, IsLeading, Numbers
  <2>9. CASE Extends(s)
    BY <1>1, <1>2, <2>9 DEF Extends, Same, SeenExpired, IsAsking, IsWaiting, IsLeading, Numbers
  <2>10. CASE Persists(s)
    BY <1>1, <1>2, <2>10 DEF Persists, Same, SeenExpired, IsAsking, IsWaiting, IsLeading, Numbers
  <2>11. CASE Yields(s)
    BY <1>1, <1>2, <2>11 DEF Yields, Same, SeenExpired, IsAsking, IsWaiting, IsLeading, Numbers
  <2>12. CASE Turns(s)
    BY <1>1, <1>2, <2>12 DEF Turns, Same, SeenExpired, IsAsking, IsWaiting, IsLeading, Numbers
  <2> QED BY <1>1, <2>1, <2>2, <2>3, <2>4, <2>5, <2>6, <2>7, <2>8, <2>9, <2>10, <2>11, <2>12 DEF Points
<1> QED BY <1>4, <1>5 DEF Expired

\* Who was robbed stays so while it serves: the theft is not forgotten, and a later
\* one is recorded later.
LEMMA RobbedStays ==
    ASSUME Timing, Numbers, Numbers', NEW change \in BOOLEAN, Notes(change), time' = time,
           NEW o \in Schedulers, L!Serving(o)', Robbed(o), lease'.etag >= lease.etag,
           term'[o].etag = term[o].etag, term'[o].lastOk = term[o].lastOk
    PROVE  Robbed(o)'
<1>1. term'[o].etag < lease'.etag /\ term'[o].etag # lease'.etag
  BY DEF Robbed, Numbers
<1>2. stolenAt' = IF change THEN time ELSE stolenAt
  BY <1>1 DEF Notes
<1>3. stolenAt' >= stolenAt
  BY <1>2 DEF Numbers
<1> QED BY <1>1, <1>3, Constants DEF Robbed, Numbers

\* A claim robs everybody who serves.
LEMMA ClaimRobs ==
    ASSUME Timing, LeaseInv, LeaseTypes', NEW s \in Schedulers, Claimable(s), Rewritten(s), Notes(TRUE), time' = time,
           NEW o \in Schedulers, L!Serving(o), L!Serving(o)',
           term'[o].etag = term[o].etag, term'[o].lastOk = term[o].lastOk
    PROVE  Robbed(o)'
<1>1. Numbers /\ Numbers' BY TypedNumbers DEF LeaseInv
<1>2. term[o].etag >= 1 /\ term[o].etag <= lease.etag
  BY DEF LeaseInv, Etags, EtagsOf
<1>3. mode[s] = "stealing" /\ lease.expires <= time + Offset[s]
  BY <1>1, <1>2 DEF Claimable, LeaseInv, Expired, SeenExpired, Numbers
<1>4. term'[o].etag < lease'.etag
  BY <1>1, <1>2 DEF Rewritten, Numbers
<1>5. term'[o].etag # lease'.etag
  BY <1>1, <1>4 DEF Numbers
<1>6. stolenAt' = time
  BY <1>5 DEF Notes
<1>7. term[o].lastOk + LeaseDuration <= time + MaxSkew + MaxDelay
  <2>1. Offset[s] <= Offset[o] + MaxSkew /\ Offset[s] \in Int /\ Offset[o] \in Int BY Constants
  <2>2. CASE Robbed(o) BY <1>1, <2>2, Constants DEF Robbed, Numbers
  <2>3. CASE Kept(o) BY <1>1, <1>3, <2>1, <2>3, Constants DEF Kept, Numbers
  <2> QED BY <2>2, <2>3 DEF LeaseInv, Hands
<1> QED BY <1>1, <1>4, <1>6, <1>7 DEF Robbed

\* A write of s, stamped before its reply, is good for a lease after the reply.
LEMMA WriteKeeps ==
    ASSUME Timing, LeaseInv, LeaseTypes', NEW s \in Schedulers, mode[s] \in {"creating", "stealing", "beating"},
           Rewritten(s), time' = time, term'[s].lastOk <= time
    PROVE  Kept(s)'
<1>1. Numbers /\ Numbers' BY TypedNumbers DEF LeaseInv
<1>2. req[s].expires = req[s].due - MaxDelay + Offset[s] + LeaseDuration
  BY DEF LeaseInv, Stamped, FreshPayload
<1>3. time <= req[s].due
  BY DEF LeaseInv, Timely, OnTime, L!Requests
<1> QED BY <1>1, <1>2, <1>3, Constants DEF Kept, Rewritten, Numbers

LEMMA HandsKept ==
    ASSUME Timing, LeaseInv, NEW s \in Schedulers, Move(s), time' = time, LeaseTypes'
    PROVE  Hands'
<1>1. Others(s) /\ Points(s) BY MovePoints DEF LeaseInv
<1>2. Numbers /\ Numbers' BY TypedNumbers DEF LeaseInv
<1> DEFINE Keeps(o) == L!Serving(o)' => /\ L!Serving(o) /\ term'[o].etag = term[o].etag
                                        /\ term'[o].lastOk = term[o].lastOk
<1>3. ASSUME NEW o \in Schedulers, o # s PROVE Keeps(o)
  BY <1>1, <1>3 DEF Others, L!Serving
<1>4. ASSUME Keeps(s), lease' = lease, Notes(FALSE) PROVE Hands'
  <2>1. ASSUME NEW o \in Schedulers PROVE Keeps(o)
    BY <1>3, <1>4
  <2>2. ASSUME NEW o \in Schedulers, L!Serving(o)', Robbed(o) PROVE Robbed(o)'
    <3>1. lease'.etag >= lease.etag BY <1>2, <1>4 DEF Numbers
    <3>2. term'[o].etag = term[o].etag /\ term'[o].lastOk = term[o].lastOk BY <2>1, <2>2
    <3> QED BY <1>2, <1>4, <2>2, <3>1, <3>2, RobbedStays
  <2>3. ASSUME NEW o \in Schedulers, L!Serving(o)', Kept(o) PROVE Kept(o)'
    BY <1>4, <2>1, <2>3 DEF Kept
  <2> QED BY <2>1, <2>2, <2>3 DEF LeaseInv, Hands
<1>5. ASSUME L!Serving(s), lease.etag = term[s].etag, Rewritten(s), Notes(FALSE), L!Serving(s)' => Kept(s)' PROVE Hands'
  <2>1. ~Robbed(s) BY <1>2, <1>5 DEF Robbed, Numbers
  <2>2. ASSUME NEW o \in Schedulers, o # s, L!Serving(o)' PROVE Robbed(o)'
    <3>1. Robbed(o) BY <1>3, <1>5, <2>1, <2>2 DEF LeaseInv, Hands
    <3>2. lease'.etag >= lease.etag BY <1>2, <1>5 DEF Rewritten, Numbers
    <3> QED BY <1>2, <1>3, <1>5, <2>2, <3>1, <3>2, RobbedStays
  <2> QED BY <1>5, <2>2 DEF Hands
<1>6. ASSUME Claimable(s), Rewritten(s), Notes(TRUE), L!Serving(s)' => Kept(s)' PROVE Hands'
  <2>1. ASSUME NEW o \in Schedulers, o # s, L!Serving(o)' PROVE Robbed(o)'
    BY <1>3, <1>6, <2>1, ClaimRobs
  <2> QED BY <1>6, <2>1 DEF Hands
<1>7. CASE Claims(s) \/ Looks(s) \/ Seizes(s) \/ Loses(s) \/ Rests(s) \/ Turns(s)
  <2>1. ~L!Serving(s)' /\ lease' = lease /\ Notes(FALSE)
    BY <1>7 DEF Claims, Looks, Seizes, Loses, Rests, Turns, Same, IsAsking, IsWaiting, L!Serving
  <2> QED BY <1>4, <2>1
<1>8. CASE Pulses(s)
  <2>1. L!Serving(s) /\ term'[s] = term[s] /\ lease' = lease /\ Notes(FALSE)
    BY <1>8 DEF Pulses, Same, IsAsking, L!Serving
  <2> QED BY <1>4, <2>1
<1>9. CASE Rises(s)
  <2>1. Kept(s)' BY <1>2, <1>9, WriteKeeps DEF Rises, IsLeading, Claimable, Numbers
  <2> QED BY <1>6, <1>9, <2>1 DEF Rises
<1>10. CASE Misses(s)
  <2>1. ~L!Serving(s)' BY <1>10 DEF Misses, IsWaiting, L!Serving
  <2> QED BY <1>6, <1>10, <2>1 DEF Misses
<1>11. CASE Extends(s)
  <2>1. Kept(s)' BY <1>2, <1>11, WriteKeeps DEF Extends, IsLeading, Numbers
  <2> QED BY <1>5, <1>11, <2>1 DEF Extends, L!Serving
<1>12. CASE Persists(s)
  <2>1. L!Serving(s) /\ term'[s].etag = term[s].etag /\ term'[s].lastOk = term[s].lastOk /\ Notes(FALSE)
    BY <1>12 DEF Persists, IsLeading, L!Serving
  <2>2. CASE lease' = lease BY <1>4, <2>1, <2>2
  <2>3. CASE lease.etag = term[s].etag /\ Rewritten(s)
    <3>1. term[s].lastOk <= time BY <2>1 DEF LeaseInv, Patience, Patient
    <3>2. Kept(s)' BY <1>12, <2>1, <2>3, <3>1, WriteKeeps DEF Persists
    <3> QED BY <1>5, <2>1, <2>3, <3>2
  <2> QED BY <1>12, <2>2, <2>3 DEF Persists
<1>13. CASE Yields(s)
  <2>1. L!Serving(s) /\ ~L!Serving(s)' /\ Notes(FALSE) BY <1>13 DEF Yields, IsWaiting, L!Serving
  <2>2. CASE lease' = lease BY <1>4, <2>1, <2>2
  <2>3. CASE lease.etag = term[s].etag /\ Rewritten(s) BY <1>5, <2>1, <2>3
  <2> QED BY <1>13, <2>2, <2>3 DEF Yields
<1> QED BY <1>1, <1>7, <1>8, <1>9, <1>10, <1>11, <1>12, <1>13 DEF Points

\* Without faults, the lease of whoever serves is in the future on every clock.
LEMMA ServedIsUnexpired ==
    ASSUME Timing, LeaseInv, faults = 0, Fits, NEW s \in Schedulers, L!Serving(s), NEW o \in Schedulers
    PROVE  lease.expires > time + Offset[o] /\ lease.etag >= 1
<1>1. Numbers BY TypedNumbers DEF LeaseInv
<1>2. Secure(s) /\ OnTime(s) /\ EtagsOf(s)
  BY DEF LeaseInv, Healthy, Timely, Etags
<1>3. Offset[o] <= Offset[s] + MaxSkew /\ Offset[s] \in Int /\ Offset[o] \in Int BY Constants
<1>4. lease.etag >= 1 BY <1>1, <1>2 DEF EtagsOf, Numbers
<1>5. CASE mode[s] = "serving"
  <2>1. time <= wake[s] /\ wake[s] - Heartbeat - MaxDelay + Offset[s] + LeaseDuration <= lease.expires
    BY <1>2, <1>5 DEF Secure, OnTime
  <2>2. time - Heartbeat - MaxDelay + Offset[s] + LeaseDuration <= lease.expires
    BY <1>1, <1>3, <2>1, Constants DEF Numbers
  <2> QED BY <1>1, <1>3, <1>4, <2>2, Constants DEF Fits, Numbers
<1>6. CASE mode[s] = "beating"
  <2>1. time <= req[s].due /\ req[s].due - Heartbeat - 2 * MaxDelay + Offset[s] + LeaseDuration <= lease.expires
    BY <1>2, <1>6 DEF Secure, OnTime, L!Requests
  <2>2. time - Heartbeat - 2 * MaxDelay + Offset[s] + LeaseDuration <= lease.expires
    BY <1>1, <1>3, <2>1, Constants DEF Numbers
  <2> QED BY <1>1, <1>3, <1>4, <2>2, Constants DEF Fits, Numbers
<1> QED BY <1>5, <1>6 DEF L!Serving

\* ... so nobody claims it, and nobody else serves.
LEMMA ServedIsAlone ==
    ASSUME Timing, LeaseInv, faults = 0, Fits, NEW s \in Schedulers, L!Serving(s), NEW o \in Schedulers
    PROVE  ~Claimable(o) /\ (L!Serving(o) => o = s)
<1>1. Numbers BY TypedNumbers DEF LeaseInv
<1>2. lease.expires > time + Offset[o] /\ lease.etag >= 1 BY ServedIsUnexpired
<1>3. Offset[o] \in Int BY Constants
<1>4. ~Claimable(o)
  BY <1>1, <1>2, <1>3 DEF Claimable, LeaseInv, Expired, SeenExpired, Numbers
<1>5. ASSUME L!Serving(o), o # s PROVE FALSE
  <2>1. Robbed(s) \/ Robbed(o) BY <1>5 DEF LeaseInv, Hands
  <2>2. term[s].etag = lease.etag /\ term[o].etag = lease.etag
    BY <1>5 DEF LeaseInv, Healthy, Secure
  <2> QED BY <1>1, <2>1, <2>2 DEF Robbed, Numbers
<1> QED BY <1>4, <1>5

LEMMA HealthyKept ==
    ASSUME Timing, LeaseInv, NEW s \in Schedulers, Move(s), time' = time, LeaseTypes'
    PROVE  Healthy'
<1>1. Others(s) /\ Points(s) BY MovePoints DEF LeaseInv
<1>2. Numbers /\ Numbers' BY TypedNumbers DEF LeaseInv
<1> SUFFICES ASSUME faults' = 0, Fits PROVE \A o \in Schedulers : Secure(o)'
  BY DEF Healthy, Fits
<1>3. faults' = faults \/ faults' = faults + 1
  BY <1>1 DEF Points, Claims, Looks, Seizes, Loses, Pulses, Rises, Misses, Rests, Extends, Persists, Yields,
     Turns, Same
<1>4. faults = 0 /\ faults' # faults + 1 BY <1>2, <1>3 DEF Numbers
<1>5. ASSUME NEW o \in Schedulers PROVE Secure(o) BY <1>4 DEF LeaseInv, Healthy
<1>6. ASSUME NEW o \in Schedulers, o # s, lease' = lease PROVE Secure(o)'
  BY <1>1, <1>5, <1>6 DEF Secure, Others, L!Serving
<1>7. ASSUME ~L!Serving(s)' PROVE Secure(s)'
  BY <1>7 DEF Secure, L!Serving
<1>8. ASSUME NEW o \in Schedulers, o # s, Rises(s) \/ Extends(s) PROVE Secure(o)'
  <2>1. ~L!Serving(o)
    <3>1. CASE Rises(s) BY <1>4, <3>1, ServedIsAlone DEF Rises
    <3>2. CASE Extends(s)
      <4>1. L!Serving(s) BY <3>2 DEF Extends, L!Serving
      <4> QED BY <1>4, <1>8, <4>1, ServedIsAlone
    <3> QED BY <1>8, <3>1, <3>2
  <2>2. ~L!Serving(o)' BY <1>1, <1>8, <2>1 DEF Others, L!Serving
  <2> QED BY <2>2 DEF Secure, L!Serving
<1>9. ASSUME Rises(s) \/ Extends(s) PROVE Secure(s)'
  <2>1. time <= req[s].due /\ req[s].expires = req[s].due - MaxDelay + Offset[s] + LeaseDuration
    BY <1>9 DEF Rises, Extends, Claimable, LeaseInv, Timely, OnTime, Stamped, FreshPayload, L!Requests
  <2>2. mode'[s] = "serving" /\ term'[s].etag = lease'.etag /\ lease'.expires = req[s].expires
    BY <1>9 DEF Rises, Extends, IsLeading, Rewritten
  <2>3. wake'[s] <= req[s].due + Heartbeat
    <3>1. CASE Rises(s) BY <1>2, <2>1, <3>1, Constants DEF Rises, IsLeading, Numbers
    <3>2. CASE Extends(s)
      <4>1. wake[s] = req[s].due - MaxDelay + Heartbeat BY <3>2 DEF Extends, LeaseInv, Timely, OnTime
      <4> QED BY <1>2, <3>2, <4>1, Constants DEF Extends, IsLeading, Numbers
    <3> QED BY <1>9, <3>1, <3>2
  <2> QED BY <1>2, <2>1, <2>2, <2>3, Constants DEF Secure, Numbers
<1>10. CASE Claims(s) \/ Looks(s) \/ Seizes(s) \/ Loses(s) \/ Rests(s) \/ Turns(s)
  <2>1. ~L!Serving(s)' /\ lease' = lease
    BY <1>10 DEF Claims, Looks, Seizes, Loses, Rests, Turns, Same, IsAsking, IsWaiting, L!Serving
  <2> QED BY <1>6, <1>7, <2>1
<1>11. CASE Pulses(s)
  <2>1. time <= wake[s] BY <1>11 DEF Pulses, LeaseInv, Timely, OnTime
  <2>2. /\ mode'[s] = "beating" /\ term'[s] = term[s] /\ lease' = lease /\ req'[s].due = time + MaxDelay
        /\ time >= wake[s] /\ mode[s] = "serving"
    BY <1>11 DEF Pulses, Same, IsAsking
  <2>3. term[s].etag = lease.etag /\ wake[s] - Heartbeat - MaxDelay + Offset[s] + LeaseDuration <= lease.expires
    BY <1>5, <2>2 DEF Secure, L!Serving
  <2>4. Secure(s)' BY <1>2, <2>1, <2>2, <2>3, Constants DEF Secure, Numbers
  <2> QED BY <1>6, <2>2, <2>4
<1>12. CASE Rises(s) \/ Extends(s) BY <1>8, <1>9, <1>12
<1>13. CASE Misses(s) \/ Persists(s) BY <1>4, <1>13 DEF Misses, Persists
<1>14. CASE Yields(s)
  <2>1. lease' = lease /\ ~L!Serving(s)' BY <1>4, <1>14 DEF Yields, IsWaiting, L!Serving
  <2> QED BY <1>6, <1>7, <2>1
<1> QED BY <1>1, <1>10, <1>11, <1>12, <1>13, <1>14 DEF Points

\* A vacancy that has only begun leaves everybody all the time it may take.
LEMMA JustVacant ==
    ASSUME Timing, Numbers', Timely', vacantSince' = time', NEW o \in Schedulers,
           lease'.expires <= time' + LeaseDuration + MaxSkew + Offset[o]
    PROVE  InTime(o)'
<1>1. Offset[o] \in Int BY Constants
<1>2. req'[o].due <= time' + MaxDelay /\ wake'[o] <= time' + Heartbeat BY DEF Timely, OnTime
<1>3. wake'[o] <= Limit' + MaxDelay /\ req'[o].due <= Limit' + 2 * MaxDelay /\ req'[o].due <= Limit' + 3 * MaxDelay
  BY <1>2, Constants DEF Limit, Numbers
<1>4. req'[o].due <= vacantSince' + MaxDelay /\ req'[o].due <= vacantSince' + 2 * MaxDelay
  BY <1>2, Constants DEF Numbers
<1>5. lease'.etag >= 1 => lease'.expires <= vacantSince' + LeaseDuration + MaxSkew + Offset[o]
  OBVIOUS
<1> QED BY <1>3, <1>4, <1>5 DEF InTime

\* Whoever does not move stays in time: a vacancy is only ever dated later.
LEMMA StaysInTime ==
    ASSUME Timing, Numbers, Numbers', NEW o \in Schedulers, InTime(o), vacantSince' >= vacantSince, lease' = lease,
           mode'[o] = mode[o], req'[o] = req[o], wake'[o] = wake[o]
    PROVE  InTime(o)'
<1>1. Limit' >= Limit /\ Limit \in Nat /\ Limit' \in Nat /\ Offset[o] \in Int BY Constants DEF Limit, Numbers
<1>2. lease'.etag >= 1 => lease'.expires <= vacantSince' + LeaseDuration + MaxSkew + Offset[o]
  BY <1>1, Constants DEF InTime, Numbers
<1>3. mode'[o] = "waiting" => wake'[o] <= Limit' + MaxDelay
  BY <1>1, Constants DEF InTime, Numbers
<1>4. mode'[o] = "creating" => req'[o].due <= Limit' + 2 * MaxDelay
  BY <1>1, Constants DEF InTime, Numbers
<1>5. mode'[o] = "reading" => req'[o].due <= Limit' + 3 * MaxDelay
  BY <1>1, Constants DEF InTime, Numbers
<1>6. mode'[o] = "stealing" => \/ req'[o].due <= vacantSince' + MaxDelay
                               \/ req'[o].stale = lease'.etag /\ req'[o].due <= Limit' + 4 * MaxDelay
  BY <1>1, Constants DEF InTime, Numbers
<1>7. mode'[o] = "rereading" => req'[o].due <= vacantSince' + 2 * MaxDelay
  BY <1>1, Constants DEF InTime, Numbers
<1> QED BY <1>2, <1>3, <1>4, <1>5, <1>6, <1>7 DEF InTime

LEMMA VacancyKept ==
    ASSUME Timing, LeaseInv, NEW s \in Schedulers, Move(s), time' = time, LeaseTypes', Timely'
    PROVE  Vacancy'
<1>1. Others(s) /\ Points(s) BY MovePoints DEF LeaseInv
<1>2. Numbers /\ Numbers' BY TypedNumbers DEF LeaseInv
<1>3. \E change \in BOOLEAN : Notes(change)
  BY <1>1 DEF Points, Claims, Looks, Seizes, Loses, Pulses, Rises, Misses, Rests, Extends, Persists, Yields,
     Turns, Same
<1>4. /\ vacantSince' = vacantSince \/ vacantSince' = time
      /\ (\E o \in Schedulers : L!Serving(o)') => vacantSince' = time
  BY <1>3 DEF Notes
<1>5. Filled' BY <1>4 DEF Filled
<1> SUFFICES ASSUME faults' = 0 PROVE \A o \in Schedulers : InTime(o)'
  BY <1>5 DEF Vacancy
<1>6. faults' = faults \/ faults' = faults + 1
  BY <1>1 DEF Points, Claims, Looks, Seizes, Loses, Pulses, Rises, Misses, Rests, Extends, Persists, Yields,
     Turns, Same
<1>7. faults = 0 /\ faults' # faults + 1 BY <1>2, <1>6 DEF Numbers
<1>8. ASSUME NEW o \in Schedulers PROVE InTime(o) BY <1>7 DEF LeaseInv, Vacancy
<1>9. vacantSince' >= vacantSince /\ Limit' >= Limit /\ Limit \in Nat /\ Limit' \in Nat
  BY <1>2, <1>4, Constants DEF Limit, Numbers
<1>10. ASSUME NEW o \in Schedulers PROVE Offset[o] \in Int /\ Offset[s] \in Int /\ Offset[s] <= Offset[o] + MaxSkew
  BY Constants
<1>11. ASSUME lease' = lease, NEW o \in Schedulers
       PROVE  lease'.etag >= 1 => lease'.expires <= vacantSince' + LeaseDuration + MaxSkew + Offset[o]
  <2>1. lease.etag >= 1 => lease.expires <= vacantSince + LeaseDuration + MaxSkew + Offset[o] BY <1>8 DEF InTime
  <2> QED BY <1>2, <1>9, <1>10, <1>11, <2>1, Constants DEF Numbers
<1>12. ASSUME lease' = lease, NEW o \in Schedulers, o # s PROVE InTime(o)'
  <2>1. mode'[o] = mode[o] /\ req'[o] = req[o] /\ wake'[o] = wake[o] BY <1>1, <1>12 DEF Others
  <2> QED BY <1>2, <1>8, <1>9, <1>12, <2>1, StaysInTime
<1>13. CASE Rises(s) \/ Extends(s)
  <2>1. L!Serving(s)' BY <1>13 DEF Rises, Extends, IsLeading, L!Serving
  <2>2. vacantSince' = time' BY <1>4, <2>1
  <2>3. lease'.expires = req[s].due - MaxDelay + Offset[s] + LeaseDuration
    BY <1>13 DEF Rises, Extends, Claimable, Rewritten, LeaseInv, Stamped, FreshPayload
  <2>4. req[s].due <= time + MaxDelay BY DEF LeaseInv, Timely, OnTime
  <2>5. ASSUME NEW o \in Schedulers PROVE lease'.expires <= time' + LeaseDuration + MaxSkew + Offset[o]
    BY <1>2, <1>10, <2>3, <2>4, Constants DEF Numbers
  <2> QED BY <1>2, <2>2, <2>5, JustVacant
<1>14. CASE Pulses(s) \/ Yields(s) \/ Turns(s)
  <2>1. lease' = lease BY <1>7, <1>14 DEF Pulses, Yields, Turns, Same
  <2>2. vacantSince' = time'
    <3>1. Turns(s) => vacantSince' = time BY DEF Turns
    <3>2. Pulses(s) \/ Yields(s) => L!Serving(s) BY DEF Pulses, Yields, L!Serving
    <3>3. L!Serving(s) => vacantSince = time BY DEF LeaseInv, Vacancy, Filled
    <3> QED BY <1>4, <1>14, <3>1, <3>2, <3>3
  <2>3. ASSUME NEW o \in Schedulers, lease'.etag >= 1 PROVE lease'.expires <= time' + LeaseDuration + MaxSkew + Offset[o]
    BY <1>11, <2>1, <2>2, <2>3
  <2>4. ASSUME NEW o \in Schedulers, lease'.etag = 0 PROVE InTime(o)'
    <3>1. CASE o # s BY <1>12, <2>1, <3>1
    <3>2. CASE o = s
      <4>1. mode'[s] \notin {"creating", "reading", "stealing", "rereading"}
        BY <1>14 DEF Pulses, Yields, Turns, IsAsking, IsWaiting
      <4>2. wake'[s] <= Limit' + MaxDelay
        BY <1>2, <2>2, Constants DEF Timely, OnTime, Limit, Numbers
      <4> QED BY <2>4, <3>2, <4>1, <4>2 DEF InTime
    <3> QED BY <3>1, <3>2
  <2>5. ASSUME NEW o \in Schedulers PROVE InTime(o)'
    <3>1. CASE lease'.etag = 0 BY <2>4, <3>1
    <3>2. CASE lease'.etag >= 1 BY <1>2, <2>2, <2>3, <3>2, JustVacant
    <3> QED BY <1>2, <3>1, <3>2 DEF Numbers
  <2> QED BY <2>5
<1>15. CASE Misses(s) \/ Persists(s) BY <1>7, <1>15 DEF Misses, Persists
<1>16. ASSUME lease' = lease, InTime(s)' PROVE \A o \in Schedulers : InTime(o)'
  BY <1>12, <1>16
<1>17. InTime(s) /\ OnTime(s) BY <1>8 DEF LeaseInv, Timely
<1>18. CASE Claims(s)
  <2>1. lease' = lease /\ mode'[s] = "creating" /\ req'[s].due = time + MaxDelay
    BY <1>18 DEF Claims, Same, IsAsking
  <2>2. time <= Limit + MaxDelay BY <1>2, <1>9, <1>17, <1>18, Constants DEF Claims, InTime, OnTime, Numbers
  <2>3. req'[s].due <= Limit' + 2 * MaxDelay BY <1>2, <1>9, <2>1, <2>2, Constants DEF Numbers
  <2> QED BY <1>11, <1>16, <2>1, <2>3 DEF InTime
<1>19. CASE Looks(s)
  <2>1. lease' = lease /\ mode'[s] = "reading" /\ req'[s].due = time + MaxDelay
    BY <1>19 DEF Looks, Same, IsAsking
  <2>2. time <= Limit + 2 * MaxDelay
    BY <1>2, <1>9, <1>17, <1>19, Constants DEF Looks, InTime, OnTime, Numbers, L!Requests
  <2>3. req'[s].due <= Limit' + 3 * MaxDelay BY <1>2, <1>9, <2>1, <2>2, Constants DEF Numbers
  <2> QED BY <1>11, <1>16, <2>1, <2>3 DEF InTime
<1>20. CASE Seizes(s)
  <2>1. lease' = lease /\ mode'[s] = "stealing" /\ req'[s].due = time + MaxDelay /\ req'[s].stale = lease.etag
    BY <1>20 DEF Seizes, Same, IsAsking
  <2>2. time <= Limit + 3 * MaxDelay
    BY <1>2, <1>9, <1>17, <1>20, Constants DEF Seizes, InTime, OnTime, Numbers, L!Requests
  <2>3. req'[s].due <= Limit' + 4 * MaxDelay BY <1>2, <1>9, <2>1, <2>2, Constants DEF Numbers
  <2> QED BY <1>11, <1>16, <2>1, <2>3 DEF InTime
<1>21. CASE Loses(s)
  <2>1. lease' = lease /\ mode'[s] = "rereading" /\ req'[s].due = time + MaxDelay
    BY <1>21 DEF Loses, Same, IsAsking
  <2>2. time <= vacantSince + MaxDelay
    BY <1>2, <1>17, <1>21, Constants DEF Loses, InTime, OnTime, Numbers, L!Requests
  <2>3. req'[s].due <= vacantSince' + 2 * MaxDelay BY <1>2, <1>9, <2>1, <2>2, Constants DEF Numbers
  <2> QED BY <1>11, <1>16, <2>1, <2>3 DEF InTime
<1>22. CASE Rests(s)
  <2>1. lease' = lease /\ mode'[s] = "waiting" /\ wake'[s] = time + Heartbeat BY <1>22 DEF Rests, IsWaiting
  <2>2. mode[s] = "rereading" \/ (mode[s] = "reading" /\ lease.expires > time + Offset[s])
    BY <1>7, <1>22 DEF Rests
  <2>3. time <= vacantSince + LeaseDuration + MaxSkew + MaxDelay
    <3>1. CASE mode[s] = "rereading"
      BY <1>2, <1>17, <3>1, Constants DEF InTime, OnTime, Numbers, L!Requests
    <3>2. CASE mode[s] = "reading" /\ lease.expires > time + Offset[s]
      <4>1. lease.etag >= 1 BY <3>2 DEF LeaseInv, Etags, EtagsOf
      <4>2. lease.expires <= vacantSince + LeaseDuration + MaxSkew + Offset[s] BY <1>17, <4>1 DEF InTime
      <4> QED BY <1>2, <1>10, <3>2, <4>2, Constants DEF Numbers
    <3> QED BY <2>2, <3>1, <3>2
  <2>4. wake'[s] <= Limit' + MaxDelay BY <1>2, <1>9, <2>1, <2>3, Constants DEF Limit, Numbers
  <2> QED BY <1>11, <1>16, <2>1, <2>4 DEF InTime
<1> QED BY <1>1, <1>13, <1>14, <1>15, <1>18, <1>19, <1>20, <1>21, <1>22 DEF Points

-----------------------------------------------------------------------------
(* The lease: the clock, and the theorems.                                 *)

LEMMA TickKeeps ==
    ASSUME Timing, LeaseInv, L!Tick
    PROVE  LeaseInv'
<1>1. /\ time < Horizon /\ time' = time + 1
      /\ lease' = lease /\ mode' = mode /\ req' = req /\ term' = term /\ wake' = wake
      /\ faults' = faults /\ exits' = exits /\ stolenAt' = stolenAt
      /\ vacantSince' = IF \E s \in Schedulers : L!Serving(s) THEN time' ELSE vacantSince
  BY DEF L!Tick
<1>2. LeaseTypes' BY <1>1, Constants DEF LeaseInv, LeaseTypes
<1>3. Numbers /\ Numbers' BY <1>2, TypedNumbers DEF LeaseInv
<1>4. ASSUME NEW s \in Schedulers
      PROVE  /\ mode[s] \in L!Requests => time < req[s].due
             /\ mode[s] \in {"waiting", "serving"} => time < wake[s]
  BY <1>3 DEF L!Tick, L!Overdue, Numbers
<1>5. Timely'
  <2>1. ASSUME NEW s \in Schedulers PROVE OnTime(s)'
    <3>1. OnTime(s) BY DEF LeaseInv, Timely
    <3> QED BY <1>1, <1>3, <1>4, <3>1, Constants DEF OnTime, Numbers
  <2> QED BY <2>1 DEF Timely
<1>6. Stamped' /\ Etags' BY <1>1 DEF LeaseInv, Stamped, FreshPayload, Etags, EtagsOf, L!Serving, L!NoLease
<1>7. Patience' BY <1>1, <1>3 DEF LeaseInv, Patience, Patient, L!Serving, Numbers
<1>8. Hands' BY <1>1 DEF LeaseInv, Hands, Robbed, Kept, L!Serving
<1>9. Expired'
  <2>1. ASSUME NEW s \in Schedulers PROVE SeenExpired(s)'
    BY <1>1, <1>3, Constants DEF LeaseInv, Expired, SeenExpired, Numbers
  <2> QED BY <2>1 DEF Expired
<1>10. Healthy' BY <1>1 DEF LeaseInv, Healthy, Fits, Secure, L!Serving
<1>11. Vacancy'
  <2>1. Filled' BY <1>1 DEF Filled, L!Serving
  <2>2. vacantSince' >= vacantSince BY <1>1, <1>3 DEF Numbers
  <2>3. ASSUME faults' = 0, NEW o \in Schedulers PROVE InTime(o)'
    <3>1. InTime(o) BY <1>1, <2>3 DEF LeaseInv, Vacancy
    <3> QED BY <1>1, <1>3, <2>2, <3>1, StaysInTime
  <2> QED BY <2>1, <2>3 DEF Vacancy
<1> QED BY <1>2, <1>5, <1>6, <1>7, <1>8, <1>9, <1>10, <1>11 DEF LeaseInv

LEMMA InitHolds ==
    ASSUME Timing, L!Init
    PROVE  LeaseInv
<1> USE Constants DEF L!Init, L!NoLease, L!NoRequest, L!NoTerm
<1>1. LeaseTypes
  <2>1. mode \in [Schedulers -> L!Modes] BY DEF L!Modes
  <2>2. req \in [Schedulers -> [due : Nat, expires : Int, stale : Nat]] OBVIOUS
  <2>3. term \in [Schedulers -> [etag : Nat, lastOk : Nat]] OBVIOUS
  <2>4. wake \in [Schedulers -> Nat] OBVIOUS
  <2> QED BY <2>1, <2>2, <2>3, <2>4 DEF LeaseTypes
<1>2. \A s \in Schedulers : mode[s] = "waiting" /\ req[s].due = 0 /\ wake[s] = 0 /\ ~L!Serving(s)
  BY DEF L!Serving
<1>3. Timely BY <1>2 DEF Timely, OnTime, L!Requests
<1>4. Stamped /\ Etags BY <1>2 DEF Stamped, FreshPayload, Etags, EtagsOf
<1>5. Patience /\ Hands /\ Expired BY <1>2 DEF Patience, Patient, Hands, Expired, SeenExpired
<1>6. Healthy BY <1>2 DEF Healthy, Secure
<1>7. Vacancy
  <2>1. Filled BY <1>2 DEF Filled
  <2>2. ASSUME NEW s \in Schedulers PROVE InTime(s)
    BY <1>2 DEF InTime, Limit
  <2> QED BY <2>1, <2>2 DEF Vacancy
<1> QED BY <1>1, <1>3, <1>4, <1>5, <1>6, <1>7 DEF LeaseInv

LEMMA StepKeeps ==
    ASSUME Timing, LeaseInv, NEW s \in Schedulers, L!Step(s)
    PROVE  LeaseInv'
<1>1. Move(s) /\ time' = time /\ exits' \in {exits, exits + 1} BY StepMoves DEF LeaseInv
<1>2. LeaseTypes' BY <1>1, MoveTypes DEF LeaseInv
<1>3. Timely' BY <1>1, <1>2, TimelyKept
<1>4. Stamped' BY <1>1, <1>2, StampedKept
<1>5. Etags' BY <1>1, <1>2, EtagsKept
<1>6. Patience' BY <1>1, <1>2, PatienceKept
<1>7. Hands' BY <1>1, <1>2, HandsKept
<1>8. Expired' BY <1>1, <1>2, ExpiredKept
<1>9. Healthy' BY <1>1, <1>2, HealthyKept
<1>10. Vacancy' BY <1>1, <1>2, <1>3, VacancyKept
<1> QED BY <1>2, <1>3, <1>4, <1>5, <1>6, <1>7, <1>8, <1>9, <1>10 DEF LeaseInv

\* The invariant of the lease holds in every state of every behaviour.
THEOREM LeaseInvariant == ASSUME Timing PROVE L!Spec => []LeaseInv
<1>1. L!Init => LeaseInv BY InitHolds
<1>2. LeaseInv /\ [L!Next]_(L!vars) => LeaseInv'
  <2>1. ASSUME LeaseInv, L!Next PROVE LeaseInv'
    BY <2>1, StepKeeps, TickKeeps DEF L!Next
  <2>2. ASSUME LeaseInv, UNCHANGED L!vars PROVE LeaseInv'
    BY <2>2 DEF L!vars, LeaseInv, LeaseTypes, Timely, OnTime, Stamped, FreshPayload, Etags, EtagsOf, L!NoLease,
       Patience, Patient, Hands, Robbed, Kept, Expired, SeenExpired, Healthy, Fits, Secure, Vacancy, Filled, InTime,
       Limit, L!Serving
  <2> QED BY <2>1, <2>2
<1> QED BY <1>1, <1>2, PTL DEF L!Spec

\* The types of ha.rs's state, with the timers of the loop: no sleep and no request
\* of a scheduler reaches further ahead than an interval, or a request, allows.
THEOREM LeaseTypeCorrect == ASSUME Timing PROVE L!Spec => []L!TypeOK
<1>1. LeaseInv => L!TypeOK
  <2> SUFFICES ASSUME LeaseInv PROVE L!TypeOK OBVIOUS
  <2>1. Numbers /\ LeaseTypes /\ Timely BY TypedNumbers DEF LeaseInv
  <2>2. ASSUME NEW s \in Schedulers
        PROVE  req[s] \in [due : 0 .. (time + MaxDelay), expires : Int, stale : Nat] /\ wake[s] \in 0 .. (time + Heartbeat)
    <3>1. req[s] \in [due : Nat, expires : Int, stale : Nat] BY <2>1 DEF LeaseTypes
    <3>2. req[s].due \in 0 .. (time + MaxDelay) /\ wake[s] \in 0 .. (time + Heartbeat)
      BY <2>1, Constants DEF Timely, OnTime, Numbers
    <3> QED BY <3>1, <3>2
  <2>3. req \in [Schedulers -> [due : 0 .. (time + MaxDelay), expires : Int, stale : Nat]]
    BY <2>1, <2>2 DEF LeaseTypes
  <2>4. wake \in [Schedulers -> 0 .. (time + Heartbeat)] BY <2>1, <2>2 DEF LeaseTypes
  <2>5. stolenAt \in Nat /\ vacantSince \in Nat BY <2>1 DEF Numbers
  <2> QED BY <2>1, <2>3, <2>4, <2>5 DEF LeaseTypes, L!TypeOK
<1> QED BY <1>1, LeaseInvariant, PTL

\* A leader whose requests are answered keeps its lease (the heartbeat loop of
\* run_scheduler_ha against try_claim of ha.rs): whatever the number of schedulers,
\* the skew of their clocks and the intervals, if two requests, a heartbeat interval
\* and the skew fit into a lease.
THEOREM LeaderKeepsLease == ASSUME Timing PROVE L!Spec => [](L!HealthyLeaderKeepsLease /\ HealthyLeaderKeepsLease)
<1>1. LeaseInv => L!HealthyLeaderKeepsLease
  BY DEF LeaseInv, Healthy, Fits, Secure, L!HealthyLeaderKeepsLease, L!Superseded
<1>2. LeaseInv => HealthyLeaderKeepsLease BY <1>1 DEF HealthyLeaderKeepsLease
<1> QED BY <1>1, <1>2, LeaseInvariant, PTL

\* Two schedulers serve at once for at most a heartbeat interval, two requests and
\* the skew, whatever fails; and without faults, nobody serves for at most a lease
\* and the time a claim takes.
THEOREM LeadershipIsBounded == ASSUME Timing PROVE L!Spec => [](L!LeadershipBounded /\ LeadershipBounded)
<1>1. ASSUME LeaseInv PROVE L!SplitBrainBounded
  <2>1. Numbers BY <1>1, TypedNumbers DEF LeaseInv
  <2>2. ASSUME NEW s \in Schedulers, L!Serving(s), Robbed(s)
        PROVE  time <= stolenAt + Heartbeat + 2 * MaxDelay + MaxSkew
    <3>1. OnTime(s) /\ Patient(s) BY <1>1 DEF LeaseInv, Timely, Patience
    <3>2. CASE mode[s] = "serving"
      BY <2>1, <2>2, <3>1, <3>2, Constants DEF OnTime, Patient, Robbed, Numbers
    <3>3. CASE mode[s] = "beating"
      BY <2>1, <2>2, <3>1, <3>3, Constants DEF OnTime, Patient, Robbed, Numbers, L!Requests
    <3> QED BY <2>2, <3>2, <3>3 DEF L!Serving
  <2> QED BY <1>1, <2>2 DEF LeaseInv, Hands, L!SplitBrainBounded
<1>2. ASSUME LeaseInv PROVE L!VacancyBounded
  <2> SUFFICES ASSUME faults = 0, NEW s \in Schedulers, L!Alive(s)
               PROVE  time <= vacantSince + LeaseDuration + MaxSkew + Heartbeat + 4 * MaxDelay
    BY DEF L!VacancyBounded
  <2>1. Numbers /\ OnTime(s) /\ InTime(s) BY <1>2, TypedNumbers DEF LeaseInv, Timely, Vacancy
  <2>2. CASE L!Serving(s)
    <3>1. vacantSince = time BY <1>2, <2>2 DEF LeaseInv, Vacancy, Filled
    <3> QED BY <2>1, <3>1, Constants DEF Numbers
  <2>3. CASE mode[s] = "waiting" BY <2>1, <2>3, Constants DEF OnTime, InTime, Limit, Numbers
  <2>4. CASE mode[s] = "creating" BY <2>1, <2>4, Constants DEF OnTime, InTime, Limit, Numbers, L!Requests
  <2>5. CASE mode[s] = "reading" BY <2>1, <2>5, Constants DEF OnTime, InTime, Limit, Numbers, L!Requests
  <2>6. CASE mode[s] = "stealing" BY <2>1, <2>6, Constants DEF OnTime, InTime, Limit, Numbers, L!Requests
  <2>7. CASE mode[s] = "rereading" BY <2>1, <2>7, Constants DEF OnTime, InTime, Limit, Numbers, L!Requests
  <2>8. mode[s] \in L!Modes \ {"down"} BY <2>1 DEF Numbers, L!Alive
  <2> QED BY <2>2, <2>3, <2>4, <2>5, <2>6, <2>7, <2>8 DEF L!Modes, L!Requests, L!Serving
<1>3. LeaseInv => L!LeadershipBounded BY <1>1, <1>2 DEF L!LeadershipBounded
<1>4. LeaseInv => LeadershipBounded BY <1>3 DEF LeadershipBounded
<1> QED BY <1>3, <1>4, LeaseInvariant, PTL

-----------------------------------------------------------------------------
(* The admission: what the invariant says.                                 *)

AdmissionTypes ==
    /\ pc \in [Conns -> A!Phases] /\ ip \in [Conns -> Ips] /\ user \in [Conns -> Users]
    /\ free \in Int /\ gauge \in Int /\ perIp \in [Ips -> Int] /\ perUser \in [Users -> Int]

\* Of however many attempts there will be, finitely many have come.
Begun == A!Phases \ {"idle"}
FinitelyMany == IsFiniteSet(A!In(Begun))

\* The parts of NoSlotLeaks: each counter is the number of connections that hold it.
From(i) == {c \in Conns : ip[c] = i}
As(u) == {c \in Conns : user[c] = u}
Held(K, S) == {c \in K : pc[c] \in S}
GlobalCounted == "global" \in enabled => free + Cardinality(Held(Conns, A!HoldsGlobal)) = GlobalMax
IpCounted ==
    "ip" \in enabled => \A i \in Ips : perIp[i] = Cardinality(Held(From(i), A!HoldsIp)) /\ perIp[i] <= IpMax
UserCounted ==
    "identity" \in enabled => \A u \in Users :
        perUser[u] = Cardinality(Held(As(u), A!HoldsIdentity)) /\ perUser[u] <= UserMax
GaugeCounted == gauge = Cardinality(Held(Conns, A!HoldsGauge))
SessionsListed == sessions = Held(Conns, A!HoldsSession) /\ named \subseteq sessions

AdmissionInv ==
    /\ AdmissionTypes /\ FinitelyMany
    /\ GlobalCounted /\ IpCounted /\ UserCounted /\ GaugeCounted /\ SessionsListed

\* The instance counts as this module does.
LEMMA SameCardinality == ASSUME NEW S PROVE A!Cardinality(S) = Cardinality(S)
BY Zenon DEF A!Cardinality, Cardinality

LEMMA CountedIsNoSlotLeaks ==
    ASSUME GlobalCounted, IpCounted, UserCounted, GaugeCounted, SessionsListed
    PROVE  A!NoSlotLeaks
<1>1. ASSUME NEW S PROVE A!In(S) = Held(Conns, S) BY DEF A!In, Held
<1>2. ASSUME NEW i \in Ips PROVE {c \in A!In(A!HoldsIp) : ip[c] = i} = Held(From(i), A!HoldsIp)
  BY DEF A!In, Held, From
<1>3. ASSUME NEW u \in Users PROVE {c \in A!In(A!HoldsIdentity) : user[c] = u} = Held(As(u), A!HoldsIdentity)
  BY DEF A!In, Held, As
<1>4. A!ViewsAgree BY <1>1, SameCardinality DEF A!ViewsAgree, GaugeCounted, SessionsListed
<1>5. "global" \in enabled => free + Cardinality(A!In(A!HoldsGlobal)) = GlobalMax BY <1>1 DEF GlobalCounted
<1>6. "ip" \in enabled => \A i \in Ips :
         perIp[i] = Cardinality({c \in A!In(A!HoldsIp) : ip[c] = i}) /\ perIp[i] <= IpMax
  BY <1>2 DEF IpCounted
<1>7. "identity" \in enabled => \A u \in Users :
         perUser[u] = Cardinality({c \in A!In(A!HoldsIdentity) : user[c] = u}) /\ perUser[u] <= UserMax
  BY <1>3 DEF UserCounted
<1> QED BY <1>4, <1>5, <1>6, <1>7, SameCardinality DEF A!NoSlotLeaks

-----------------------------------------------------------------------------
(* The admission: one connection goes from one phase to the next.          *)

Goes(c, p, q) == pc[c] = p /\ pc' = [pc EXCEPT ![c] = q] /\ enabled' = enabled /\ ip' = ip /\ user' = user

\* The count of a reservation changes by one when a connection enters, or leaves, the
\* phases that hold it.
LEMMA Recount ==
    ASSUME AdmissionTypes, FinitelyMany, NEW c \in Conns, NEW p \in A!Phases, NEW q \in A!Phases, Goes(c, p, q),
           NEW K, K \subseteq Conns, NEW S, S \subseteq Begun
    PROVE  LET old == Held(K, S)
               new == Held(K, S)'
           IN  /\ (c \in K => (p \in S <=> q \in S)) => new = old
               /\ c \in K /\ p \notin S /\ q \in S =>
                     new = old \cup {c} /\ Cardinality(new) = Cardinality(old) + 1
               /\ c \in K /\ p \in S /\ q \notin S =>
                     new = old \ {c} /\ Cardinality(new) = Cardinality(old) - 1
               /\ Cardinality(old) \in Nat
<1>1. IsFiniteSet(Held(K, S)) /\ Cardinality(Held(K, S)) \in Nat
  <2>1. Held(K, S) \in SUBSET A!In(Begun) BY DEF Held, A!In
  <2> QED BY <2>1, FS_Subset, FS_CardinalityType DEF FinitelyMany
<1>2. pc'[c] = q /\ \A d \in Conns : d # c => pc'[d] = pc[d] BY DEF Goes, AdmissionTypes
<1>3. Held(K, S)' = {d \in K : pc'[d] \in S} BY DEF Held
<1>4. ASSUME c \in K => (p \in S <=> q \in S) PROVE Held(K, S)' = Held(K, S)
  BY <1>2, <1>3, <1>4 DEF Held, Goes
<1>5. ASSUME c \in K, p \notin S, q \in S
      PROVE  Held(K, S)' = Held(K, S) \cup {c} /\ Cardinality(Held(K, S)') = Cardinality(Held(K, S)) + 1
  <2>1. Held(K, S)' = Held(K, S) \cup {c} /\ c \notin Held(K, S) BY <1>2, <1>3, <1>5 DEF Held, Goes
  <2>2. Cardinality(Held(K, S) \cup {c}) = Cardinality(Held(K, S)) + 1 BY <1>1, <2>1, FS_AddElement
  <2> QED BY <2>1, <2>2
<1>6. ASSUME c \in K, p \in S, q \notin S
      PROVE  Held(K, S)' = Held(K, S) \ {c} /\ Cardinality(Held(K, S)') = Cardinality(Held(K, S)) - 1
  <2>1. Held(K, S)' = Held(K, S) \ {c} /\ c \in Held(K, S) BY <1>2, <1>3, <1>6 DEF Held, Goes
  <2>2. Cardinality(Held(K, S) \ {c}) = Cardinality(Held(K, S)) - 1 BY <1>1, <2>1, FS_RemoveElement
  <2> QED BY <2>1, <2>2
<1> QED BY <1>1, <1>4, <1>5, <1>6

\* A reservation that a connection neither takes nor gives back stays counted.
Crosses(p, q, S) == ~(p \in S <=> q \in S)
LEMMA Uncrossed ==
    ASSUME AdmissionInv, NEW c \in Conns, NEW p \in A!Phases, NEW q \in Begun, Goes(c, p, q)
    PROVE  /\ pc' \in [Conns -> A!Phases] /\ ip' \in [Conns -> Ips] /\ user' \in [Conns -> Users] /\ FinitelyMany'
           /\ ~Crosses(p, q, A!HoldsGlobal) /\ free' = free => GlobalCounted'
           /\ ~Crosses(p, q, A!HoldsIp) /\ perIp' = perIp => IpCounted'
           /\ ~Crosses(p, q, A!HoldsIdentity) /\ perUser' = perUser => UserCounted'
           /\ ~Crosses(p, q, A!HoldsGauge) /\ gauge' = gauge => GaugeCounted'
           /\ ~Crosses(p, q, A!HoldsSession) /\ sessions' = sessions /\ named' \subseteq sessions => SessionsListed'
<1>1. AdmissionTypes /\ FinitelyMany /\ q \in A!Phases BY DEF AdmissionInv, Begun
<1>2. A!HoldsGlobal \subseteq Begun /\ A!HoldsIp \subseteq Begun /\ A!HoldsIdentity \subseteq Begun
  BY DEF A!HoldsGlobal, A!HoldsIp, A!HoldsIdentity, Begun, A!Phases
<1>3. A!HoldsGauge \subseteq Begun /\ A!HoldsSession \subseteq Begun
  BY DEF A!HoldsGauge, A!HoldsSession, Begun, A!Phases
<1>4. ASSUME NEW S, S \subseteq Begun, ~Crosses(p, q, S), NEW K, K \subseteq Conns PROVE Held(K, S)' = Held(K, S)
  BY <1>1, <1>4, Recount DEF Crosses
<1>5. pc' \in [Conns -> A!Phases] /\ ip' \in [Conns -> Ips] /\ user' \in [Conns -> Users]
  BY <1>1 DEF Goes, AdmissionTypes
<1>6. FinitelyMany'
  <2>1. A!In(Begun)' = A!In(Begun) \cup {c} BY <1>1 DEF A!In, Goes, AdmissionTypes
  <2>2. IsFiniteSet(A!In(Begun) \cup {c}) BY <1>1, FS_AddElement DEF FinitelyMany
  <2> QED BY <2>1, <2>2 DEF FinitelyMany
<1>7. ~Crosses(p, q, A!HoldsGlobal) /\ free' = free => GlobalCounted'
  BY <1>2, <1>4 DEF AdmissionInv, GlobalCounted, Goes
<1>8. ~Crosses(p, q, A!HoldsGauge) /\ gauge' = gauge => GaugeCounted'
  BY <1>3, <1>4 DEF AdmissionInv, GaugeCounted
<1>9. ~Crosses(p, q, A!HoldsSession) /\ sessions' = sessions /\ named' \subseteq sessions => SessionsListed'
  BY <1>3, <1>4 DEF AdmissionInv, SessionsListed
<1>10. ~Crosses(p, q, A!HoldsIp) /\ perIp' = perIp => IpCounted'
  <2>1. ASSUME NEW i \in Ips, ~Crosses(p, q, A!HoldsIp) PROVE Held(From(i), A!HoldsIp)' = Held(From(i), A!HoldsIp)
    <3>1. From(i) \subseteq Conns /\ From(i)' = From(i) BY DEF From, Goes
    <3>2. Held(From(i), A!HoldsIp)' = {d \in From(i) : pc'[d] \in A!HoldsIp} BY <3>1 DEF Held
    <3>3. PICK K : K = From(i) OBVIOUS
    <3>4. Held(K, A!HoldsIp)' = Held(K, A!HoldsIp) BY <1>2, <1>4, <2>1, <3>1, <3>3
    <3> QED BY <3>2, <3>3, <3>4 DEF Held
  <2> QED BY <2>1 DEF AdmissionInv, IpCounted, Goes
<1>11. ~Crosses(p, q, A!HoldsIdentity) /\ perUser' = perUser => UserCounted'
  <2>1. ASSUME NEW u \in Users, ~Crosses(p, q, A!HoldsIdentity)
        PROVE  Held(As(u), A!HoldsIdentity)' = Held(As(u), A!HoldsIdentity)
    <3>1. As(u) \subseteq Conns /\ As(u)' = As(u) BY DEF As, Goes
    <3>2. Held(As(u), A!HoldsIdentity)' = {d \in As(u) : pc'[d] \in A!HoldsIdentity} BY <3>1 DEF Held
    <3>3. PICK K : K = As(u) OBVIOUS
    <3>4. Held(K, A!HoldsIdentity)' = Held(K, A!HoldsIdentity) BY <1>2, <1>4, <2>1, <3>1, <3>3
    <3> QED BY <3>2, <3>3, <3>4 DEF Held
  <2> QED BY <2>1 DEF AdmissionInv, UserCounted, Goes
<1> QED BY <1>5, <1>6, <1>7, <1>8, <1>9, <1>10, <1>11

Tally(V, f, count, S, max) ==
    \A v \in V : count[v] = Cardinality(Held({x \in Conns : f[x] = v}, S)) /\ count[v] <= max
Crossing(V, f, old, new, S, max, c, p, q, d) ==
    /\ f \in [Conns -> V] /\ old \in [V -> Int] /\ max \in Nat /\ S \subseteq Begun
    /\ c \in Conns /\ p \in A!Phases /\ q \in A!Phases /\ d \in {1, -1}
    /\ new = [old EXCEPT ![f[c]] = old[f[c]] + d]
    /\ (d = 1 /\ p \notin S /\ q \in S /\ old[f[c]] < max) \/ (d = -1 /\ p \in S /\ q \notin S)

\* A connection that takes, or gives back, its reservation under the key f has for it
\* moves the count of that key and of no other.
LEMMA Crossed ==
    ASSUME AdmissionTypes, FinitelyMany, NEW V, NEW f, NEW old, NEW new, NEW S, NEW max, NEW c, NEW p, NEW q, NEW d,
           Crossing(V, f, old, new, S, max, c, p, q, d), Goes(c, p, q), Tally(V, f, old, S, max)
    PROVE  new \in [V -> Int] /\ Tally(V, f, new, S, max)'
<1> USE DEF Crossing
<1>1. d \in Int /\ f[c] \in V /\ new \in [V -> Int] OBVIOUS
<1>2. ASSUME NEW v \in V PROVE new[v] = Cardinality(Held({x \in Conns : f[x] = v}, S)') /\ new[v] <= max
  <2> DEFINE K == {x \in Conns : f[x] = v}
  <2>1. K \subseteq Conns /\ (c \in K <=> f[c] = v) OBVIOUS
  <2>2. old[v] = Cardinality(Held(K, S)) /\ old[v] <= max /\ old[v] \in Int BY DEF Tally
  <2> HIDE DEF K
  <2>3. Cardinality(Held(K, S)) \in Nat BY <2>1, Recount
  <2>4. CASE f[c] # v
    <3>1. new[v] = old[v] BY <1>1, <2>4
    <3>2. Held(K, S)' = Held(K, S) BY <2>1, <2>4, Recount
    <3> QED BY <2>2, <3>1, <3>2 DEF K
  <2>5. CASE f[c] = v
    <3>1. new[v] = old[v] + d BY <1>1, <2>5
    <3>2. CASE d = 1 /\ p \notin S /\ q \in S /\ old[f[c]] < max
      <4>1. Cardinality(Held(K, S)') = Cardinality(Held(K, S)) + 1 BY <2>1, <2>5, <3>2, Recount
      <4> QED BY <2>2, <2>3, <2>5, <3>1, <3>2, <4>1 DEF K
    <3>3. CASE d = -1 /\ p \in S /\ q \notin S
      <4>1. Cardinality(Held(K, S)') = Cardinality(Held(K, S)) - 1 BY <2>1, <2>5, <3>3, Recount
      <4> QED BY <2>2, <2>3, <3>1, <3>3, <4>1 DEF K
    <3> QED BY <3>2, <3>3
  <2> QED BY <2>4, <2>5
<1> QED BY <1>1, <1>2 DEF Tally

LEMMA IpCrossed ==
    ASSUME AdmissionInv, IpMax \in Nat, NEW c \in Conns, NEW p \in A!Phases, NEW q \in A!Phases, Goes(c, p, q),
           "ip" \in enabled, NEW d \in {1, -1}, perIp' = [perIp EXCEPT ![ip[c]] = perIp[ip[c]] + d],
           \/ d = 1 /\ p \notin A!HoldsIp /\ q \in A!HoldsIp /\ perIp[ip[c]] < IpMax
           \/ d = -1 /\ p \in A!HoldsIp /\ q \notin A!HoldsIp
    PROVE  IpCounted' /\ perIp' \in [Ips -> Int]
<1>1. AdmissionTypes /\ FinitelyMany BY DEF AdmissionInv
<1>2. A!HoldsIp \subseteq Begun BY DEF A!HoldsGlobal, A!HoldsIp, Begun, A!Phases
<1>3. PICK f \in [Conns -> Ips], old \in [Ips -> Int], new \in {perIp'} : f = ip /\ old = perIp /\ new = perIp'
  BY <1>1 DEF AdmissionTypes
<1>4. Tally(Ips, f, old, A!HoldsIp, IpMax) BY <1>3 DEF AdmissionInv, IpCounted, From, Tally
<1>5. Crossing(Ips, f, old, new, A!HoldsIp, IpMax, c, p, q, d) BY <1>2, <1>3 DEF Crossing
<1>6. new \in [Ips -> Int] /\ Tally(Ips, f, new, A!HoldsIp, IpMax)' BY <1>1, <1>4, <1>5, Crossed
<1> QED BY <1>3, <1>6 DEF IpCounted, From, Goes, Held, Tally

LEMMA UserCrossed ==
    ASSUME AdmissionInv, UserMax \in Nat, NEW c \in Conns, NEW p \in A!Phases, NEW q \in A!Phases, Goes(c, p, q),
           "identity" \in enabled, NEW d \in {1, -1}, perUser' = [perUser EXCEPT ![user[c]] = perUser[user[c]] + d],
           \/ d = 1 /\ p \notin A!HoldsIdentity /\ q \in A!HoldsIdentity /\ perUser[user[c]] < UserMax
           \/ d = -1 /\ p \in A!HoldsIdentity /\ q \notin A!HoldsIdentity
    PROVE  UserCounted' /\ perUser' \in [Users -> Int]
<1>1. AdmissionTypes /\ FinitelyMany BY DEF AdmissionInv
<1>2. A!HoldsIdentity \subseteq Begun BY DEF A!HoldsIdentity, Begun, A!Phases
<1>3. PICK f \in [Conns -> Users], old \in [Users -> Int], new \in {perUser'} : f = user /\ old = perUser /\ new = perUser'
  BY <1>1 DEF AdmissionTypes
<1>4. Tally(Users, f, old, A!HoldsIdentity, UserMax) BY <1>3 DEF AdmissionInv, UserCounted, As, Tally
<1>5. Crossing(Users, f, old, new, A!HoldsIdentity, UserMax, c, p, q, d) BY <1>2, <1>3 DEF Crossing
<1>6. new \in [Users -> Int] /\ Tally(Users, f, new, A!HoldsIdentity, UserMax)' BY <1>1, <1>4, <1>5, Crossed
<1> QED BY <1>3, <1>6 DEF UserCounted, As, Goes, Held, Tally

LEMMA GlobalCrossed ==
    ASSUME AdmissionInv, NEW c \in Conns, NEW p \in A!Phases, NEW q \in A!Phases, Goes(c, p, q), GlobalMax \in Nat,
           \/ p \notin A!HoldsGlobal /\ q \in A!HoldsGlobal /\ free' = free - 1
           \/ p \in A!HoldsGlobal /\ q \notin A!HoldsGlobal /\ free' = free + 1
    PROVE  GlobalCounted' /\ free' \in Int
<1>1. AdmissionTypes /\ FinitelyMany /\ free \in Int BY DEF AdmissionInv, AdmissionTypes
<1>2. A!HoldsGlobal \subseteq Begun BY DEF A!HoldsGlobal, Begun, A!Phases
<1>3. /\ Cardinality(Held(Conns, A!HoldsGlobal)) \in Nat
      /\ p \notin A!HoldsGlobal /\ q \in A!HoldsGlobal =>
            Cardinality(Held(Conns, A!HoldsGlobal)') = Cardinality(Held(Conns, A!HoldsGlobal)) + 1
      /\ p \in A!HoldsGlobal /\ q \notin A!HoldsGlobal =>
            Cardinality(Held(Conns, A!HoldsGlobal)') = Cardinality(Held(Conns, A!HoldsGlobal)) - 1
  BY <1>1, <1>2, Recount
<1>4. "global" \in enabled => free + Cardinality(Held(Conns, A!HoldsGlobal)) = GlobalMax
  BY DEF AdmissionInv, GlobalCounted
<1> QED BY <1>1, <1>3, <1>4 DEF GlobalCounted, Goes

LEMMA GaugeCrossed ==
    ASSUME AdmissionInv, NEW c \in Conns, NEW p \in A!Phases, NEW q \in A!Phases, Goes(c, p, q),
           \/ p \notin A!HoldsGauge /\ q \in A!HoldsGauge /\ gauge' = gauge + 1
           \/ p \in A!HoldsGauge /\ q \notin A!HoldsGauge /\ gauge' = gauge - 1
    PROVE  GaugeCounted' /\ gauge' \in Int
<1>1. AdmissionTypes /\ FinitelyMany /\ gauge \in Int BY DEF AdmissionInv, AdmissionTypes
<1>2. A!HoldsGauge \subseteq Begun BY DEF A!HoldsGauge, A!HoldsSession, Begun, A!Phases
<1>3. /\ Cardinality(Held(Conns, A!HoldsGauge)) \in Nat
      /\ p \notin A!HoldsGauge /\ q \in A!HoldsGauge =>
            Cardinality(Held(Conns, A!HoldsGauge)') = Cardinality(Held(Conns, A!HoldsGauge)) + 1
      /\ p \in A!HoldsGauge /\ q \notin A!HoldsGauge =>
            Cardinality(Held(Conns, A!HoldsGauge)') = Cardinality(Held(Conns, A!HoldsGauge)) - 1
  BY <1>1, <1>2, Recount
<1> QED BY <1>1, <1>3 DEF AdmissionInv, GaugeCounted

LEMMA SessionCrossed ==
    ASSUME AdmissionInv, NEW c \in Conns, NEW p \in A!Phases, NEW q \in A!Phases, Goes(c, p, q),
           \/ /\ p \notin A!HoldsSession /\ q \in A!HoldsSession
              /\ sessions' = sessions \cup {c} /\ named' = named
           \/ /\ p \in A!HoldsSession /\ q \notin A!HoldsSession
              /\ sessions' = sessions \ {c} /\ named' = named \ {c}
    PROVE  SessionsListed'
<1>1. AdmissionTypes /\ FinitelyMany BY DEF AdmissionInv
<1>2. A!HoldsSession \subseteq Begun BY DEF A!HoldsSession, Begun, A!Phases
<1>3. /\ p \notin A!HoldsSession /\ q \in A!HoldsSession =>
            Held(Conns, A!HoldsSession)' = Held(Conns, A!HoldsSession) \cup {c}
      /\ p \in A!HoldsSession /\ q \notin A!HoldsSession =>
            Held(Conns, A!HoldsSession)' = Held(Conns, A!HoldsSession) \ {c}
  BY <1>1, <1>2, Recount
<1> QED BY <1>1, <1>3 DEF AdmissionInv, SessionsListed

\* A step that takes and gives back nothing.
Idles(c, p, q) ==
    /\ Goes(c, p, q) /\ p \in A!Phases /\ q \in Begun
    /\ free' = free /\ perIp' = perIp /\ perUser' = perUser /\ gauge' = gauge /\ sessions' = sessions
    /\ named' \subseteq sessions
    /\ ~Crosses(p, q, A!HoldsGlobal) /\ ~Crosses(p, q, A!HoldsIp) /\ ~Crosses(p, q, A!HoldsIdentity)
    /\ ~Crosses(p, q, A!HoldsGauge) /\ ~Crosses(p, q, A!HoldsSession)
LEMMA IdlingKeeps ==
    ASSUME AdmissionInv, NEW c \in Conns, NEW p, NEW q, Idles(c, p, q)
    PROVE  AdmissionInv'
<1>1. /\ pc' \in [Conns -> A!Phases] /\ ip' \in [Conns -> Ips] /\ user' \in [Conns -> Users] /\ FinitelyMany'
      /\ GlobalCounted' /\ IpCounted' /\ UserCounted' /\ GaugeCounted' /\ SessionsListed'
  BY Uncrossed DEF Idles
<1>2. AdmissionTypes' BY <1>1 DEF AdmissionInv, AdmissionTypes, Idles
<1> QED BY <1>1, <1>2 DEF AdmissionInv

LEMMA AdmissionStepKeeps ==
    ASSUME A!AdmissionBounds, AdmissionInv, NEW c \in Conns,
           \/ A!Accept(c) \/ A!RateCheck(c) \/ A!TakeGlobal(c) \/ A!TakeIp(c) \/ A!GaugeUp(c)
           \/ A!Register(c) \/ A!Identify(c) \/ A!SetIdentity(c) \/ A!Unwind(c) \/ A!DropIdentity(c)
           \/ A!DropSession(c) \/ A!DropGauge(c) \/ A!DropIp(c) \/ A!DropGlobal(c)
    PROVE  AdmissionInv'
<1> USE DEF A!At, A!Goto, A!limits, A!views, A!given, A!history
<1>1. GlobalMax \in Nat /\ IpMax \in Nat /\ UserMax \in Nat BY DEF A!AdmissionBounds
<1>2. /\ AdmissionTypes /\ SessionsListed /\ named \subseteq sessions
      /\ free \in Int /\ gauge \in Int /\ perIp \in [Ips -> Int] /\ perUser \in [Users -> Int]
      /\ ip[c] \in Ips /\ user[c] \in Users
  BY DEF AdmissionInv, AdmissionTypes, SessionsListed
<1>3. CASE A!Accept(c)
  <2>1. Idles(c, "idle", "arrived")
    BY <1>2, <1>3 DEF A!Accept, Idles, Goes, Crosses, Begun, A!Phases, A!HoldsGlobal, A!HoldsIp,
       A!HoldsIdentity,
       A!HoldsGauge, A!HoldsSession
  <2> QED BY <2>1, IdlingKeeps
<1>4. CASE A!RateCheck(c)
  <2>1. Idles(c, "arrived", "rated") \/ Idles(c, "arrived", "done")
    BY <1>2, <1>4 DEF A!RateCheck, Idles, Goes, Crosses, Begun, A!Phases, A!HoldsGlobal, A!HoldsIp,
       A!HoldsIdentity,
       A!HoldsGauge, A!HoldsSession
  <2> QED BY <2>1, IdlingKeeps
<1>5. CASE A!SetIdentity(c)
  <2>1. c \in sessions
    BY <1>2, <1>5 DEF A!SetIdentity, SessionsListed, Held, A!HoldsSession
  <2>2. Idles(c, "identified", "open")
    BY <1>2, <1>5, <2>1 DEF A!SetIdentity, Idles, Goes, Crosses, Begun, A!Phases, A!HoldsGlobal, A!HoldsIp,
       A!HoldsIdentity, A!HoldsGauge, A!HoldsSession
  <2> QED BY <2>2, IdlingKeeps
<1>6. CASE A!Unwind(c)
  <2>1. \/ Idles(c, "identified", "dropIdentity") \/ Idles(c, "open", "dropIdentity")
        \/ Idles(c, "registered", "dropSession")
    BY <1>2, <1>6 DEF A!Unwind, Idles, Goes, Crosses, Begun, A!Phases, A!HoldsGlobal, A!HoldsIp,
       A!HoldsIdentity,
       A!HoldsGauge, A!HoldsSession
  <2> QED BY <2>1, IdlingKeeps
<1>7. CASE A!TakeGlobal(c)
  <2>1. CASE "global" \in enabled /\ free = 0
    <3>1. Idles(c, "rated", "done")
      BY <1>2, <1>7, <2>1 DEF A!TakeGlobal, Idles, Goes, Crosses, Begun, A!Phases, A!HoldsGlobal, A!HoldsIp,
         A!HoldsIdentity, A!HoldsGauge, A!HoldsSession
    <3> QED BY <3>1, IdlingKeeps
  <2>2. CASE ~("global" \in enabled /\ free = 0)
    <3>1. /\ Goes(c, "rated", "slotted") /\ perIp' = perIp /\ perUser' = perUser /\ gauge' = gauge
          /\ sessions' = sessions /\ named' = named
          /\ free' = free - 1 \/ ("global" \notin enabled /\ free' = free)
      BY <1>7, <2>2 DEF A!TakeGlobal, Goes
    <3>2. /\ "rated" \in A!Phases /\ "slotted" \in Begun /\ "slotted" \in A!Phases
          /\ "rated" \notin A!HoldsGlobal /\ "slotted" \in A!HoldsGlobal
          /\ ~Crosses("rated", "slotted", A!HoldsIp) /\ ~Crosses("rated", "slotted", A!HoldsIdentity)
          /\ ~Crosses("rated", "slotted", A!HoldsGauge) /\ ~Crosses("rated", "slotted", A!HoldsSession)
      BY DEF Crosses, Begun, A!Phases, A!HoldsGlobal, A!HoldsIp, A!HoldsIdentity, A!HoldsGauge, A!HoldsSession
    <3>3. GlobalCounted' /\ free' \in Int
      <4>1. CASE free' = free - 1 BY <1>1, <3>1, <3>2, <4>1, GlobalCrossed
      <4>2. CASE "global" \notin enabled /\ free' = free BY <1>2, <3>1, <4>2 DEF GlobalCounted, Goes
      <4> QED BY <3>1, <4>1, <4>2
    <3>4. /\ pc' \in [Conns -> A!Phases] /\ ip' \in [Conns -> Ips] /\ user' \in [Conns -> Users] /\ FinitelyMany'
          /\ IpCounted' /\ UserCounted' /\ GaugeCounted' /\ SessionsListed'
      BY <1>2, <3>1, <3>2, Uncrossed
    <3> QED BY <1>2, <3>1, <3>3, <3>4 DEF AdmissionInv, AdmissionTypes
  <2> QED BY <2>1, <2>2
<1>8. CASE A!TakeIp(c)
  <2>1. CASE "ip" \in enabled /\ A!Full(perIp[ip[c]], IpMax)
    <3>1. Idles(c, "slotted", "overIp")
      BY <1>2, <1>8, <2>1 DEF A!TakeIp, A!AfterIpRefusal, Idles, Goes, Crosses, Begun, A!Phases, A!HoldsGlobal,
         A!HoldsIp, A!HoldsIdentity, A!HoldsGauge, A!HoldsSession
    <3> QED BY <3>1, IdlingKeeps
  <2>2. CASE ~("ip" \in enabled /\ A!Full(perIp[ip[c]], IpMax))
    <3>1. /\ Goes(c, "slotted", "admitted") /\ free' = free /\ perUser' = perUser /\ gauge' = gauge
          /\ sessions' = sessions /\ named' = named
      BY <1>8, <2>2 DEF A!TakeIp, Goes
    <3>2. /\ "slotted" \in A!Phases /\ "admitted" \in Begun /\ "admitted" \in A!Phases
          /\ "slotted" \notin A!HoldsIp /\ "admitted" \in A!HoldsIp
          /\ ~Crosses("slotted", "admitted", A!HoldsGlobal) /\ ~Crosses("slotted", "admitted", A!HoldsIdentity)
          /\ ~Crosses("slotted", "admitted", A!HoldsGauge) /\ ~Crosses("slotted", "admitted", A!HoldsSession)
      BY DEF Crosses, Begun, A!Phases, A!HoldsGlobal, A!HoldsIp, A!HoldsIdentity, A!HoldsGauge, A!HoldsSession
    <3>3. IpCounted' /\ perIp' \in [Ips -> Int]
      <4>1. CASE "ip" \notin enabled
        BY <1>2, <1>8, <3>1, <4>1 DEF A!TakeIp, IpCounted, Goes
      <4>2. CASE "ip" \in enabled
        <5>1. perIp' = [perIp EXCEPT ![ip[c]] = perIp[ip[c]] + 1] BY <1>2, <1>8, <2>2, <4>2 DEF A!TakeIp
        <5>2. perIp[ip[c]] < IpMax BY <1>1, <1>2, <2>2, <4>2 DEF A!Full
        <5>3. 1 \in {1, -1} OBVIOUS
        <5> QED BY <1>1, <3>1, <3>2, <4>2, <5>1, <5>2, <5>3, IpCrossed
      <4> QED BY <4>1, <4>2
    <3>4. /\ pc' \in [Conns -> A!Phases] /\ ip' \in [Conns -> Ips] /\ user' \in [Conns -> Users] /\ FinitelyMany'
          /\ GlobalCounted' /\ UserCounted' /\ GaugeCounted' /\ SessionsListed'
      BY <1>2, <3>1, <3>2, Uncrossed
    <3> QED BY <1>2, <3>1, <3>3, <3>4 DEF AdmissionInv, AdmissionTypes
  <2> QED BY <2>1, <2>2
<1>9. CASE A!GaugeUp(c)
  <2>1. /\ Goes(c, "admitted", "gauged") /\ gauge' = gauge + 1 /\ free' = free /\ perIp' = perIp
        /\ perUser' = perUser /\ sessions' = sessions /\ named' = named
    BY <1>9 DEF A!GaugeUp, Goes
  <2>2. /\ "admitted" \in A!Phases /\ "gauged" \in Begun /\ "gauged" \in A!Phases
        /\ "admitted" \notin A!HoldsGauge /\ "gauged" \in A!HoldsGauge
        /\ ~Crosses("admitted", "gauged", A!HoldsGlobal) /\ ~Crosses("admitted", "gauged", A!HoldsIp)
        /\ ~Crosses("admitted", "gauged", A!HoldsIdentity) /\ ~Crosses("admitted", "gauged", A!HoldsSession)
    BY DEF Crosses, Begun, A!Phases, A!HoldsGlobal, A!HoldsIp, A!HoldsIdentity, A!HoldsGauge, A!HoldsSession
  <2>3. GaugeCounted' /\ gauge' \in Int BY <2>1, <2>2, GaugeCrossed
  <2>4. /\ pc' \in [Conns -> A!Phases] /\ ip' \in [Conns -> Ips] /\ user' \in [Conns -> Users] /\ FinitelyMany'
        /\ GlobalCounted' /\ IpCounted' /\ UserCounted' /\ SessionsListed'
    BY <1>2, <2>1, <2>2, Uncrossed
  <2> QED BY <1>2, <2>1, <2>3, <2>4 DEF AdmissionInv, AdmissionTypes
<1>10. CASE A!Register(c)
  <2>1. /\ Goes(c, "gauged", "registered") /\ sessions' = sessions \cup {c} /\ named' = named /\ free' = free
        /\ perIp' = perIp /\ perUser' = perUser /\ gauge' = gauge
    BY <1>10 DEF A!Register, Goes
  <2>2. /\ "gauged" \in A!Phases /\ "registered" \in Begun /\ "registered" \in A!Phases
        /\ "gauged" \notin A!HoldsSession /\ "registered" \in A!HoldsSession
        /\ ~Crosses("gauged", "registered", A!HoldsGlobal) /\ ~Crosses("gauged", "registered", A!HoldsIp)
        /\ ~Crosses("gauged", "registered", A!HoldsIdentity) /\ ~Crosses("gauged", "registered", A!HoldsGauge)
    BY DEF Crosses, Begun, A!Phases, A!HoldsGlobal, A!HoldsIp, A!HoldsIdentity, A!HoldsGauge, A!HoldsSession
  <2>3. SessionsListed' BY <2>1, <2>2, SessionCrossed
  <2>4. /\ pc' \in [Conns -> A!Phases] /\ ip' \in [Conns -> Ips] /\ user' \in [Conns -> Users] /\ FinitelyMany'
        /\ GlobalCounted' /\ IpCounted' /\ UserCounted' /\ GaugeCounted'
    BY <2>1, <2>2, Uncrossed
  <2> QED BY <1>2, <2>1, <2>3, <2>4 DEF AdmissionInv, AdmissionTypes
<1>11. CASE A!Identify(c)
  <2>1. CASE "identity" \in enabled /\ A!Full(perUser[user[c]], UserMax)
    <3>1. Idles(c, "registered", "dropSession")
      BY <1>2, <1>11, <2>1 DEF A!Identify, Idles, Goes, Crosses, Begun, A!Phases, A!HoldsGlobal, A!HoldsIp,
         A!HoldsIdentity, A!HoldsGauge, A!HoldsSession
    <3> QED BY <3>1, IdlingKeeps
  <2>2. CASE ~("identity" \in enabled /\ A!Full(perUser[user[c]], UserMax))
    <3>1. /\ Goes(c, "registered", "identified") /\ free' = free /\ perIp' = perIp /\ gauge' = gauge
          /\ sessions' = sessions /\ named' = named
      BY <1>11, <2>2 DEF A!Identify, Goes
    <3>2. /\ "registered" \in A!Phases /\ "identified" \in Begun /\ "identified" \in A!Phases
          /\ "registered" \notin A!HoldsIdentity /\ "identified" \in A!HoldsIdentity
          /\ ~Crosses("registered", "identified", A!HoldsGlobal) /\ ~Crosses("registered", "identified", A!HoldsIp)
          /\ ~Crosses("registered", "identified", A!HoldsGauge) /\ ~Crosses("registered", "identified", A!HoldsSession)
      BY DEF Crosses, Begun, A!Phases, A!HoldsGlobal, A!HoldsIp, A!HoldsIdentity, A!HoldsGauge, A!HoldsSession
    <3>3. UserCounted' /\ perUser' \in [Users -> Int]
      <4>1. CASE "identity" \notin enabled
        BY <1>2, <1>11, <3>1, <4>1 DEF A!Identify, UserCounted, Goes
      <4>2. CASE "identity" \in enabled
        <5>1. perUser' = [perUser EXCEPT ![user[c]] = perUser[user[c]] + 1]
          BY <1>2, <1>11, <2>2, <4>2 DEF A!Identify
        <5>2. perUser[user[c]] < UserMax BY <1>1, <1>2, <2>2, <4>2 DEF A!Full
        <5>3. 1 \in {1, -1} OBVIOUS
        <5> QED BY <1>1, <3>1, <3>2, <4>2, <5>1, <5>2, <5>3, UserCrossed
      <4> QED BY <4>1, <4>2
    <3>4. /\ pc' \in [Conns -> A!Phases] /\ ip' \in [Conns -> Ips] /\ user' \in [Conns -> Users] /\ FinitelyMany'
          /\ GlobalCounted' /\ IpCounted' /\ GaugeCounted' /\ SessionsListed'
      BY <1>2, <3>1, <3>2, Uncrossed
    <3> QED BY <1>2, <3>1, <3>3, <3>4 DEF AdmissionInv, AdmissionTypes
  <2> QED BY <2>1, <2>2
<1>12. CASE A!DropIdentity(c)
  <2>1. /\ Goes(c, "dropIdentity", "dropSession") /\ free' = free /\ perIp' = perIp /\ gauge' = gauge
        /\ sessions' = sessions /\ named' = named
    BY <1>12 DEF A!DropIdentity, Goes
  <2>2. /\ "dropIdentity" \in A!Phases /\ "dropSession" \in Begun /\ "dropSession" \in A!Phases
        /\ "dropIdentity" \in A!HoldsIdentity /\ "dropSession" \notin A!HoldsIdentity
        /\ ~Crosses("dropIdentity", "dropSession", A!HoldsGlobal) /\ ~Crosses("dropIdentity", "dropSession", A!HoldsIp)
        /\ ~Crosses("dropIdentity", "dropSession", A!HoldsGauge)
        /\ ~Crosses("dropIdentity", "dropSession", A!HoldsSession)
    BY DEF Crosses, Begun, A!Phases, A!HoldsGlobal, A!HoldsIp, A!HoldsIdentity, A!HoldsGauge, A!HoldsSession
  <2>3. UserCounted' /\ perUser' \in [Users -> Int]
    <3>1. CASE "identity" \notin enabled BY <1>2, <1>12, <2>1, <3>1 DEF A!DropIdentity, UserCounted, Goes
    <3>2. CASE "identity" \in enabled
      <4>1. perUser' = [perUser EXCEPT ![user[c]] = perUser[user[c]] + (-1)]
        BY <1>2, <1>12, <3>2 DEF A!DropIdentity
      <4>2. -1 \in {1, -1} OBVIOUS
      <4> QED BY <1>1, <2>1, <2>2, <3>2, <4>1, <4>2, UserCrossed
    <3> QED BY <3>1, <3>2
  <2>4. /\ pc' \in [Conns -> A!Phases] /\ ip' \in [Conns -> Ips] /\ user' \in [Conns -> Users] /\ FinitelyMany'
        /\ GlobalCounted' /\ IpCounted' /\ GaugeCounted' /\ SessionsListed'
    BY <1>2, <2>1, <2>2, Uncrossed
  <2> QED BY <1>2, <2>1, <2>3, <2>4 DEF AdmissionInv, AdmissionTypes
<1>13. CASE A!DropSession(c)
  <2>1. /\ Goes(c, "dropSession", "dropGauge") /\ sessions' = sessions \ {c} /\ named' = named \ {c} /\ free' = free
        /\ perIp' = perIp /\ perUser' = perUser /\ gauge' = gauge
    BY <1>13 DEF A!DropSession, A!Deregistered, Goes
  <2>2. /\ "dropSession" \in A!Phases /\ "dropGauge" \in Begun /\ "dropGauge" \in A!Phases
        /\ "dropSession" \in A!HoldsSession /\ "dropGauge" \notin A!HoldsSession
        /\ ~Crosses("dropSession", "dropGauge", A!HoldsGlobal) /\ ~Crosses("dropSession", "dropGauge", A!HoldsIp)
        /\ ~Crosses("dropSession", "dropGauge", A!HoldsIdentity) /\ ~Crosses("dropSession", "dropGauge", A!HoldsGauge)
    BY DEF Crosses, Begun, A!Phases, A!HoldsGlobal, A!HoldsIp, A!HoldsIdentity, A!HoldsGauge, A!HoldsSession
  <2>3. SessionsListed' BY <2>1, <2>2, SessionCrossed
  <2>4. /\ pc' \in [Conns -> A!Phases] /\ ip' \in [Conns -> Ips] /\ user' \in [Conns -> Users] /\ FinitelyMany'
        /\ GlobalCounted' /\ IpCounted' /\ UserCounted' /\ GaugeCounted'
    BY <2>1, <2>2, Uncrossed
  <2> QED BY <1>2, <2>1, <2>3, <2>4 DEF AdmissionInv, AdmissionTypes
<1>14. CASE A!DropGauge(c)
  <2>1. /\ Goes(c, "dropGauge", "dropIp") /\ gauge' = gauge - 1 /\ free' = free /\ perIp' = perIp
        /\ perUser' = perUser /\ sessions' = sessions /\ named' = named
    BY <1>14 DEF A!DropGauge, Goes
  <2>2. /\ "dropGauge" \in A!Phases /\ "dropIp" \in Begun /\ "dropIp" \in A!Phases
        /\ "dropGauge" \in A!HoldsGauge /\ "dropIp" \notin A!HoldsGauge
        /\ ~Crosses("dropGauge", "dropIp", A!HoldsGlobal) /\ ~Crosses("dropGauge", "dropIp", A!HoldsIp)
        /\ ~Crosses("dropGauge", "dropIp", A!HoldsIdentity) /\ ~Crosses("dropGauge", "dropIp", A!HoldsSession)
    BY DEF Crosses, Begun, A!Phases, A!HoldsGlobal, A!HoldsIp, A!HoldsIdentity, A!HoldsGauge, A!HoldsSession
  <2>3. GaugeCounted' /\ gauge' \in Int BY <2>1, <2>2, GaugeCrossed
  <2>4. /\ pc' \in [Conns -> A!Phases] /\ ip' \in [Conns -> Ips] /\ user' \in [Conns -> Users] /\ FinitelyMany'
        /\ GlobalCounted' /\ IpCounted' /\ UserCounted' /\ SessionsListed'
    BY <1>2, <2>1, <2>2, Uncrossed
  <2> QED BY <1>2, <2>1, <2>3, <2>4 DEF AdmissionInv, AdmissionTypes
<1>15. CASE A!DropIp(c)
  <2>1. /\ Goes(c, "dropIp", "dropGlobal") /\ free' = free /\ perUser' = perUser /\ gauge' = gauge
        /\ sessions' = sessions /\ named' = named
    BY <1>15 DEF A!DropIp, Goes
  <2>2. /\ "dropIp" \in A!Phases /\ "dropGlobal" \in Begun /\ "dropGlobal" \in A!Phases
        /\ "dropIp" \in A!HoldsIp /\ "dropGlobal" \notin A!HoldsIp
        /\ ~Crosses("dropIp", "dropGlobal", A!HoldsGlobal) /\ ~Crosses("dropIp", "dropGlobal", A!HoldsIdentity)
        /\ ~Crosses("dropIp", "dropGlobal", A!HoldsGauge) /\ ~Crosses("dropIp", "dropGlobal", A!HoldsSession)
    BY DEF Crosses, Begun, A!Phases, A!HoldsGlobal, A!HoldsIp, A!HoldsIdentity, A!HoldsGauge, A!HoldsSession
  <2>3. IpCounted' /\ perIp' \in [Ips -> Int]
    <3>1. CASE "ip" \notin enabled BY <1>2, <1>15, <2>1, <3>1 DEF A!DropIp, IpCounted, Goes
    <3>2. CASE "ip" \in enabled
      <4>1. perIp' = [perIp EXCEPT ![ip[c]] = perIp[ip[c]] + (-1)] BY <1>2, <1>15, <3>2 DEF A!DropIp
      <4>2. -1 \in {1, -1} OBVIOUS
      <4> QED BY <1>1, <2>1, <2>2, <3>2, <4>1, <4>2, IpCrossed
    <3> QED BY <3>1, <3>2
  <2>4. /\ pc' \in [Conns -> A!Phases] /\ ip' \in [Conns -> Ips] /\ user' \in [Conns -> Users] /\ FinitelyMany'
        /\ GlobalCounted' /\ UserCounted' /\ GaugeCounted' /\ SessionsListed'
    BY <1>2, <2>1, <2>2, Uncrossed
  <2> QED BY <1>2, <2>1, <2>3, <2>4 DEF AdmissionInv, AdmissionTypes
<1>16. CASE A!DropGlobal(c)
  <2>1. PICK p \in {"dropGlobal", "overIp"} : Goes(c, p, "done")
    BY <1>16 DEF A!DropGlobal, Goes
  <2>2. /\ perIp' = perIp /\ perUser' = perUser /\ gauge' = gauge /\ sessions' = sessions /\ named' = named
        /\ free' = free + 1 \/ ("global" \notin enabled /\ free' = free)
    BY <1>16 DEF A!DropGlobal
  <2>3. /\ p \in A!Phases /\ "done" \in Begun /\ "done" \in A!Phases
        /\ p \in A!HoldsGlobal /\ "done" \notin A!HoldsGlobal
        /\ ~Crosses(p, "done", A!HoldsIp) /\ ~Crosses(p, "done", A!HoldsIdentity)
        /\ ~Crosses(p, "done", A!HoldsGauge) /\ ~Crosses(p, "done", A!HoldsSession)
    BY <2>1 DEF Crosses, Begun, A!Phases, A!HoldsGlobal, A!HoldsIp, A!HoldsIdentity, A!HoldsGauge,
       A!HoldsSession
  <2>4. GlobalCounted' /\ free' \in Int
    <3>1. CASE free' = free + 1 BY <1>1, <2>1, <2>3, <3>1, GlobalCrossed
    <3>2. CASE "global" \notin enabled /\ free' = free BY <1>2, <2>1, <3>2 DEF GlobalCounted, Goes
    <3> QED BY <2>2, <3>1, <3>2
  <2>5. /\ pc' \in [Conns -> A!Phases] /\ ip' \in [Conns -> Ips] /\ user' \in [Conns -> Users] /\ FinitelyMany'
        /\ IpCounted' /\ UserCounted' /\ GaugeCounted' /\ SessionsListed'
    BY <1>2, <2>1, <2>2, <2>3, Uncrossed
  <2> QED BY <1>2, <2>2, <2>4, <2>5 DEF AdmissionInv, AdmissionTypes
<1> QED BY <1>3, <1>4, <1>5, <1>6, <1>7, <1>8, <1>9, <1>10, <1>11, <1>12, <1>13, <1>14, <1>15, <1>16

LEMMA AdmissionInitHolds ==
    ASSUME A!AdmissionBounds, A!Init
    PROVE  AdmissionInv
<1>1. GlobalMax \in Nat /\ IpMax \in Nat /\ UserMax \in Nat BY DEF A!AdmissionBounds
<1>2. PICK a \in Arrivals : ip = a.ip /\ user = a.user BY DEF A!Init
<1>3. ip \in [Conns -> Ips] /\ user \in [Conns -> Users] BY <1>2 DEF A!AdmissionBounds
<1>4. AdmissionTypes BY <1>1, <1>3 DEF A!Init, AdmissionTypes, A!Phases
<1>5. A!In(Begun) = {} BY DEF A!Init, A!In, Begun
<1>6. FinitelyMany BY <1>5, FS_EmptySet DEF FinitelyMany
<1>7. ASSUME NEW K, K \subseteq Conns, NEW S, "idle" \notin S PROVE Held(K, S) = {}
  BY <1>7 DEF A!Init, Held
<1>8. /\ Held(Conns, A!HoldsGlobal) = {} /\ Held(Conns, A!HoldsGauge) = {} /\ Held(Conns, A!HoldsSession) = {}
      /\ \A i \in Ips : Held(From(i), A!HoldsIp) = {}
      /\ \A u \in Users : Held(As(u), A!HoldsIdentity) = {}
  BY <1>7 DEF A!HoldsGlobal, A!HoldsGauge, A!HoldsSession, A!HoldsIp, A!HoldsIdentity, From, As
<1>9. GlobalCounted /\ GaugeCounted /\ SessionsListed
  BY <1>1, <1>8, FS_EmptySet DEF A!Init, GlobalCounted, GaugeCounted, SessionsListed
<1>10. IpCounted BY <1>1, <1>8, FS_EmptySet DEF A!Init, IpCounted
<1>11. UserCounted BY <1>1, <1>8, FS_EmptySet DEF A!Init, UserCounted
<1> QED BY <1>4, <1>6, <1>9, <1>10, <1>11 DEF AdmissionInv

LEMMA AdmissionNextKeeps ==
    ASSUME A!AdmissionBounds, AdmissionInv, A!Next \/ UNCHANGED A!vars
    PROVE  AdmissionInv'
<1> DEFINE Counters == <<pc, ip, user, enabled, free, gauge, perIp, perUser, sessions, named>>
<1>1. ASSUME AdmissionInv, Counters' = Counters PROVE AdmissionInv'
  <2>1. /\ pc' = pc /\ ip' = ip /\ user' = user /\ enabled' = enabled /\ free' = free /\ gauge' = gauge
        /\ perIp' = perIp /\ perUser' = perUser /\ sessions' = sessions /\ named' = named
    BY <1>1
  <2>2. AdmissionTypes' /\ FinitelyMany' BY <1>1, <2>1 DEF AdmissionInv, AdmissionTypes, FinitelyMany, A!In
  <2>3. GlobalCounted' /\ GaugeCounted' /\ SessionsListed'
    BY <1>1, <2>1 DEF AdmissionInv, GlobalCounted, GaugeCounted, SessionsListed, Held
  <2>4. IpCounted' BY <1>1, <2>1 DEF AdmissionInv, IpCounted, From, Held
  <2>5. UserCounted' BY <1>1, <2>1 DEF AdmissionInv, UserCounted, As, Held
  <2> QED BY <2>2, <2>3, <2>4, <2>5 DEF AdmissionInv
<1>2. ASSUME AdmissionInv, A!Next PROVE AdmissionInv'
  <2>1. CASE A!Tick
    <3>1. Counters' = Counters BY <2>1 DEF A!Tick, A!limits, A!views, A!given
    <3> QED BY <1>1, <1>2, <3>1
  <2>2. CASE ~A!Tick
    <3>1. PICK c \in Conns :
            \/ A!Accept(c) \/ A!RateCheck(c) \/ A!TakeGlobal(c) \/ A!TakeIp(c) \/ A!GaugeUp(c)
            \/ A!Register(c) \/ A!Identify(c) \/ A!SetIdentity(c) \/ A!Unwind(c) \/ A!DropIdentity(c)
            \/ A!DropSession(c) \/ A!DropGauge(c) \/ A!DropIp(c) \/ A!DropGlobal(c)
      BY <1>2, <2>2 DEF A!Next
    <3> QED BY <1>2, <3>1, AdmissionStepKeeps
  <2> QED BY <2>1, <2>2
<1>3. ASSUME AdmissionInv, UNCHANGED A!vars PROVE AdmissionInv'
  <2>1. Counters' = Counters BY <1>3 DEF A!vars, A!limits, A!views, A!given
  <2> QED BY <1>1, <1>3, <2>1
<1> QED BY <1>2, <1>3

\* The accept path of rate_limit.rs, the gauge and the session registry, for any
\* number of connections, addresses, users and ceilings: every reservation is held by
\* exactly one live connection, whatever was refused and wherever its task ended.
THEOREM SlotsNeverLeak == ASSUME A!AdmissionBounds PROVE A!Spec => [](A!NoSlotLeaks /\ NoSlotLeaks)
<1>1. A!Init => AdmissionInv BY AdmissionInitHolds
<1>2. AdmissionInv /\ [A!Next]_(A!vars) => AdmissionInv' BY AdmissionNextKeeps
<1>3. AdmissionInv => A!NoSlotLeaks BY CountedIsNoSlotLeaks DEF AdmissionInv
<1>4. AdmissionInv => NoSlotLeaks BY <1>3 DEF NoSlotLeaks
<1> QED BY <1>1, <1>2, <1>3, <1>4, PTL DEF A!Spec

-----------------------------------------------------------------------------
(* The admission: the token bucket.                                        *)

RateTypes ==
    /\ pc \in [Conns -> A!Phases] /\ ip \in [Conns -> Ips]
    /\ clock \in Nat /\ stamp \in [Conns -> Nat] /\ bucket \in [Ips -> [tokens : Nat, last : Nat]]
    /\ passed \subseteq Conns \X Nat /\ IsFiniteSet(passed)

\* An attempt passes the bucket once.
Once == \A c \in Conns : pc[c] \in {"idle", "arrived"} => \A x \in passed : x[1] # c

\* The attempts of address i that passed with a clock reading from s to t.
Passes(i, s, t) == {x \in passed : ip[x[1]] = i /\ x[2] \in s .. t}
Allowance(s, t) == RateCap * Minute + RateCap * (t - s)

\* The bucket is at the latest reading; its tokens are what the passes since any
\* time have left of the allowance; and no interval ever exceeded its allowance.
Behind(i) == \A x \in passed : ip[x[1]] = i => x[2] <= bucket[i].last
Left(i) ==
    /\ bucket[i].tokens <= RateCap * Minute
    /\ \A s \in 0 .. bucket[i].last :
          Minute * Cardinality(Passes(i, s, bucket[i].last)) + bucket[i].tokens <= Allowance(s, bucket[i].last)
Paid(i) == \A s, t \in Nat : s <= t => Minute * Cardinality(Passes(i, s, t)) <= Allowance(s, t)

RateInv ==
    /\ RateTypes /\ Once
    /\ "rate" \in enabled /\ ~rewound => \A i \in Ips : Behind(i) /\ Left(i) /\ Paid(i)

\* Arithmetic the provers need spelled out.
LEMMA Spread == ASSUME NEW k \in Int, NEW a \in Int, NEW b \in Int, NEW d \in Int PROVE k * (d - a) = k * (b - a) + k * (d - b)
OBVIOUS

LEMMA Grows == ASSUME NEW k \in Nat, NEW a \in Int, NEW b \in Int, a <= b PROVE k * a <= k * b
<1>1. PICK d \in Nat : b = a + d
  <2>1. b - a \in Nat /\ b = a + (b - a) OBVIOUS
  <2> QED BY <2>1
<1>2. k * b = k * a + k * d BY <1>1
<1>3. k * d \in Nat OBVIOUS
<1> QED BY <1>2, <1>3

LEMMA Divides ==
    ASSUME NEW m \in Nat \ {0}, NEW k \in Nat, NEW r \in Nat, NEW x \in Nat, m * k <= r * m + x
    PROVE  k <= r + (x \div m)
<1>1. PICK d \in Nat : d = x \div m /\ x < m * (d + 1)
  BY m > 0
<1> SUFFICES ASSUME k > r + d PROVE FALSE BY <1>1
<1>2. r + d + 1 <= k BY <1>1
<1>3. m * (r + d + 1) <= m * k BY <1>1, <1>2, Grows
<1>4. m * (r + d + 1) = r * m + m * (d + 1) BY <1>1
<1> QED BY <1>1, <1>3, <1>4

LEMMA Smaller ==
    ASSUME NEW a \in Nat, NEW b \in Nat
    PROVE  A!Min({a, b}) \in Nat /\ A!Min({a, b}) <= a /\ A!Min({a, b}) <= b
<1>1. \E x \in {a, b} : \A y \in {a, b} : x =< y
  <2>1. CASE a <= b BY <2>1
  <2>2. CASE b <= a BY <2>2
  <2> QED BY <2>1, <2>2
<1>2. A!Min({a, b}) \in {a, b} /\ \A y \in {a, b} : A!Min({a, b}) =< y
  BY <1>1 DEF A!Min
<1> QED BY <1>2

Bounds == RateCap \in Nat \ {0} /\ Minute \in Nat \ {0}

\* A refill adds no more than the time gone by, and never beyond the burst.
LEMMA RefillBounded ==
    ASSUME Bounds, NEW b \in [tokens : Nat, last : Nat], NEW t \in Nat, t >= b.last
    PROVE  /\ A!Refill(b, t) \in Nat /\ A!Refill(b, t) <= RateCap * Minute
           /\ A!Refill(b, t) <= b.tokens + RateCap * (t - b.last)
<1>1. PICK e \in Nat : e = t - b.last BY b.last \in Nat
<1>2. (IF t > b.last THEN t - b.last ELSE 0) = e BY <1>1
<1>3. A!Refill(b, t) = A!Min({b.tokens + e * RateCap, RateCap * Minute}) BY <1>2 DEF A!Refill
<1>4. b.tokens + e * RateCap \in Nat /\ RateCap * Minute \in Nat BY <1>1 DEF Bounds
<1>5. e * RateCap = RateCap * (t - b.last) BY <1>1 DEF Bounds
<1> QED BY <1>3, <1>4, <1>5, Smaller

LEMMA PassesCounted ==
    ASSUME RateTypes, NEW i, NEW s, NEW t
    PROVE  IsFiniteSet(Passes(i, s, t)) /\ Cardinality(Passes(i, s, t)) \in Nat
<1>1. Passes(i, s, t) \in SUBSET passed BY DEF Passes
<1> QED BY <1>1, FS_Subset, FS_CardinalityType DEF RateTypes

\* Nobody passed later than the bucket's reading.
LEMMA NoneLater ==
    ASSUME RateTypes, NEW i \in Ips, Behind(i), NEW s \in Nat, NEW t \in Nat, t >= bucket[i].last
    PROVE  /\ Passes(i, s, t) = Passes(i, s, bucket[i].last)
           /\ s > bucket[i].last => Passes(i, s, t) = {}
<1>1. bucket[i].last \in Nat BY DEF RateTypes
<1>2. \A x \in passed : x[2] \in Nat BY DEF RateTypes
<1> QED BY <1>1, <1>2 DEF Behind, Passes

\* The allowance grows with the time as a full bucket does.
LEMMA CreditGrows ==
    ASSUME Bounds, RateTypes, NEW i \in Ips, Behind(i), Left(i), NEW t \in Nat, t >= bucket[i].last,
           NEW r \in Nat, r <= RateCap * Minute, r <= bucket[i].tokens + RateCap * (t - bucket[i].last), NEW s \in 0 .. t
    PROVE  Minute * Cardinality(Passes(i, s, t)) + r <= Allowance(s, t)
<1>1. PICK last \in Nat : last = bucket[i].last BY DEF RateTypes
<1>2. PICK n \in Nat : n = Cardinality(Passes(i, s, t)) BY PassesCounted
<1>3. s \in Nat /\ s <= t /\ bucket[i].tokens \in Nat /\ RateCap * Minute \in Nat BY DEF RateTypes, Bounds
<1>4. CASE s <= last
  <2>1. n = Cardinality(Passes(i, s, last)) BY <1>1, <1>2, <1>3, NoneLater
  <2>2. Minute * n + bucket[i].tokens <= RateCap * Minute + RateCap * (last - s)
    BY <1>1, <1>3, <1>4, <2>1 DEF Left, Allowance
  <2>3. RateCap * (t - s) = RateCap * (last - s) + RateCap * (t - last)
    <3>1. RateCap \in Int /\ s \in Int /\ last \in Int /\ t \in Int BY <1>1, <1>3 DEF Bounds
    <3> QED BY <3>1, Spread
  <2>4. Minute * n \in Nat /\ RateCap * (last - s) \in Int /\ RateCap * (t - last) \in Int
    BY <1>1, <1>2, <1>3 DEF Bounds
  <2> QED BY <1>1, <1>2, <1>3, <2>2, <2>3, <2>4 DEF Allowance
<1>5. CASE s > last
  <2>1. n = 0 BY <1>1, <1>2, <1>3, <1>5, NoneLater, FS_EmptySet
  <2>2. RateCap * (t - s) \in Nat BY <1>3 DEF Bounds
  <2>3. Minute * n = 0 BY <2>1 DEF Bounds
  <2> QED BY <1>2, <1>3, <2>2, <2>3 DEF Allowance
<1> QED BY <1>1, <1>3, <1>4, <1>5

\* What the bucket of an address promises survives a reading, refused or passed.
LEMMA ReadingKeeps ==
    ASSUME Bounds, RateTypes, RateTypes', ip' = ip, NEW c \in Conns, NEW i \in Ips, i = ip[c],
           Behind(i), Left(i), Paid(i), NEW t \in Nat, t = stamp[c], t >= bucket[i].last,
           NEW r, r = A!Refill(bucket[i], t), bucket'[i].last = t,
           \/ passed' = passed /\ bucket'[i].tokens = r
           \/ /\ passed' = passed \cup {<<c, t>>} /\ <<c, t>> \notin passed
              /\ r >= Minute /\ bucket'[i].tokens = r - Minute
    PROVE  Behind(i)' /\ Left(i)' /\ Paid(i)'
<1>1. bucket[i] \in [tokens : Nat, last : Nat] BY DEF RateTypes
<1>2. r \in Nat /\ r <= RateCap * Minute /\ r <= bucket[i].tokens + RateCap * (t - bucket[i].last)
  BY <1>1, RefillBounded
<1>3. Minute \in Nat /\ RateCap \in Nat /\ RateCap * Minute \in Nat BY DEF Bounds
<1>4. ASSUME NEW s \in 0 .. t PROVE Minute * Cardinality(Passes(i, s, t)) + r <= Allowance(s, t)
  BY <1>2, <1>4, CreditGrows
<1>5. ASSUME NEW s \in Nat, NEW u \in Nat
      PROVE  /\ Cardinality(Passes(i, s, u)) \in Nat /\ Minute * Cardinality(Passes(i, s, u)) \in Nat
             /\ Allowance(s, u) \in Int
  <2>1. Cardinality(Passes(i, s, u)) \in Nat BY PassesCounted
  <2> QED BY <1>3, <2>1 DEF Allowance
<1>6. ASSUME NEW x \in passed, ip[x[1]] = i PROVE x[2] <= t
  <2>1. x[2] \in Nat /\ bucket[i].last \in Nat /\ x[2] <= bucket[i].last BY <1>1, <1>6 DEF RateTypes, Behind
  <2> QED BY <2>1
<1>7. CASE passed' = passed /\ bucket'[i].tokens = r
  <2>1. ASSUME NEW s, NEW u PROVE Passes(i, s, u)' = Passes(i, s, u) BY <1>7 DEF Passes
  <2>2. Behind(i)' BY <1>6, <1>7 DEF Behind
  <2>3. Left(i)' BY <1>2, <1>4, <1>7, <2>1 DEF Left, Allowance
  <2>4. Paid(i)' BY <2>1 DEF Paid, Allowance
  <2> QED BY <2>2, <2>3, <2>4
<1>8. CASE /\ passed' = passed \cup {<<c, t>>} /\ <<c, t>> \notin passed
           /\ r >= Minute /\ bucket'[i].tokens = r - Minute
  <2>1. Behind(i)' BY <1>6, <1>8 DEF Behind
  <2>2. ASSUME NEW s \in Nat, NEW u \in Nat, ~(s <= t /\ t <= u) PROVE Passes(i, s, u)' = Passes(i, s, u)
    BY <1>8, <2>2 DEF Passes
  <2>3. ASSUME NEW s \in Nat, NEW u \in Nat, s <= t, t <= u
        PROVE  Cardinality(Passes(i, s, u)') = Cardinality(Passes(i, s, t)) + 1
    <3>1. Passes(i, s, u) = Passes(i, s, t)
      <4>1. u >= bucket[i].last BY <1>1, <2>3
      <4> QED BY <1>1, <2>3, <4>1, NoneLater
    <3>2. Passes(i, s, u)' = Passes(i, s, u) \cup {<<c, t>>} BY <1>8, <2>3 DEF Passes
    <3>3. IsFiniteSet(Passes(i, s, u)) BY PassesCounted
    <3>4. <<c, t>> \notin Passes(i, s, u) BY <1>8 DEF Passes
    <3>5. Cardinality(Passes(i, s, u) \cup {<<c, t>>}) = Cardinality(Passes(i, s, u)) + 1
      BY <3>3, <3>4, FS_AddElement
    <3> QED BY <3>1, <3>2, <3>5
  <2>4. ASSUME NEW s \in Nat, s <= t, NEW n \in Nat, n = Cardinality(Passes(i, s, t))
        PROVE  Minute * (n + 1) + (r - Minute) <= Allowance(s, t)
    <3>1. Minute * n + r <= Allowance(s, t) BY <1>4, <2>4
    <3>2. Minute * (n + 1) = Minute * n + Minute /\ Minute * n \in Nat BY <1>3
    <3>3. Allowance(s, t) \in Int BY <1>5
    <3> QED BY <1>2, <1>3, <3>1, <3>2, <3>3
  <2>5. Left(i)'
    <3>1. ASSUME NEW s \in 0 .. t
          PROVE  Minute * Cardinality(Passes(i, s, t)') + (r - Minute) <= Allowance(s, t)
      <4>1. s \in Nat /\ s <= t OBVIOUS
      <4>2. Cardinality(Passes(i, s, t)) \in Nat BY <1>5, <4>1
      <4> QED BY <2>3, <2>4, <4>1, <4>2
    <3>2. r - Minute <= RateCap * Minute BY <1>2, <1>3
    <3> QED BY <1>8, <3>1, <3>2 DEF Left, Allowance
  <2>6. Paid(i)'
    <3>1. ASSUME NEW s \in Nat, NEW u \in Nat, s <= u
          PROVE  Minute * Cardinality(Passes(i, s, u)') <= Allowance(s, u)
      <4>1. CASE ~(s <= t /\ t <= u) BY <2>2, <3>1, <4>1 DEF Paid
      <4>2. CASE s <= t /\ t <= u
        <5>1. PICK n \in Nat : n = Cardinality(Passes(i, s, t)) BY <1>5
        <5>2. Minute * (n + 1) + (r - Minute) <= Allowance(s, t) BY <2>4, <4>2, <5>1
        <5>3. RateCap * (t - s) <= RateCap * (u - s)
          <6>1. t - s \in Int /\ u - s \in Int /\ t - s <= u - s BY <4>2
          <6> QED BY <1>3, <6>1, Grows
        <5>4. Allowance(s, t) <= Allowance(s, u) /\ Allowance(s, t) \in Int /\ Allowance(s, u) \in Int
          BY <1>3, <5>3 DEF Allowance
        <5>5. Minute * (n + 1) \in Nat BY <1>3
        <5>6. Minute * (n + 1) <= Allowance(s, u) BY <1>2, <1>3, <1>8, <5>2, <5>4, <5>5
        <5> QED BY <2>3, <4>2, <5>1, <5>6
      <4> QED BY <4>1, <4>2
    <3> QED BY <3>1 DEF Paid, Allowance
  <2> QED BY <2>1, <2>5, <2>6
<1> QED BY <1>7, <1>8

LEMMA OtherBuckets ==
    ASSUME ip' = ip, NEW j \in Ips, Behind(j), Left(j), Paid(j), bucket'[j] = bucket[j],
           \A x \in passed' : x \in passed \/ ip[x[1]] # j, passed \subseteq passed'
    PROVE  Behind(j)' /\ Left(j)' /\ Paid(j)'
<1>1. ASSUME NEW s, NEW u PROVE Passes(j, s, u)' = Passes(j, s, u) BY DEF Passes
<1>2. Behind(j)' BY DEF Behind
<1>3. Left(j)' BY <1>1 DEF Left, Allowance
<1>4. Paid(j)' BY <1>1 DEF Paid, Allowance
<1> QED BY <1>2, <1>3, <1>4

\* A step that leaves the buckets alone.
LEMMA NoReading ==
    ASSUME RateInv, pc' \in [Conns -> A!Phases], clock' \in Nat, stamp' \in [Conns -> Nat],
           passed' = passed, bucket' = bucket, rewound' = rewound, ip' = ip, enabled' = enabled,
           \A d \in Conns : pc'[d] \in {"idle", "arrived"} => pc[d] \in {"idle", "arrived"}
    PROVE  RateInv'
<1>1. RateTypes' BY DEF RateInv, RateTypes
<1>2. Once' BY DEF RateInv, Once
<1>3. ASSUME "rate" \in enabled', ~rewound', NEW i \in Ips PROVE Behind(i)' /\ Left(i)' /\ Paid(i)'
  <2>1. Behind(i) /\ Left(i) /\ Paid(i) BY <1>3 DEF RateInv
  <2> QED BY <2>1, OtherBuckets
<1> QED BY <1>1, <1>2, <1>3 DEF RateInv

LEMMA RateCheckKeeps ==
    ASSUME A!AdmissionBounds, RateInv, NEW c \in Conns, A!RateCheck(c), pc' \in [Conns -> A!Phases]
    PROVE  RateInv'
<1> DEFINE i == ip[c]
           t == stamp[c]
           r == A!Refill(bucket[i], t)
<1>1. Bounds BY DEF Bounds, A!AdmissionBounds
<1>2. RateTypes /\ i \in Ips /\ t \in Nat /\ bucket[i] \in [tokens : Nat, last : Nat] BY DEF RateInv, RateTypes
<1>3. /\ pc[c] = "arrived" /\ clock' = clock /\ ip' = ip /\ enabled' = enabled /\ stamp' = [stamp EXCEPT ![c] = 0]
      /\ pc' = [pc EXCEPT ![c] = "rated"] \/ pc' = [pc EXCEPT ![c] = "done"]
  BY DEF A!RateCheck, A!At, A!Goto, A!given
<1>4. clock' \in Nat /\ stamp' \in [Conns -> Nat] BY <1>2, <1>3 DEF RateTypes
<1>5. /\ pc'[c] \notin {"idle", "arrived"}
      /\ \A d \in Conns : pc'[d] \in {"idle", "arrived"} => d # c /\ pc[d] \in {"idle", "arrived"}
  BY <1>2, <1>3 DEF RateTypes
<1>6. CASE "rate" \notin enabled
  <2>1. passed' = passed /\ bucket' = bucket /\ rewound' = rewound BY <1>6 DEF A!RateCheck, A!history
  <2> QED BY <1>3, <1>4, <1>5, <2>1, NoReading
<1>7. CASE "rate" \in enabled
  <2>1. \/ /\ r < Minute /\ bucket' = [bucket EXCEPT ![i] = [tokens |-> r, last |-> t]] /\ passed' = passed
        \/ /\ r >= Minute /\ bucket' = [bucket EXCEPT ![i] = [tokens |-> r - Minute, last |-> t]]
           /\ passed' = passed \cup {<<c, t>>}
    BY <1>7 DEF A!RateCheck
  <2>2. rewound' = (rewound \/ t < bucket[i].last) BY <1>7 DEF A!RateCheck
  <2>3. <<c, t>> \notin passed BY <1>3 DEF RateInv, Once
  <2>4. r \in Nat
    <3>1. (IF t > bucket[i].last THEN t - bucket[i].last ELSE 0) \in Nat BY <1>2
    <3>2. PICK e \in Nat : e = IF t > bucket[i].last THEN t - bucket[i].last ELSE 0 BY <3>1
    <3>3. r = A!Min({bucket[i].tokens + e * RateCap, RateCap * Minute}) BY <3>2 DEF A!Refill
    <3>4. bucket[i].tokens + e * RateCap \in Nat /\ RateCap * Minute \in Nat BY <1>1, <1>2 DEF Bounds
    <3> QED BY <3>3, <3>4, Smaller
  <2> HIDE DEF r
  <2>5. RateTypes'
    <3>1. [tokens |-> r, last |-> t] \in [tokens : Nat, last : Nat] BY <1>2, <2>4
    <3>2. r >= Minute => [tokens |-> r - Minute, last |-> t] \in [tokens : Nat, last : Nat]
      BY <1>1, <1>2, <2>4 DEF Bounds
    <3>3. bucket' \in [Ips -> [tokens : Nat, last : Nat]] BY <1>2, <2>1, <3>1, <3>2 DEF RateTypes
    <3>4. passed' \subseteq Conns \X Nat BY <1>2, <2>1 DEF RateTypes
    <3>5. IsFiniteSet(passed')
      <4>1. IsFiniteSet(passed) BY <1>2 DEF RateTypes
      <4>2. IsFiniteSet(passed \cup {<<c, t>>}) BY <4>1, FS_AddElement
      <4>3. passed' = passed \/ passed' = passed \cup {<<c, t>>} BY <2>1
      <4> QED BY <4>1, <4>2, <4>3
    <3> QED BY <1>2, <1>3, <1>4, <3>3, <3>4, <3>5 DEF RateTypes
  <2>6. Once'
    <3>1. ASSUME NEW d \in Conns, pc'[d] \in {"idle", "arrived"}, NEW x \in passed' PROVE x[1] # d
      <4>1. d # c /\ pc[d] \in {"idle", "arrived"} BY <1>5, <3>1
      <4>2. CASE x \in passed BY <4>1, <4>2 DEF RateInv, Once
      <4>3. CASE x = <<c, t>> BY <4>1, <4>3
      <4> QED BY <2>1, <3>1, <4>2, <4>3
    <3> QED BY <3>1 DEF Once
  <2>7. ASSUME ~rewound', NEW j \in Ips PROVE Behind(j)' /\ Left(j)' /\ Paid(j)'
    <3>1. ~rewound /\ ~(t < bucket[i].last) BY <2>2, <2>7
    <3>2. t >= bucket[i].last BY <1>2, <3>1
    <3>3. Behind(j) /\ Left(j) /\ Paid(j) BY <1>7, <3>1 DEF RateInv
    <3>4. CASE j = i
      <4>1. \/ passed' = passed /\ bucket'[i].tokens = r
            \/ /\ passed' = passed \cup {<<c, t>>} /\ <<c, t>> \notin passed
               /\ r >= Minute /\ bucket'[i].tokens = r - Minute
        BY <1>2, <2>1, <2>3 DEF RateTypes
      <4>2. bucket'[i].last = t BY <1>2, <2>1 DEF RateTypes
      <4>3. PICK k \in Ips, u \in Nat, q \in {r} : k = i /\ u = t /\ q = r BY <1>2
      <4>4. Behind(k)' /\ Left(k)' /\ Paid(k)'
        BY <1>1, <1>2, <1>3, <2>5, <3>2, <3>3, <3>4, <4>1, <4>2, <4>3, ReadingKeeps DEF r
      <4>5. j = k BY <3>4, <4>3
      <4> QED BY <4>4, <4>5
    <3>5. CASE j # i
      <4>1. bucket'[j] = bucket[j] BY <1>2, <2>1, <3>5 DEF RateTypes
      <4>2. passed \subseteq passed' /\ \A x \in passed' : x \in passed \/ ip[x[1]] # j BY <2>1, <3>5
      <4> QED BY <1>3, <3>3, <4>1, <4>2, OtherBuckets
    <3> QED BY <3>4, <3>5
  <2> QED BY <2>5, <2>6, <2>7 DEF RateInv
<1> QED BY <1>6, <1>7

LEMMA RateStepKeeps ==
    ASSUME A!AdmissionBounds, RateInv, A!Next, pc' \in [Conns -> A!Phases]
    PROVE  RateInv'
<1> USE DEF A!limits, A!views, A!given, A!history
<1>1. RateTypes BY DEF RateInv
<1>2. CASE A!Tick
  <2>1. /\ clock' = clock + 1 /\ pc' = pc /\ stamp' = stamp /\ passed' = passed /\ bucket' = bucket
        /\ rewound' = rewound /\ ip' = ip /\ enabled' = enabled
    BY <1>2 DEF A!Tick
  <2>2. clock' \in Nat /\ stamp' \in [Conns -> Nat] BY <1>1, <2>1 DEF RateTypes
  <2> QED BY <2>1, <2>2, NoReading
<1>3. CASE ~A!Tick
  <2>1. PICK c \in Conns :
          \/ A!Accept(c) \/ A!RateCheck(c) \/ A!TakeGlobal(c) \/ A!TakeIp(c) \/ A!GaugeUp(c)
          \/ A!Register(c) \/ A!Identify(c) \/ A!SetIdentity(c) \/ A!Unwind(c) \/ A!DropIdentity(c)
          \/ A!DropSession(c) \/ A!DropGauge(c) \/ A!DropIp(c) \/ A!DropGlobal(c)
    BY <1>3 DEF A!Next
  <2>2. CASE A!RateCheck(c) BY <2>2, RateCheckKeeps
  <2>3. CASE A!Accept(c)
    <3>1. /\ clock' = clock /\ passed' = passed /\ bucket' = bucket /\ rewound' = rewound /\ ip' = ip
          /\ enabled' = enabled /\ stamp' = [stamp EXCEPT ![c] = clock] /\ pc[c] = "idle"
          /\ pc' = [pc EXCEPT ![c] = "arrived"]
      BY <2>3 DEF A!Accept, A!At, A!Goto
    <3>2. clock' \in Nat /\ stamp' \in [Conns -> Nat] BY <1>1, <3>1 DEF RateTypes
    <3>3. \A d \in Conns : pc'[d] \in {"idle", "arrived"} => pc[d] \in {"idle", "arrived"}
      BY <1>1, <3>1 DEF RateTypes
    <3> QED BY <3>1, <3>2, <3>3, NoReading
  <2>4. CASE ~A!RateCheck(c) /\ ~A!Accept(c)
    <3>1. /\ clock' = clock /\ passed' = passed /\ bucket' = bucket /\ rewound' = rewound /\ ip' = ip
          /\ enabled' = enabled /\ stamp' = stamp
      BY <2>1, <2>4 DEF A!TakeGlobal, A!TakeIp, A!GaugeUp, A!Register, A!Identify, A!SetIdentity, A!Unwind,
         A!DropIdentity, A!DropSession, A!DropGauge, A!DropIp, A!DropGlobal
    <3>2. \E q \in A!Phases \ {"idle", "arrived"} : pc' = [pc EXCEPT ![c] = q]
      BY <2>1, <2>4 DEF A!TakeGlobal, A!TakeIp, A!AfterIpRefusal, A!GaugeUp, A!Register, A!Identify,
         A!SetIdentity,
         A!Unwind, A!DropIdentity, A!DropSession, A!DropGauge, A!DropIp, A!DropGlobal, A!Goto, A!Phases
    <3>3. \A d \in Conns : pc'[d] \in {"idle", "arrived"} => pc[d] \in {"idle", "arrived"}
      BY <1>1, <3>2 DEF RateTypes
    <3>4. clock' \in Nat /\ stamp' \in [Conns -> Nat] BY <1>1, <3>1 DEF RateTypes
    <3> QED BY <3>1, <3>3, <3>4, NoReading
  <2> QED BY <2>2, <2>3, <2>4
<1> QED BY <1>2, <1>3

LEMMA RateInitHolds ==
    ASSUME A!AdmissionBounds, A!Init
    PROVE  RateInv
<1>1. Bounds BY DEF Bounds, A!AdmissionBounds
<1>2. RateCap * Minute \in Nat BY <1>1 DEF Bounds
<1>3. PICK a \in Arrivals : ip = a.ip BY DEF A!Init
<1>4. ip \in [Conns -> Ips] BY <1>3 DEF A!AdmissionBounds
<1>5. [tokens |-> RateCap * Minute, last |-> 0] \in [tokens : Nat, last : Nat] BY <1>2
<1>6. RateTypes
  <2>1. bucket \in [Ips -> [tokens : Nat, last : Nat]] BY <1>5 DEF A!Init
  <2>2. pc \in [Conns -> A!Phases] BY DEF A!Init, A!Phases
  <2>3. clock \in Nat /\ stamp \in [Conns -> Nat] BY DEF A!Init
  <2>4. passed \subseteq Conns \X Nat /\ IsFiniteSet(passed) BY FS_EmptySet DEF A!Init
  <2> QED BY <1>4, <2>1, <2>2, <2>3, <2>4 DEF RateTypes
<1>7. Once BY DEF A!Init, Once
<1>8. ASSUME NEW i \in Ips PROVE Behind(i) /\ Left(i) /\ Paid(i)
  <2>1. bucket[i].tokens = RateCap * Minute /\ bucket[i].last = 0 /\ passed = {} BY DEF A!Init
  <2>2. ASSUME NEW s, NEW t PROVE Cardinality(Passes(i, s, t)) = 0 BY <2>1, FS_EmptySet DEF Passes
  <2>3. Minute * 0 = 0 /\ Minute \in Nat /\ RateCap \in Nat BY <1>1 DEF Bounds
  <2>4. ASSUME NEW s \in Nat, NEW t \in Nat, s <= t PROVE RateCap * Minute <= Allowance(s, t)
    <3>1. RateCap * (t - s) \in Nat BY <2>3, <2>4
    <3> QED BY <1>2, <3>1 DEF Allowance
  <2>5. Left(i) BY <1>2, <2>1, <2>2, <2>3, <2>4 DEF Left
  <2>6. Paid(i)
    <3>1. ASSUME NEW s \in Nat, NEW t \in Nat, s <= t PROVE Minute * Cardinality(Passes(i, s, t)) <= Allowance(s, t)
      <4>1. 0 <= RateCap * Minute /\ Allowance(s, t) \in Int BY <1>2, <2>3 DEF Allowance
      <4>2. RateCap * Minute <= Allowance(s, t) BY <2>4, <3>1
      <4> QED BY <1>2, <2>2, <2>3, <4>1, <4>2
    <3> QED BY <3>1 DEF Paid
  <2> QED BY <2>1, <2>5, <2>6 DEF Behind
<1> QED BY <1>6, <1>7, <1>8 DEF RateInv

\* check_rate of rate_limit.rs: whatever the capacity, the refill and the interleaving
\* of the tasks, of the attempts an address makes between two times at most the burst
\* and the refill of that time pass, if the tasks lock the bucket in the order in
\* which they read the clock.
THEOREM RateIsBounded == ASSUME A!AdmissionBounds PROVE A!Spec => [](A!RateBounded /\ RateBounded)
<1>1. A!Init => AdmissionInv /\ RateInv BY AdmissionInitHolds, RateInitHolds
<1>2. AdmissionInv /\ RateInv /\ [A!Next]_(A!vars) => AdmissionInv' /\ RateInv'
  <2>1. ASSUME AdmissionInv, RateInv, A!Next PROVE AdmissionInv' /\ RateInv'
    <3>1. AdmissionInv' BY <2>1, AdmissionNextKeeps
    <3>2. pc' \in [Conns -> A!Phases] BY <3>1 DEF AdmissionInv, AdmissionTypes
    <3> QED BY <2>1, <3>1, <3>2, RateStepKeeps
  <2>2. ASSUME AdmissionInv, RateInv, UNCHANGED A!vars PROVE AdmissionInv' /\ RateInv'
    <3>1. /\ clock' = clock /\ pc' = pc /\ stamp' = stamp /\ passed' = passed /\ bucket' = bucket
          /\ rewound' = rewound /\ ip' = ip /\ enabled' = enabled
      BY <2>2 DEF A!vars, A!limits, A!given, A!history
    <3>2. clock' \in Nat /\ stamp' \in [Conns -> Nat] /\ pc' \in [Conns -> A!Phases]
      BY <2>2, <3>1 DEF RateInv, RateTypes
    <3>3. RateInv' BY <2>2, <3>1, <3>2, NoReading
    <3> QED BY <2>2, <3>3, AdmissionNextKeeps
  <2> QED BY <2>1, <2>2
<1>3. ASSUME RateInv PROVE A!RateBounded
  <2> SUFFICES ASSUME "rate" \in enabled, ~rewound PROVE A!WithinRate BY DEF A!RateBounded
  <2>1. RateTypes /\ Bounds BY <1>3 DEF RateInv, Bounds, A!AdmissionBounds
  <2>2. ASSUME NEW i \in Ips, NEW s \in Nat, NEW t \in Nat, s <= t
        PROVE  Cardinality(Passes(i, s, t)) <= RateCap + (RateCap * (t - s)) \div Minute
    <3>1. PICK n \in Nat : n = Cardinality(Passes(i, s, t)) BY <2>1, PassesCounted
    <3>2. Minute * n <= RateCap * Minute + RateCap * (t - s) BY <1>3, <2>2, <3>1 DEF RateInv, Paid, Allowance
    <3>3. PICK x \in Nat : x = RateCap * (t - s) BY <2>1, <2>2 DEF Bounds
    <3>4. n <= RateCap + (x \div Minute) BY <2>1, <3>2, <3>3, Divides DEF Bounds
    <3> QED BY <3>1, <3>3, <3>4
  <2>3. {x[2] : x \in passed} \subseteq Nat BY <2>1 DEF RateTypes
  <2>4. ASSUME NEW i, NEW s, NEW t PROVE {x \in passed : ip[x[1]] = i /\ x[2] \in s .. t} = Passes(i, s, t)
    BY DEF Passes
  <2> QED BY <2>2, <2>3, <2>4, SameCardinality DEF A!WithinRate
<1>4. RateInv => A!RateBounded /\ RateBounded BY <1>3 DEF RateBounded
<1> QED BY <1>1, <1>2, <1>4, PTL DEF A!Spec

-----------------------------------------------------------------------------
(* The stores: what the invariant says.                                    *)

\* A function on the keys of the store.
Map(f) == f = [k \in M!Keys |-> f[k]]

StoreTypes ==
    /\ at \in [Sessions -> {"idle", "write", "rename", "commit", "emit"}]
    /\ op \in [Sessions -> M!Ops \cup {Nothing}]
    /\ \A s \in Sessions : at[s] # "idle" => op[s] \in M!Ops
    /\ \A s \in Sessions : at[s] = "emit" => op[s].key \in Bindings
    /\ Map(mem) /\ Map(want) /\ Map(view)
    /\ disk.version = "v2" => Map(disk.entries) /\ disk = [version |-> "v2", entries |-> disk.entries]
    /\ backend # "embedded" => disk.version = "v2"

\* The mutex of the embedded store covers the memory and both writes of the file.
Mutex ==
    /\ lock \in Sessions \cup {Nothing}
    /\ \A s \in Sessions : at[s] \in {"write", "rename"} <=> lock = s
    /\ lock # Nothing => backend = "embedded"

\* Nothing changes the memory between the two writes.
InFile == \A s \in Sessions : at[s] = "rename" => tmp = [version |-> "v2", entries |-> mem]

\* What is committed is on disk; the memory is ahead by the operation under way.
OnDisk == \A k \in M!Keys \ doubt : M!Load(disk)[k] = want[k]
InMemory ==
    backend = "embedded" => \A k \in M!Keys \ doubt :
        mem[k] = IF lock # Nothing /\ op[lock].key = k THEN M!After(want[k], op[lock]) ELSE want[k]

\* The subscriber knows every binding whose change is not still to be announced.
InView ==
    \A k \in Bindings \ doubt :
        (\A s \in Sessions : at[s] = "emit" => op[s].key # k) => view[k] = want[k]

StoreInv == StoreTypes /\ Mutex /\ InFile /\ OnDisk /\ InMemory /\ InView

\* What an operation makes of the keys.
LEMMA OpShape ==
    ASSUME NEW o \in M!Ops
    PROVE  /\ o.key \in M!Keys
           /\ o.kind \in {"upsert", "configure", "delete"} => o.key \in Bindings
           /\ o.kind \in {"put", "remove"} => o.key \in Objects
           /\ o.kind \in {"upsert", "configure", "delete", "put", "remove"}
BY DEF M!Ops, M!Keys

LEMMA ApplyAt ==
    ASSUME NEW f, Map(f), NEW o \in M!Ops
    PROVE  /\ Map(M!Apply(f, o))
           /\ \A k \in M!Keys : M!Apply(f, o)[k] = IF k = o.key THEN M!After(f[k], o) ELSE f[k]
<1>1. DOMAIN f = M!Keys BY DEF Map
<1>2. o.key \in M!Keys BY OpShape
<1>3. M!Apply(f, o) = [k \in M!Keys |-> IF k = o.key THEN M!After(f[k], o) ELSE f[k]]
  BY <1>1, <1>2 DEF M!Apply, Map
<1> QED BY <1>3 DEF Map

LEMMA NothingIsDone ==
    ASSUME NEW e, NEW o \in M!Ops, M!NothingToDo(e, o)
    PROVE  M!After(e, o) = e
BY DEF M!NothingToDo, M!After

LEMMA LoadIsMap ==
    ASSUME NEW d, d.version = "v2" => Map(d.entries)
    PROVE  Map(M!Load(d)) /\ (d.version = "v2" => M!Load(d) = d.entries)
BY DEF M!Load, Map

\* Setting one key.
LEMMA SetAt ==
    ASSUME NEW f, Map(f), NEW k \in M!Keys, NEW v
    PROVE  /\ Map([f EXCEPT ![k] = v])
           /\ \A j \in M!Keys : [f EXCEPT ![k] = v][j] = IF j = k THEN v ELSE f[j]
<1>1. DOMAIN f = M!Keys BY DEF Map
<1>2. [f EXCEPT ![k] = v] = [j \in M!Keys |-> IF j = k THEN v ELSE f[j]] BY <1>1 DEF Map
<1> QED BY <1>2 DEF Map

LEMMA StoreStarts == ASSUME M!StoreConstants PROVE M!Init => StoreInv
<1> SUFFICES ASSUME M!Init PROVE StoreInv OBVIOUS
<1>1. disk.version = "v2" => Map(disk.entries) /\ disk = [version |-> "v2", entries |-> disk.entries]
  BY DEF M!Init, Map, M!NoEntries
<1>2. Map(M!Load(disk)) BY <1>1, LoadIsMap
<1>3. /\ backend # "embedded" => disk.version = "v2"
      /\ mem = M!Load(disk) /\ lock = Nothing /\ view = M!Load(disk) /\ want = M!Load(disk)
      /\ at = [s \in Sessions |-> "idle"] /\ op = [s \in Sessions |-> Nothing]
  BY DEF M!Init
<1>4. StoreTypes BY <1>1, <1>2, <1>3 DEF StoreTypes
<1>5. Mutex BY <1>3 DEF Mutex, M!StoreConstants
<1>6. InFile BY <1>3 DEF InFile
<1>7. OnDisk BY <1>3 DEF OnDisk
<1>8. InMemory BY <1>3 DEF InMemory
<1>9. InView BY <1>3 DEF InView
<1> QED BY <1>4, <1>5, <1>6, <1>7, <1>8, <1>9 DEF StoreInv

\* The embedded store.
LEMMA EmbeddedBeginsKeeps ==
    ASSUME M!StoreConstants, StoreInv, NEW s \in Sessions, M!EmbeddedBegins(s)
    PROVE  StoreInv'
<1> USE DEF StoreInv
<1>1. PICK o \in M!Ops :
        /\ M!Begins(s, o) /\ mem' = M!Apply(mem, o)
        /\ IF M!NothingToDo(mem[o.key], o)
             THEN UNCHANGED <<lock, at>>
             ELSE lock' = s /\ at' = [at EXCEPT ![s] = "write"]
  BY DEF M!EmbeddedBegins, M!Mutated
<1>2. /\ backend = "embedded" /\ lock = Nothing /\ at[s] = "idle"
      /\ op' = [op EXCEPT ![s] = o]
      /\ UNCHANGED <<backend, disk, tmp, seen, view, want, doubt>>
  BY <1>1 DEF M!EmbeddedBegins, M!Begins
<1>3. /\ Map(mem')
      /\ \A k \in M!Keys : mem'[k] = IF k = o.key THEN M!After(mem[k], o) ELSE mem[k]
  BY <1>1, ApplyAt DEF StoreTypes
<1>4. \A x \in Sessions : at[x] \notin {"write", "rename"} BY <1>2 DEF Mutex, M!StoreConstants
<1>5. o.key \in M!Keys BY OpShape
<1>6. /\ \A x \in Sessions \ {s} : at'[x] = at[x] /\ op'[x] = op[x]
      /\ op'[s] = o /\ at'[s] \in {"idle", "write"}
      /\ at' \in [Sessions -> {"idle", "write", "rename", "commit", "emit"}]
      /\ op' \in [Sessions -> M!Ops \cup {Nothing}]
  BY <1>1, <1>2 DEF StoreTypes
<1>7. StoreTypes' BY <1>2, <1>3, <1>6 DEF StoreTypes, Map
<1>8. CASE M!NothingToDo(mem[o.key], o)
  <2>1. lock' = lock /\ at' = at BY <1>1, <1>8
  <2>2. \A k \in M!Keys : mem'[k] = mem[k] BY <1>3, <1>5, <1>8, NothingIsDone
  <2>3. Mutex' BY <1>2, <2>1 DEF Mutex
  <2>4. InFile' BY <1>4, <2>1 DEF InFile
  <2>5. OnDisk' BY <1>2 DEF OnDisk
  <2>6. InMemory' BY <1>2, <2>1, <2>2 DEF InMemory
  <2>7. InView' BY <1>2, <1>6, <2>1 DEF InView
  <2> QED BY <1>7, <2>3, <2>4, <2>5, <2>6, <2>7
<1>9. CASE ~M!NothingToDo(mem[o.key], o)
  <2>1. lock' = s /\ at' = [at EXCEPT ![s] = "write"] /\ at'[s] = "write" BY <1>1, <1>9 DEF StoreTypes
  <2>2. Mutex' BY <1>2, <1>4, <1>6, <2>1 DEF Mutex
  <2>4. InFile' BY <1>4, <1>6, <2>1 DEF InFile
  <2>5. OnDisk' BY <1>2 DEF OnDisk
  <2>6. InMemory' BY <1>2, <1>3, <1>6, <2>1 DEF InMemory, M!StoreConstants
  <2>7. InView' BY <1>2, <1>6, <2>1 DEF InView
  <2> QED BY <1>7, <2>2, <2>4, <2>5, <2>6, <2>7
<1> QED BY <1>8, <1>9

LEMMA WriteTmpKeeps ==
    ASSUME M!StoreConstants, StoreInv, NEW s \in Sessions, M!WriteTmp(s)
    PROVE  StoreInv'
<1> USE DEF StoreInv
<1>1. /\ at[s] = "write" /\ at' = [at EXCEPT ![s] = "rename"]
      /\ tmp' = [version |-> "v2", entries |-> mem]
      /\ UNCHANGED <<backend, disk, mem, lock, op, seen, view, done, want, doubt>>
  BY DEF M!WriteTmp, M!Goes
<1>2. /\ \A x \in Sessions \ {s} : at'[x] = at[x]
      /\ at'[s] = "rename" /\ at' \in [Sessions -> {"idle", "write", "rename", "commit", "emit"}]
  BY <1>1 DEF StoreTypes
<1>3. StoreTypes' BY <1>1, <1>2 DEF StoreTypes, Map
<1>4. Mutex' BY <1>1, <1>2 DEF Mutex
<1>5. InFile' BY <1>1 DEF InFile
<1>6. OnDisk' BY <1>1 DEF OnDisk
<1>7. InMemory' BY <1>1 DEF InMemory
<1>8. InView' BY <1>1, <1>2 DEF InView
<1> QED BY <1>3, <1>4, <1>5, <1>6, <1>7, <1>8

LEMMA RenameKeeps ==
    ASSUME M!StoreConstants, StoreInv, NEW s \in Sessions, M!Rename(s)
    PROVE  StoreInv'
<1> USE DEF StoreInv
<1>1. /\ at[s] = "rename" /\ at' = [at EXCEPT ![s] = M!Announced(s)]
      /\ disk' = tmp /\ lock' = Nothing /\ want' = M!Apply(want, op[s])
      /\ UNCHANGED <<backend, mem, op, seen, view, done, doubt>>
  BY DEF M!Rename, M!Goes
<1>2. op[s] \in M!Ops /\ lock = s /\ backend = "embedded" /\ tmp = [version |-> "v2", entries |-> mem]
  BY <1>1 DEF StoreTypes, Mutex, InFile, M!StoreConstants
<1>3. /\ Map(want')
      /\ \A k \in M!Keys : want'[k] = IF k = op[s].key THEN M!After(want[k], op[s]) ELSE want[k]
  BY <1>1, <1>2, ApplyAt DEF StoreTypes
<1>4. /\ \A x \in Sessions \ {s} : at'[x] = at[x]
      /\ at'[s] = IF op[s].key \in Bindings THEN "emit" ELSE "idle"
      /\ at' \in [Sessions -> {"idle", "write", "rename", "commit", "emit"}]
  BY <1>1 DEF StoreTypes, M!Announced
<1>5. disk'.version = "v2" /\ disk'.entries = mem /\ disk' = [version |-> "v2", entries |-> disk'.entries]
  BY <1>1, <1>2
<1>6. StoreTypes' BY <1>1, <1>2, <1>3, <1>4, <1>5 DEF StoreTypes, Map
<1>7. Mutex' BY <1>1, <1>2, <1>4 DEF Mutex, M!StoreConstants
<1>8. InFile' BY <1>2, <1>4 DEF InFile, Mutex
<1>9. \A k \in M!Keys \ doubt : mem[k] = want'[k]
  BY <1>2, <1>3 DEF InMemory, M!StoreConstants
<1>10. OnDisk'
  <2>1. M!Load(disk') = mem BY <1>5 DEF M!Load
  <2> QED BY <1>1, <1>9, <2>1 DEF OnDisk, M!Load
<1>11. InMemory' BY <1>1, <1>9 DEF InMemory
<1>12. InView' BY <1>1, <1>3, <1>4, OpShape DEF InView, M!Keys
<1> QED BY <1>6, <1>7, <1>8, <1>10, <1>11, <1>12

LEMMA PersistFailsKeeps ==
    ASSUME M!StoreConstants, StoreInv, NEW s \in Sessions, M!PersistFails(s)
    PROVE  StoreInv'
<1> USE DEF StoreInv
<1>1. /\ at[s] \in {"write", "rename"} /\ at' = [at EXCEPT ![s] = "idle"] /\ lock' = Nothing
      /\ doubt' = doubt \cup {op[s].key}
      /\ UNCHANGED <<backend, disk, mem, tmp, op, seen, view, done, want>>
  BY DEF M!PersistFails
<1>2. lock = s BY <1>1 DEF Mutex
<1>3. /\ \A x \in Sessions \ {s} : at'[x] = at[x]
      /\ at'[s] = "idle" /\ at' \in [Sessions -> {"idle", "write", "rename", "commit", "emit"}]
  BY <1>1 DEF StoreTypes
<1>4. StoreTypes' BY <1>1, <1>3 DEF StoreTypes, Map
<1>5. Mutex' BY <1>1, <1>2, <1>3 DEF Mutex, M!StoreConstants
<1>6. InFile' BY <1>1, <1>3 DEF InFile
<1>7. OnDisk' BY <1>1 DEF OnDisk
<1>8. InMemory' BY <1>1, <1>2 DEF InMemory
<1>9. InView' BY <1>1, <1>3 DEF InView
<1> QED BY <1>4, <1>5, <1>6, <1>7, <1>8, <1>9

\* redb.
LEMMA RedbReadsKeeps ==
    ASSUME M!StoreConstants, StoreInv, NEW s \in Sessions, M!RedbReads(s)
    PROVE  StoreInv'
<1> USE DEF StoreInv
<1>1. PICK o \in M!Ops, p \in {"idle", "commit"} : M!Begins(s, o) /\ at' = [at EXCEPT ![s] = p]
  BY DEF M!RedbReads
<1>2. /\ backend = "redb" /\ at[s] = "idle" /\ op' = [op EXCEPT ![s] = o]
      /\ UNCHANGED <<backend, disk, mem, tmp, lock, view, want, doubt>>
  BY <1>1 DEF M!RedbReads, M!Begins, M!embedded
<1>3. lock = Nothing BY <1>2 DEF Mutex
<1>4. /\ \A x \in Sessions \ {s} : at'[x] = at[x] /\ op'[x] = op[x]
      /\ op'[s] = o /\ at'[s] = p
      /\ at' \in [Sessions -> {"idle", "write", "rename", "commit", "emit"}]
      /\ op' \in [Sessions -> M!Ops \cup {Nothing}]
  BY <1>1, <1>2 DEF StoreTypes
<1>5. StoreTypes' BY <1>2, <1>4 DEF StoreTypes, Map
<1>6. Mutex' BY <1>2, <1>3, <1>4 DEF Mutex, M!StoreConstants
<1>7. InFile' BY <1>2, <1>4 DEF InFile
<1>8. OnDisk' BY <1>2 DEF OnDisk
<1>9. InMemory' BY <1>2 DEF InMemory
<1>10. InView' BY <1>2, <1>4 DEF InView
<1> QED BY <1>5, <1>6, <1>7, <1>8, <1>9, <1>10

\* A write that is based on an older entry puts the key in doubt; one that is not
\* makes of the entry what it should.
LEMMA RedbCommitsKeeps ==
    ASSUME M!StoreConstants, StoreInv, NEW s \in Sessions, M!RedbCommits(s)
    PROVE  StoreInv'
<1> USE DEF StoreInv
<1>1. PICK k, found, based :
        /\ k = op[s].key /\ found = disk.entries[k]
        /\ based = IF op[s].kind \in {"upsert", "configure"} THEN seen[s] ELSE found
  OBVIOUS
<1>2. /\ backend = "redb" /\ at[s] = "commit"
      /\ at' = [at EXCEPT ![s] = IF op[s].kind = "delete" /\ found = Nothing THEN "idle" ELSE M!Announced(s)]
      /\ disk' = [disk EXCEPT !.entries[k] = M!After(based, op[s])]
      /\ want' = M!Apply(want, op[s])
      /\ doubt' = IF based = found THEN doubt ELSE doubt \cup {k}
      /\ UNCHANGED <<backend, mem, tmp, lock, op, view>>
  BY <1>1 DEF M!RedbCommits, M!Goes, M!embedded
<1>3. /\ op[s] \in M!Ops /\ lock = Nothing /\ k \in M!Keys
      /\ disk.version = "v2" /\ Map(disk.entries) /\ disk = [version |-> "v2", entries |-> disk.entries]
  BY <1>1, <1>2, OpShape DEF StoreTypes, Mutex
<1>4. /\ disk'.version = "v2" /\ disk'.entries = [disk.entries EXCEPT ![k] = M!After(based, op[s])]
      /\ disk' = [version |-> "v2", entries |-> disk'.entries]
  BY <1>2, <1>3
<1>5. /\ Map(disk'.entries)
      /\ \A j \in M!Keys : disk'.entries[j] = IF j = k THEN M!After(based, op[s]) ELSE disk.entries[j]
  BY <1>3, <1>4, SetAt
<1>6. /\ Map(want')
      /\ \A j \in M!Keys : want'[j] = IF j = k THEN M!After(want[j], op[s]) ELSE want[j]
  BY <1>1, <1>2, <1>3, ApplyAt DEF StoreTypes
<1>7. /\ \A x \in Sessions \ {s} : at'[x] = at[x]
      /\ at'[s] = IF (op[s].kind = "delete" /\ found = Nothing) \/ k \notin Bindings THEN "idle" ELSE "emit"
      /\ at' \in [Sessions -> {"idle", "write", "rename", "commit", "emit"}]
  BY <1>1, <1>2 DEF StoreTypes, M!Announced
<1>8. StoreTypes' BY <1>1, <1>2, <1>4, <1>5, <1>6, <1>7 DEF StoreTypes, Map
<1>9. Mutex' BY <1>2, <1>3, <1>7 DEF Mutex, M!StoreConstants
<1>10. InFile' BY <1>2, <1>7 DEF InFile
<1>11. \A j \in M!Keys \ doubt : disk.entries[j] = want[j] BY <1>3, LoadIsMap DEF OnDisk
<1>12. \A j \in M!Keys \ doubt' : disk'.entries[j] = want'[j]
  <2>1. ASSUME NEW j \in M!Keys \ doubt', j # k PROVE disk'.entries[j] = want'[j]
    BY <1>2, <1>5, <1>6, <1>11, <2>1
  <2>2. ASSUME k \notin doubt' PROVE disk'.entries[k] = want'[k]
    <3>1. based = found /\ k \notin doubt BY <1>2, <2>2
    <3>2. based = want[k] BY <1>1, <1>3, <1>11, <3>1
    <3> QED BY <1>3, <1>5, <1>6, <3>2
  <2> QED BY <2>1, <2>2
<1>13. OnDisk'
  <2>1. M!Load(disk') = disk'.entries BY <1>4 DEF M!Load
  <2> QED BY <1>12, <2>1 DEF OnDisk, M!Load
<1>14. InMemory' BY <1>2 DEF InMemory
<1>15. InView'
  <2> SUFFICES ASSUME NEW j \in Bindings \ doubt', \A x \in Sessions : at'[x] = "emit" => op[x].key # j
               PROVE  view[j] = want'[j]
    BY <1>2 DEF InView
  <2>1. j \notin doubt /\ j \in M!Keys BY <1>2 DEF M!Keys
  <2>2. \A x \in Sessions : at[x] = "emit" => op[x].key # j BY <1>2, <1>7
  <2>3. view[j] = want[j] BY <2>1, <2>2 DEF InView
  <2>4. CASE j # k BY <1>6, <2>1, <2>3, <2>4
  <2>5. CASE j = k
    <3>1. op[s].kind = "delete" /\ found = Nothing BY <1>1, <1>7, <2>5
    <3>2. want[k] = Nothing BY <1>1, <1>11, <2>1, <2>5, <3>1
    <3>3. M!After(want[k], op[s]) = Nothing BY <3>1 DEF M!After
    <3> QED BY <1>6, <2>1, <2>3, <2>5, <3>2, <3>3
  <2> QED BY <2>4, <2>5
<1> QED BY <1>8, <1>9, <1>10, <1>13, <1>14, <1>15

LEMMA CommitFailsKeeps ==
    ASSUME M!StoreConstants, StoreInv, NEW s \in Sessions, M!CommitFails(s)
    PROVE  StoreInv'
<1> USE DEF StoreInv
<1>1. /\ at[s] = "commit" /\ at' = [at EXCEPT ![s] = "idle"]
      /\ UNCHANGED <<backend, disk, mem, tmp, lock, op, view, want, doubt>>
  BY DEF M!CommitFails, M!Goes, M!embedded
<1>2. /\ \A x \in Sessions \ {s} : at'[x] = at[x]
      /\ at'[s] = "idle" /\ at' \in [Sessions -> {"idle", "write", "rename", "commit", "emit"}]
  BY <1>1 DEF StoreTypes
<1>3. StoreTypes' BY <1>1, <1>2 DEF StoreTypes, Map
<1>4. Mutex' BY <1>1, <1>2 DEF Mutex
<1>5. InFile' BY <1>1, <1>2 DEF InFile
<1>6. OnDisk' BY <1>1 DEF OnDisk
<1>7. InMemory' BY <1>1 DEF InMemory
<1>8. InView' BY <1>1, <1>2 DEF InView
<1> QED BY <1>3, <1>4, <1>5, <1>6, <1>7, <1>8

\* Postgres: the statement and the trigger's notification commit together.
LEMMA StatementKeeps ==
    ASSUME M!StoreConstants, StoreInv, NEW s \in Sessions, M!Statement(s)
    PROVE  StoreInv'
<1> USE DEF StoreInv
<1>1. PICK o \in M!Ops :
        /\ M!Begins(s, o) /\ disk' = [disk EXCEPT !.entries = M!Apply(disk.entries, o)]
        /\ want' = M!Apply(want, o)
        /\ at' = [at EXCEPT ![s] = IF o.key \in Objects \/ M!NothingToDo(disk.entries[o.key], o) THEN "idle" ELSE "emit"]
  BY DEF M!Statement
<1>2. /\ backend = "postgres" /\ at[s] = "idle" /\ op' = [op EXCEPT ![s] = o]
      /\ UNCHANGED <<backend, mem, tmp, lock, view, doubt>>
  BY <1>1 DEF M!Statement, M!Begins, M!embedded
<1>3. /\ lock = Nothing /\ o.key \in M!Keys /\ (o.key \notin Objects => o.key \in Bindings)
      /\ disk.version = "v2" /\ Map(disk.entries) /\ disk = [version |-> "v2", entries |-> disk.entries]
  BY <1>2, OpShape DEF StoreTypes, Mutex, M!Keys
<1>4. /\ disk'.version = "v2" /\ disk'.entries = M!Apply(disk.entries, o)
      /\ disk' = [version |-> "v2", entries |-> disk'.entries]
  BY <1>1, <1>3
<1>5. /\ Map(disk'.entries)
      /\ \A k \in M!Keys : disk'.entries[k] = IF k = o.key THEN M!After(disk.entries[k], o) ELSE disk.entries[k]
  BY <1>3, <1>4, ApplyAt
<1>6. /\ Map(want')
      /\ \A k \in M!Keys : want'[k] = IF k = o.key THEN M!After(want[k], o) ELSE want[k]
  BY <1>1, ApplyAt DEF StoreTypes
<1>7. /\ \A x \in Sessions \ {s} : at'[x] = at[x] /\ op'[x] = op[x]
      /\ op'[s] = o /\ at'[s] \in {"idle", "emit"}
      /\ at'[s] = "idle" <=> (o.key \in Objects \/ M!NothingToDo(disk.entries[o.key], o))
      /\ at' \in [Sessions -> {"idle", "write", "rename", "commit", "emit"}]
      /\ op' \in [Sessions -> M!Ops \cup {Nothing}]
  BY <1>1, <1>2 DEF StoreTypes
<1>8. StoreTypes' BY <1>2, <1>3, <1>4, <1>5, <1>6, <1>7 DEF StoreTypes, Map
<1>9. Mutex' BY <1>2, <1>3, <1>7 DEF Mutex, M!StoreConstants
<1>10. InFile' BY <1>2, <1>7 DEF InFile
<1>11. \A k \in M!Keys \ doubt : disk.entries[k] = want[k] BY <1>3, LoadIsMap DEF OnDisk
<1>12. OnDisk'
  <2>1. M!Load(disk') = disk'.entries BY <1>4 DEF M!Load
  <2>2. \A k \in M!Keys \ doubt : disk'.entries[k] = want'[k] BY <1>5, <1>6, <1>11
  <2> QED BY <1>2, <2>1, <2>2 DEF OnDisk, M!Load
<1>13. InMemory' BY <1>2 DEF InMemory
<1>14. InView'
  <2> SUFFICES ASSUME NEW k \in Bindings \ doubt, \A x \in Sessions : at'[x] = "emit" => op'[x].key # k
               PROVE  view[k] = want'[k]
    BY <1>2 DEF InView
  <2>1. k \in M!Keys /\ k \notin Objects BY DEF M!Keys, M!StoreConstants
  <2>2. \A x \in Sessions : at[x] = "emit" => op[x].key # k BY <1>2, <1>7
  <2>3. view[k] = want[k] BY <2>1, <2>2 DEF InView
  <2>4. CASE k # o.key BY <1>6, <2>1, <2>3, <2>4
  <2>5. CASE k = o.key
    <3>1. M!NothingToDo(disk.entries[k], o) BY <1>7, <2>1, <2>5
    <3>2. M!After(want[k], o) = want[k] BY <1>11, <2>1, <3>1, NothingIsDone
    <3> QED BY <1>6, <2>1, <2>3, <2>5, <3>2
  <2> QED BY <2>4, <2>5
<1> QED BY <1>8, <1>9, <1>10, <1>12, <1>13, <1>14

\* The subscriber lists what it is told of.
LEMMA EmitKeeps ==
    ASSUME M!StoreConstants, StoreInv, NEW s \in Sessions, M!Emit(s)
    PROVE  StoreInv'
<1> USE DEF StoreInv
<1>1. /\ at[s] = "emit" /\ lock = Nothing /\ at' = [at EXCEPT ![s] = "idle"]
      /\ view' = [view EXCEPT ![op[s].key] = M!Visible[op[s].key]]
      /\ UNCHANGED <<backend, disk, mem, tmp, lock, op, want, doubt>>
  BY DEF M!Emit, M!Goes, M!embedded
<1>2. op[s].key \in M!Keys BY <1>1 DEF StoreTypes, M!Keys
<1>3. /\ Map(view')
      /\ \A k \in M!Keys : view'[k] = IF k = op[s].key THEN M!Visible[k] ELSE view[k]
  <2>1. PICK f \in {view}, k \in M!Keys, v \in {M!Visible[op[s].key]} : k = op[s].key BY <1>2
  <2>2. Map(f) BY <2>1 DEF StoreTypes
  <2>3. /\ Map([f EXCEPT ![k] = v])
        /\ \A j \in M!Keys : [f EXCEPT ![k] = v][j] = IF j = k THEN v ELSE f[j]
    BY <2>2, SetAt
  <2> QED BY <1>1, <2>1, <2>3
<1>4. /\ \A x \in Sessions \ {s} : at'[x] = at[x]
      /\ at'[s] = "idle" /\ at' \in [Sessions -> {"idle", "write", "rename", "commit", "emit"}]
  BY <1>1 DEF StoreTypes
<1>5. \A k \in M!Keys \ doubt : M!Visible[k] = want[k]
  BY <1>1 DEF M!Visible, InMemory, OnDisk
<1>6. StoreTypes' BY <1>1, <1>3, <1>4 DEF StoreTypes, Map
<1>7. Mutex' BY <1>1, <1>4 DEF Mutex
<1>8. InFile' BY <1>1, <1>4 DEF InFile
<1>9. OnDisk' BY <1>1 DEF OnDisk
<1>10. InMemory' BY <1>1 DEF InMemory
<1>11. InView' BY <1>1, <1>3, <1>4, <1>5 DEF InView, M!Keys
<1> QED BY <1>6, <1>7, <1>8, <1>9, <1>10, <1>11

LEMMA RestartKeeps ==
    ASSUME M!StoreConstants, StoreInv, M!Crash
    PROVE  StoreInv'
<1> USE DEF StoreInv
<1>1. /\ at' = [s \in Sessions |-> "idle"] /\ lock' = Nothing
      /\ mem' = M!Load(disk) /\ view' = M!Load(disk)
      /\ UNCHANGED <<backend, disk, op, want, doubt>>
  BY DEF M!Crash
<1>2. Map(M!Load(disk)) BY LoadIsMap DEF StoreTypes
<1>3. StoreTypes' BY <1>1, <1>2 DEF StoreTypes, Map
<1>4. Mutex' BY <1>1 DEF Mutex, M!StoreConstants
<1>5. InFile' BY <1>1 DEF InFile
<1>6. OnDisk' BY <1>1 DEF OnDisk
<1>7. InMemory' BY <1>1 DEF InMemory, OnDisk
<1>8. InView' BY <1>1 DEF InView, OnDisk, M!Keys
<1> QED BY <1>3, <1>4, <1>5, <1>6, <1>7, <1>8

LEMMA StoreStays ==
    ASSUME M!StoreConstants, StoreInv, UNCHANGED M!vars
    PROVE  StoreInv'
BY DEF M!vars, StoreInv, StoreTypes, Mutex, InFile, OnDisk, InMemory, InView, Map

\* The meta stores (embedded.rs, redb_store.rs, service.rs), for any sessions, keys and
\* values, whatever write fails and whenever the process dies: what was acknowledged is
\* on disk, and is what sessions read and the subscriber knows once nobody is writing,
\* but for the two exceptions that put a key in doubt.
THEOREM StoresKeepTheirWord == ASSUME M!StoreConstants PROVE M!Spec => [](M!StoreKeepsWord /\ StoreKeepsWord)
<1>1. StoreInv => M!StoreKeepsWord
  <2> SUFFICES ASSUME StoreInv, NEW k \in M!Keys \ doubt
               PROVE  /\ M!Load(disk)[k] = want[k]
                      /\ ~M!Under(k) => M!Visible[k] = want[k]
                      /\ ~M!Under(k) /\ k \in Bindings => view[k] = want[k]
    BY DEF M!StoreKeepsWord
  <2>1. M!Load(disk)[k] = want[k] BY DEF StoreInv, OnDisk
  <2>2. ASSUME ~M!Under(k) PROVE M!Visible[k] = want[k]
    <3>1. lock # Nothing => op[lock].key # k BY <2>2 DEF M!Under, StoreInv, Mutex
    <3> QED BY <2>1, <3>1 DEF M!Visible, StoreInv, InMemory
  <2>3. ASSUME ~M!Under(k), k \in Bindings PROVE view[k] = want[k]
    BY <2>3 DEF M!Under, StoreInv, InView
  <2> QED BY <2>1, <2>2, <2>3
<1>2. StoreInv /\ [M!Next]_M!vars => StoreInv'
  BY EmbeddedBeginsKeeps, WriteTmpKeeps, RenameKeeps, PersistFailsKeeps, RedbReadsKeeps, RedbCommitsKeeps,
     CommitFailsKeeps, StatementKeeps, EmitKeeps, RestartKeeps, StoreStays DEF M!Next
<1>3. StoreInv => StoreKeepsWord BY <1>1 DEF StoreKeepsWord
<1> QED BY <1>1, <1>2, <1>3, StoreStarts, PTL DEF M!Spec
-----------------------------------------------------------------------------
(* The token cache: what the invariant says.  The cache does not know when *)
(* a token was issued, only when its answer arrived: a request is answered *)
(* within its timeout (Punctual), a token is issued while its request is   *)
(* under way (IssuedWithin), so the cache believes in a token for at most  *)
(* one timeout too long (NearlyRight), and the margin covers that.         *)

TokenCall == [sent : Nat, token : Nat \cup {None}, expires_in : Lifetimes \cup {None}]
CachedToken == [token : Nat, expires_at : Nat]

\* The types of the clock, the cache and the requests.
TokenTypes ==
    /\ now \in Nat
    /\ cached \in CachedToken \cup {None}
    /\ call \in [Callers -> TokenCall \cup {None}]

\* No request outlives its timeout.
Punctual ==
    \A c \in Callers : call[c] # None => call[c].sent <= now /\ now <= call[c].sent + Timeout

\* A token is issued between the sending of its request and now.
IssuedWithin ==
    \A c \in Callers : call[c] # None /\ call[c].token # None =>
        /\ call[c].expires_in \in Lifetimes
        /\ call[c].sent + call[c].expires_in <= call[c].token
        /\ call[c].token <= now + call[c].expires_in

\* The cache overestimates a token's end by at most one timeout.
NearlyRight == cached # None => cached.expires_at <= cached.token + Timeout

TokenInv == TokenTypes /\ Punctual /\ IssuedWithin /\ NearlyRight /\ T!TokenUsable

-----------------------------------------------------------------------------
LEMMA TokenStarts == T!Init => TokenInv
BY DEF T!Init, TokenInv, TokenTypes, Punctual, IssuedWithin, NearlyRight, T!TokenUsable

\* Every step keeps the invariant.
LEMMA TokenStepKeeps == T!TokenAssumption /\ TokenInv /\ [T!Next]_(T!vars) => TokenInv'
<1> SUFFICES ASSUME T!TokenAssumption, TokenInv, [T!Next]_(T!vars) PROVE TokenInv'
  OBVIOUS
<1> USE DEF T!TokenAssumption
<1>1. CASE T!Tick
  <2>1. TokenTypes' BY <1>1 DEF T!Tick, TokenInv, TokenTypes
  <2>2. Punctual' BY <1>1 DEF T!Tick, TokenInv, TokenTypes, Punctual, TokenCall
  <2>3. IssuedWithin'
    <3> SUFFICES ASSUME NEW c \in Callers, call[c] # None, call[c].token # None
                 PROVE  /\ call[c].expires_in \in Lifetimes
                        /\ call[c].sent + call[c].expires_in <= call[c].token
                        /\ call[c].token <= now + 1 + call[c].expires_in
      BY <1>1 DEF T!Tick, IssuedWithin
    <3>1. call[c] \in TokenCall BY DEF TokenInv, TokenTypes
    <3>2. call[c].token \in Nat /\ call[c].sent \in Nat BY <3>1 DEF TokenCall
    <3>3. /\ call[c].expires_in \in Lifetimes
          /\ call[c].sent + call[c].expires_in <= call[c].token
          /\ call[c].token <= now + call[c].expires_in
      BY DEF TokenInv, IssuedWithin
    <3>4. call[c].expires_in \in Nat /\ now \in Nat BY <3>3 DEF TokenInv, TokenTypes
    <3> QED BY <3>2, <3>3, <3>4
  <2>4. NearlyRight' /\ T!TokenUsable' BY <1>1 DEF T!Tick, TokenInv, NearlyRight, T!TokenUsable
  <2> QED BY <2>1, <2>2, <2>3, <2>4 DEF TokenInv
<1>2. ASSUME NEW c \in Callers, T!BearerCached(c) PROVE TokenInv'
  <2>1. cached \in CachedToken BY <1>2 DEF T!BearerCached, TokenInv, TokenTypes
  <2>2. cached.expires_at > now + Margin BY <1>2 DEF T!BearerCached, T!Fresh
  <2>3. cached.token > now BY <2>1, <2>2, <1>2 DEF CachedToken, T!BearerCached, TokenInv, TokenTypes, NearlyRight
  <2>4. T!TokenUsable' BY <2>1, <2>3, <1>2 DEF CachedToken, T!BearerCached, T!TokenUsable, TokenInv, TokenTypes
  <2>5. TokenTypes' /\ Punctual' /\ IssuedWithin' /\ NearlyRight'
    BY <1>2 DEF T!BearerCached, TokenInv, TokenTypes, Punctual, IssuedWithin, NearlyRight
  <2> QED BY <2>4, <2>5 DEF TokenInv
<1>3. ASSUME NEW c \in Callers, T!BearerFetches(c) PROVE TokenInv'
  <2>1. TokenTypes' BY <1>3 DEF T!BearerFetches, TokenInv, TokenTypes, TokenCall
  <2>2. Punctual' BY <1>3 DEF T!BearerFetches, TokenInv, TokenTypes, Punctual, TokenCall
  <2>3. IssuedWithin' BY <1>3 DEF T!BearerFetches, TokenInv, TokenTypes, IssuedWithin, TokenCall
  <2>4. NearlyRight' /\ T!TokenUsable' BY <1>3 DEF T!BearerFetches, TokenInv, NearlyRight, T!TokenUsable
  <2> QED BY <2>1, <2>2, <2>3, <2>4 DEF TokenInv
<1>4. ASSUME NEW c \in Callers, T!Issue(c) PROVE TokenInv'
  <2>1. PICK life \in Lifetimes :
          call' = [call EXCEPT ![c].token = now + life, ![c].expires_in = life]
    BY <1>4 DEF T!Issue
  <2>2. call[c] \in TokenCall BY <1>4 DEF T!Issue, TokenInv, TokenTypes
  <2>3. call'[c] = [sent |-> call[c].sent, token |-> now + life, expires_in |-> life]
    BY <2>1, <2>2 DEF TokenInv, TokenTypes, TokenCall
  <2>4. \A d \in Callers \ {c} : call'[d] = call[d] BY <2>1 DEF TokenInv, TokenTypes
  <2>5. TokenTypes' BY <1>4, <2>1, <2>2, <2>3, <2>4 DEF T!Issue, TokenInv, TokenTypes, TokenCall
  <2>6. Punctual' BY <1>4, <2>2, <2>3, <2>4 DEF T!Issue, TokenInv, TokenTypes, Punctual, TokenCall
  <2>7. IssuedWithin'
    BY <1>4, <2>2, <2>3, <2>4 DEF T!Issue, TokenInv, TokenTypes, Punctual, IssuedWithin, TokenCall
  <2>8. NearlyRight' /\ T!TokenUsable' BY <1>4 DEF T!Issue, TokenInv, NearlyRight, T!TokenUsable
  <2> QED BY <2>5, <2>6, <2>7, <2>8 DEF TokenInv
<1>5. ASSUME NEW c \in Callers, T!Receive(c) PROVE TokenInv'
  <2> DEFINE life == call[c].expires_in
  <2>1. call[c] \in TokenCall /\ call[c].token \in Nat /\ life \in Lifetimes
    BY <1>5 DEF T!Receive, TokenInv, TokenTypes, IssuedWithin, TokenCall
  <2>2. life \in Nat /\ now \in Nat /\ call[c].sent \in Nat
    BY <2>1 DEF TokenInv, TokenTypes, TokenCall
  <2>3. now <= call[c].sent + Timeout /\ call[c].sent + life <= call[c].token
    BY <1>5 DEF T!Receive, TokenInv, Punctual, IssuedWithin
  <2> HIDE DEF life
  <2>4. now + life <= call[c].token + Timeout
    BY <2>1, <2>2, <2>3
  <2>5. cached' \in CachedToken BY <1>5, <2>1, <2>2 DEF T!Receive, CachedToken, life
  <2>6. TokenTypes' BY <1>5, <2>5 DEF T!Receive, TokenInv, TokenTypes
  <2>7. Punctual' /\ IssuedWithin' BY <1>5 DEF T!Receive, TokenInv, TokenTypes, Punctual, IssuedWithin
  <2>8. NearlyRight' BY <1>5, <2>4 DEF T!Receive, NearlyRight, life
  <2>9. call[c].token - now > 0 \/ life <= Timeout
    BY <2>1, <2>4, <2>2
  <2>10. T!TokenUsable' BY <1>5, <2>1, <2>9, <2>2 DEF T!Receive, T!TokenUsable, life
  <2> QED BY <2>6, <2>7, <2>8, <2>10 DEF TokenInv
<1>6. ASSUME NEW c \in Callers, T!FetchFails(c) PROVE TokenInv'
  BY <1>6 DEF T!FetchFails, TokenInv, TokenTypes, Punctual, IssuedWithin, NearlyRight, T!TokenUsable
<1>7. CASE UNCHANGED T!vars
  BY <1>7 DEF T!vars, TokenInv, TokenTypes, Punctual, IssuedWithin, NearlyRight, T!TokenUsable
<1> QED BY <1>1, <1>2, <1>3, <1>4, <1>5, <1>6, <1>7 DEF T!Next

\* bearer (rest/oauth2.rs): whatever the callers, the lifetimes the endpoint
\* states and the order in which slow answers arrive, a token that bearer
\* returns is still accepted by the source, provided the margin of 30 s is at
\* least the timeout of the token request; only a token that lives no longer
\* than that timeout can be dead when it first arrives.
THEOREM TokensUsable == ASSUME T!TokenAssumption PROVE T!Spec => [](T!TokenUsable /\ TokenUsable)
<1>1. T!Init => TokenInv BY TokenStarts
<1>2. TokenInv /\ [T!Next]_(T!vars) => TokenInv' BY TokenStepKeeps
<1>3. TokenInv => T!TokenUsable /\ TokenUsable BY DEF TokenInv, TokenUsable
<1> QED BY <1>1, <1>2, <1>3, PTL DEF T!Spec
=============================================================================
