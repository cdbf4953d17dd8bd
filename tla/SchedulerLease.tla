--------------------------- MODULE SchedulerLease ---------------------------
(***************************************************************************)
(* Leader election of the distributed-execution schedulers through one     *)
(* object in an object store (crates/dataglot-ballista/src/ha.rs) and the  *)
(* loop that serves while it holds the lease (run_scheduler_ha in          *)
(* scheduler.rs).                                                          *)
(*                                                                         *)
(* A request is sent in one action and takes effect, with its reply, in a  *)
(* later one: time and other schedulers move in between.  Time is a global *)
(* clock; each scheduler reads it with its own skew.                       *)
(***************************************************************************)
EXTENDS Integers

CONSTANTS
    Schedulers,
    Skew,           \* Skew[s]: how far the clock of s is ahead
    MaxSkew,        \* the largest difference between two clocks
    LeaseDuration,  \* --ha-lease-duration-secs
    Heartbeat,      \* --ha-heartbeat-interval-secs
    MaxDelay,       \* the longest a request to the object store takes
    MaxTime,        \* bound of the clock
    MaxFaults,      \* how many requests may fail
    MaxExits        \* how many times a scheduler process may end

\* The leader must beat more often than its lease runs out.
ValidTiming == Heartbeat > 0 /\ Heartbeat < LeaseDuration
TimingAssumption ==
    /\ LeaseDuration \in Nat /\ Heartbeat \in Nat /\ MaxDelay \in Nat
    /\ MaxTime \in Nat /\ MaxSkew \in Nat
    /\ ValidTiming
    /\ MaxDelay <= Heartbeat
SkewAssumption ==
    /\ Skew \in [Schedulers -> Int]
    /\ \A s, o \in Schedulers : Skew[s] - Skew[o] <= MaxSkew
BudgetAssumption == MaxFaults \in Nat /\ MaxExits \in Nat

VARIABLES
    now,        \* the global clock
    lease,      \* the lease object
    mode,       \* where each scheduler is in its loop
    req,        \* the request under way: when its reply is due, the expires_at
                \* of its payload, the stale_etag of a steal
    term,       \* of a leader: current_etag and last_successful_heartbeat
    wake,       \* end of the sleep, or the next tick of the heartbeat interval
    faults, exits,
    stolenAt,   \* history: when the lease last changed hands, while a leader does not know
    vacantSince \* history: since when nobody serves and no process came or went

vars == <<now, lease, mode, req, term, wake, faults, exits, stolenAt, vacantSince>>

NoLease == [etag |-> 0, expires |-> 0]
NoRequest == [due |-> 0, expires |-> 0, stale |-> 0]
NoTerm == [etag |-> 0, lastOk |-> 0]
Requests == {"creating", "reading", "stealing", "rereading", "beating"}
Modes == Requests \cup {"waiting", "serving", "down"}
Serving(s) == mode[s] \in {"serving", "beating"}
Alive(s) == mode[s] # "down"
Held == lease # NoLease
\* s serves although the lease object is no longer the one it wrote.
Superseded(s) == Serving(s) /\ term[s].etag # lease.etag

LocalNow(s) == now + Skew[s]
\* Mutant: the lease is good for a heartbeat interval.
FreshExpiry_Heartbeat(s) == LocalNow(s) + Heartbeat
\* fresh_payload, stamped before the request is sent.
FreshExpiry(s) == LocalNow(s) + LeaseDuration

\* Etags are fresh: every write to the object gets the next one.
Written(s) == [etag |-> lease.etag + 1, expires |-> req[s].expires]

-----------------------------------------------------------------------------
Send(s, request, expiry, etag) ==
    /\ mode' = [mode EXCEPT ![s] = request]
    /\ req' = [req EXCEPT ![s] = [due |-> now + MaxDelay, expires |-> expiry,
                                  stale |-> etag]]

\* Back to the claim loop, after a sleep of d.
SleepFor(s, d) == /\ mode' = [mode EXCEPT ![s] = "waiting"]
                  /\ wake' = [wake EXCEPT ![s] = now + d]
                  /\ req' = [req EXCEPT ![s] = NoRequest]
                  /\ term' = [term EXCEPT ![s] = NoTerm]

Fault == faults < MaxFaults /\ faults' = faults + 1

\* A write of s was answered: it leads with the etag of the object it wrote.
Lead(s) ==
    /\ mode' = [mode EXCEPT ![s] = "serving"]
    /\ req' = [req EXCEPT ![s] = NoRequest]
    /\ term' = [term EXCEPT ![s] = [etag |-> lease'.etag, lastOk |-> now]]

\* Acquired: the scheduler task is spawned and the heartbeat ticker started.
StartTerm(s) == Lead(s) /\ wake' = [wake EXCEPT ![s] = now + Heartbeat]

\* History variables of a step that changes modes.
Record(change) ==
    /\ stolenAt' = IF ~\E s \in Schedulers : Superseded(s)' THEN 0
                   ELSE IF change THEN now ELSE stolenAt
    /\ vacantSince' = IF \E s \in Schedulers : Serving(s)' THEN now ELSE vacantSince

-----------------------------------------------------------------------------
(* try_claim.                                                               *)

StartClaim(s) ==
    /\ mode[s] = "waiting"
    /\ now >= wake[s]
    /\ Send(s, "creating", FreshExpiry(s), 0)
    /\ wake' = [wake EXCEPT ![s] = 0]
    /\ UNCHANGED <<now, lease, term, faults, exits>>
    /\ Record(FALSE)

\* The write of a claim took effect: leadership, or a lost reply.
Claimed(s) ==
    /\ lease' = Written(s)
    /\ \/ StartTerm(s) /\ UNCHANGED faults
       \/ Fault /\ SleepFor(s, Heartbeat)
    /\ Record(TRUE)

\* The claim failed before it changed anything.
ClaimFailed(s) ==
    /\ Fault
    /\ SleepFor(s, Heartbeat)
    /\ UNCHANGED lease
    /\ Record(FALSE)

\* PutMode::Create.
CreateReply(s) ==
    /\ mode[s] = "creating"
    /\ \/ ~Held /\ Claimed(s)
       \/ /\ Held
          /\ Send(s, "reading", 0, 0)
          /\ UNCHANGED <<lease, term, wake, faults>>
          /\ Record(FALSE)
       \/ ClaimFailed(s)
    /\ UNCHANGED <<now, exits>>

\* A lease is stealable once it is not in the future on the reader's clock.
Stealable(s) == ~(lease.expires > LocalNow(s))

\* read_payload and the decision to steal.
ReadReply(s) ==
    /\ mode[s] = "reading"
    /\ \/ /\ ~Stealable(s)
          /\ SleepFor(s, Heartbeat)
          /\ UNCHANGED <<lease, faults>>
          /\ Record(FALSE)
       \/ /\ Stealable(s)
          /\ Send(s, "stealing", FreshExpiry(s), lease.etag)
          /\ UNCHANGED <<lease, term, wake, faults>>
          /\ Record(FALSE)
       \/ ClaimFailed(s)
    /\ UNCHANGED <<now, exits>>

\* PutMode::Update with the etag that was read.
StealReply(s) ==
    /\ mode[s] = "stealing"
    /\ \/ lease.etag = req[s].stale /\ Claimed(s)
       \/ /\ lease.etag # req[s].stale
          /\ Send(s, "rereading", 0, 0)
          /\ UNCHANGED <<lease, term, wake, faults>>
          /\ Record(FALSE)
       \/ ClaimFailed(s)
    /\ UNCHANGED <<now, exits>>

\* The loser reads the new holder, only to report it.
RereadReply(s) ==
    /\ mode[s] = "rereading"
    /\ SleepFor(s, Heartbeat)
    /\ UNCHANGED faults \/ Fault
    /\ UNCHANGED <<now, lease, exits>>
    /\ Record(FALSE)

-----------------------------------------------------------------------------
(* The heartbeat of the leader.                                             *)

SendHeartbeat(s) ==
    /\ mode[s] = "serving"
    /\ now >= wake[s]
    /\ Send(s, "beating", FreshExpiry(s), 0)
    /\ wake' = [wake EXCEPT ![s] = @ + Heartbeat]
    /\ UNCHANGED <<now, lease, term, faults, exits>>
    /\ Record(FALSE)

\* scheduler_task.abort(), half a second for the port, then the claim loop again
\* (the pause is below the unit of the clock).
StepDown(s) == SleepFor(s, 0)

\* A failed heartbeat ends the term once a whole lease passed without a success.
AfterBackendError(s) ==
    \/ /\ now - term[s].lastOk >= LeaseDuration
       /\ StepDown(s)
    \/ /\ now - term[s].lastOk < LeaseDuration
       /\ mode' = [mode EXCEPT ![s] = "serving"]
       /\ req' = [req EXCEPT ![s] = NoRequest]
       /\ UNCHANGED <<term, wake>>

\* Mutant: the heartbeat overwrites the lease whoever holds it.
Matches_Unconditional(s) == TRUE
\* PutMode::Update compares the stored etag with the leader's token.
Matches(s) == lease.etag = term[s].etag

HeartbeatReply(s) ==
    /\ mode[s] = "beating"
    /\ \/ /\ Matches(s)
          /\ lease' = Written(s)
          /\ \/ Lead(s) /\ UNCHANGED <<wake, faults>>
             \/ Fault /\ AfterBackendError(s)
       \/ /\ ~Matches(s)
          /\ StepDown(s)
          /\ UNCHANGED <<lease, faults>>
       \/ /\ Fault
          /\ AfterBackendError(s)
          /\ UNCHANGED lease
    /\ Record(FALSE)
    /\ UNCHANGED <<now, exits>>

-----------------------------------------------------------------------------
\* The process dies, or its scheduler task ends and takes the loop with it.
Exit(s) ==
    /\ Alive(s)
    /\ exits < MaxExits
    /\ exits' = exits + 1
    /\ mode' = [mode EXCEPT ![s] = "down"]
    /\ req' = [req EXCEPT ![s] = NoRequest]
    /\ term' = [term EXCEPT ![s] = NoTerm]
    /\ wake' = [wake EXCEPT ![s] = 0]
    /\ UNCHANGED <<now, lease, faults>>
    /\ stolenAt' = IF ~\E o \in Schedulers : Superseded(o)' THEN 0 ELSE stolenAt
    /\ vacantSince' = now

Restart(s) ==
    /\ mode[s] = "down"
    /\ SleepFor(s, 0)
    /\ vacantSince' = now
    /\ UNCHANGED <<now, lease, faults, exits, stolenAt>>

\* Timers fire and replies arrive when they are due.
Overdue(s) == \/ mode[s] \in Requests /\ now >= req[s].due
              \/ mode[s] \in {"waiting", "serving"} /\ now >= wake[s]
Tick ==
    /\ now < MaxTime
    /\ \A s \in Schedulers : ~Overdue(s)
    /\ now' = now + 1
    /\ vacantSince' = IF \E s \in Schedulers : Serving(s) THEN now' ELSE vacantSince
    /\ UNCHANGED <<lease, mode, req, term, wake, faults, exits, stolenAt>>

Init ==
    /\ now = 0
    /\ lease = NoLease
    /\ mode = [s \in Schedulers |-> "waiting"]
    /\ req = [s \in Schedulers |-> NoRequest]
    /\ term = [s \in Schedulers |-> NoTerm]
    /\ wake = [s \in Schedulers |-> 0]
    /\ faults = 0 /\ exits = 0
    /\ stolenAt = 0 /\ vacantSince = 0

Step(s) ==
    \/ StartClaim(s) \/ CreateReply(s) \/ ReadReply(s) \/ StealReply(s)
    \/ RereadReply(s) \/ SendHeartbeat(s) \/ HeartbeatReply(s)
    \/ Exit(s) \/ Restart(s)

Next == (\E s \in Schedulers : Step(s)) \/ Tick
Spec == Init /\ [][Next]_vars

-----------------------------------------------------------------------------
\* Every variable has its type; timers and replies are at most one interval, or
\* one request, ahead of the clock.
TypeOK ==
    /\ now \in 0..MaxTime
    /\ lease \in [etag : Nat, expires : Int]
    /\ mode \in [Schedulers -> Modes]
    /\ req \in [Schedulers -> [due : 0..(now + MaxDelay), expires : Int, stale : Nat]]
    /\ wake \in [Schedulers -> 0..(now + Heartbeat)]
    /\ term \in [Schedulers -> [etag : Nat, lastOk : Nat]]
    /\ faults \in Nat /\ exits \in Nat
    /\ stolenAt \in Nat /\ vacantSince \in Nat

\* While every request is answered, a leader never loses its lease to another
\* scheduler, provided that two requests and a heartbeat interval fit into a
\* lease with the clock skew to spare.
HealthyLeaderKeepsLease ==
    faults = 0 /\ 2 * MaxDelay + Heartbeat + MaxSkew < LeaseDuration
        => \A s \in Schedulers : ~Superseded(s)

\* Two schedulers serve at the same time for a bounded while only: the one that
\* lost the lease stops within a heartbeat interval, two requests and the skew,
\* whatever its heartbeats meet.
SplitBrainBounded ==
    \A s, o \in Schedulers :
        s # o /\ Serving(s) /\ Serving(o)
            => now <= stolenAt + Heartbeat + 2 * MaxDelay + MaxSkew

\* As long as a process lives and every request is answered, some scheduler
\* serves within a lease (and the time to notice) after a leader died.
VacancyBounded ==
    faults = 0 /\ (\E s \in Schedulers : Alive(s))
        => now <= vacantSince + LeaseDuration + MaxSkew + Heartbeat + 4 * MaxDelay

\* Leadership neither overlaps nor lapses for longer than the protocol needs.
LeadershipBounded == SplitBrainBounded /\ VacancyBounded

\* "Step down before a competing scheduler can claim it and create a split-brain
\* window": never two schedulers serve.
NoSplitBrain ==
    \A s, o \in Schedulers : Serving(s) /\ Serving(o) => s = o
=============================================================================
