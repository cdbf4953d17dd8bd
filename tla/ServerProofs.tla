---------------------------- MODULE ServerProofs ----------------------------
(***************************************************************************)
(* Proofs that the server's graceful exit is quiet (QuietExit), for any    *)
(* jobs, background tasks, siblings and attempts per tick, whatever        *)
(* start-up step fails; and that a distributed query never takes a         *)
(* shortened result for a whole one (EndMeansComplete), for any number of  *)
(* batches and slots, whatever fails.                                      *)
(*                                                                         *)
(* The exit waits only for the tasks whose handles BackgroundTasks holds,  *)
(* so the invariant follows the handles through the boot (AllHeld,         *)
(* Spawned), keeps an ended task ended (DrainedInv), and pins a job that   *)
(* retried after the broadcast to the states from which no second backoff  *)
(* is reached (NoSecondBackoff).                                           *)
(*                                                                         *)
(* A reader takes a closed, empty channel for the end of the result.       *)
(* Nothing in the channel says that it is, so the invariant follows the    *)
(* batches from the stream to the reader (Conserved) and the reasons for   *)
(* which the driver closes the channel (ClosedWhy).                        *)
(***************************************************************************)
EXTENDS Server, TLAPS

Leaving == {"broadcast", "draining", "siblings", "exited"}
Serving == Leaving \cup {"serveFlight", "signals", "accepting"}

\* The types the argument rests on.
Types ==
    /\ task \in [Tasks -> {"absent", "watching", "select", "backoff"} \cup InAttempt \cup Ended]
    /\ lateTries \in [Jobs -> 0 .. 2]

\* Once the boot has spawned everything, BackgroundTasks holds every handle.
AllHeld == /\ BootTasks \subseteq held /\ held \subseteq Tasks
           /\ phase \in Serving => held = Tasks

\* By then every task has been spawned.
Spawned ==
    /\ \A t \in BootTasks : task[t] # "absent"
    /\ phase \in Serving \cup {"jobs"} => \A t \in Watchers : task[t] # "absent"
    /\ phase \in Serving => \A t \in Jobs : task[t] # "absent"

\* The accept loop ends with the broadcast, and nothing else sends it.
SentInv == sent <=> phase \in Leaving

\* After the drain every task it waited for has ended, after the exit every
\* sibling too.
DrainedInv == phase \in {"siblings", "exited"} => \A t \in held : task[t] \in Ended
SiblingsInv == phase = "exited" => \A s \in Siblings : sib[s] = "done"

\* A job that retried after the broadcast is never in a backoff again.
NoSecondBackoff ==
    \A j \in Jobs : lateTries[j] > 0 => sent /\ lateTries[j] = 1 /\ task[j] # "backoff"

IInv == Types /\ AllHeld /\ Spawned /\ SentInv /\ DrainedInv /\ SiblingsInv /\ NoSecondBackoff

-----------------------------------------------------------------------------
LEMMA InitHolds == Init => IInv
<1> SUFFICES ASSUME Init PROVE IInv
  OBVIOUS
<1> USE DEF Init, Tasks, Serving, Leaving
<1>1. Types BY DEF Types
<1>2. AllHeld BY DEF AllHeld
<1>3. Spawned BY DEF Spawned
<1>4. SentInv BY DEF SentInv
<1>5. DrainedInv BY DEF DrainedInv
<1>6. SiblingsInv BY DEF SiblingsInv
<1>7. NoSecondBackoff BY DEF NoSecondBackoff
<1> QED BY <1>1, <1>2, <1>3, <1>4, <1>5, <1>6, <1>7 DEF IInv

\* A failed start-up step: everything that is held is aborted.
LEMMA AbortAllHolds ==
    ASSUME IInv, AbortAll, ~(phase \in Leaving)
    PROVE  IInv'
BY DEF AbortAll, Aborted, IInv, Types, AllHeld, Spawned, SentInv, DrainedInv, SiblingsInv, NoSecondBackoff,
       Serving, Leaving, jobVars, InAttempt, Ended, Tasks

\* The boot: handles are handed over before the accept loop begins.
LEMMA BootHolds == IInv /\ Boot => IInv'
<1> SUFFICES ASSUME IInv, Boot PROVE IInv'
  OBVIOUS
<1> USE DEF IInv, Types, AllHeld, Spawned, SentInv, DrainedInv, SiblingsInv, NoSecondBackoff, Serving, Leaving,
            jobVars, history, Tasks
<1>1. CASE BindFlight
  BY <1>1, AbortAllHolds DEF BindFlight
<1>2. CASE StartForeground
  BY <1>2, AbortAllHolds DEF StartForeground
<1>3. CASE SpawnWatchers
  BY <1>3, AbortAllHolds DEF SpawnWatchers
<1>4. CASE SpawnJobs
  BY <1>4, AbortAllHolds DEF SpawnJobs, Extend
<1>5. CASE ServeFlight
  BY <1>5 DEF ServeFlight, Serve
<1>6. CASE InstallSignals
  BY <1>6 DEF InstallSignals, Serve
<1> QED
  BY <1>1, <1>2, <1>3, <1>4, <1>5, <1>6 DEF Boot

\* The shutdown: the drain waits for every handle, or aborts the task.
LEMMA ShutdownHolds == IInv /\ (Terminate \/ Shutdown) => IInv'
<1> SUFFICES ASSUME IInv, Terminate \/ Shutdown PROVE IInv'
  OBVIOUS
<1> USE DEF IInv, Types, AllHeld, Spawned, SentInv, DrainedInv, SiblingsInv, NoSecondBackoff, Serving, Leaving,
            jobVars, history
<1>1. CASE Terminate
  BY <1>1 DEF Terminate
<1>2. CASE Broadcast
  BY <1>2 DEF Broadcast
<1>3. CASE DrainTimeout
  BY <1>3 DEF DrainTimeout, TimedOut, Aborted, Ended, InAttempt, Tasks
<1>4. CASE Drained
  BY <1>4 DEF Drained
<1>5. CASE Exit
  BY <1>5 DEF Exit
<1> QED
  BY <1>1, <1>2, <1>3, <1>4, <1>5 DEF Shutdown

\* A job: it leaves Ended alone, and goes to a backoff only before the broadcast.
LEMMA JobHolds ==
    ASSUME IInv, Running, NEW j \in Jobs, Tick(j) \/ JobStep(j) \/ AttemptStep(j)
    PROVE  IInv'
<1> USE DEF IInv, Types, AllHeld, Spawned, SentInv, DrainedInv, SiblingsInv, NoSecondBackoff, Serving, Leaving,
            jobVars, history, Tasks, Ended, InAttempt
<1>1. CASE Tick(j)
  BY <1>1 DEF Tick
<1>2. CASE Stop(j)
  BY <1>2 DEF Stop
<1>3. CASE Refresh(j)
  BY <1>3 DEF Refresh
<1>4. CASE Stage(j)
  BY <1>4 DEF Stage
<1>5. CASE AttemptSucceeds(j)
  BY <1>5 DEF AttemptSucceeds
<1>6. CASE AttemptFails(j)
  BY <1>6 DEF AttemptFails, AfterFailure, Told
<1>7. CASE SleepEnds(j)
  BY <1>7 DEF SleepEnds
<1>8. CASE Retry(j)
  BY <1>8 DEF Retry
<1> QED
  BY <1>1, <1>2, <1>3, <1>4, <1>5, <1>6, <1>7, <1>8 DEF JobStep, AttemptStep

\* A sibling: once done it stays done.
LEMMA SiblingHolds ==
    ASSUME IInv, Running, NEW s \in Siblings, RequestStarts(s) \/ RequestEnds(s) \/ SiblingStep(s)
    PROVE  IInv'
BY DEF IInv, Types, AllHeld, Spawned, SentInv, DrainedInv, SiblingsInv, NoSecondBackoff, jobVars, history,
       Running, RequestStarts, RequestEnds, SiblingStep, SiblingCloses, SiblingDone

LEMMA NextHolds == IInv /\ [Next]_vars => IInv'
<1> SUFFICES ASSUME IInv, [Next]_vars PROVE IInv'
  OBVIOUS
<1>1. CASE UNCHANGED vars
  BY <1>1 DEF vars, jobVars, history, IInv, Types, AllHeld, Spawned, SentInv, DrainedInv, SiblingsInv,
     NoSecondBackoff
<1> QED
  BY <1>1, BootHolds, ShutdownHolds, JobHolds, SiblingHolds DEF Next, Over

-----------------------------------------------------------------------------
\* When run returns gracefully no background task and no sibling is left, and no
\* job began a second retry after the broadcast, whatever failed on the way.
THEOREM ExitIsQuiet == Spec => []QuietExit
<1>1. IInv => QuietExit
  BY DEF IInv, Types, AllHeld, DrainedInv, SiblingsInv, NoSecondBackoff, QuietExit, AtMostOneLateRetry,
         Serving, Leaving
<1> QED
  BY <1>1, InitHolds, NextHolds, PTL DEF Spec

-----------------------------------------------------------------------------
(* A distributed query.                                                    *)

\* A batch is with the stream, with the driver, in the channel or received; one that is
\* none of these was dropped because its reader had left.
InHand == IF driver = "sendBatch" THEN 1 ELSE 0
Conserved ==
    /\ received + chan.batches + InHand <= yielded
    /\ consumer # "gone" => received + chan.batches + InHand = yielded

\* A job is submitted once, so one that has completed stays so.
SubmittedOnce == answer = "none" => job = "absent"

\* The driver ends, and closes the channel, after the last batch of a completed job,
\* after an error, or because its reader has left.
Whole == job = "completed" /\ yielded = Batches
ClosedWhy ==
    /\ driver \in {"resolving", "cancelling"} => consumer = "gone"
    /\ driver = "fetching" => Whole
    /\ driver = "done" => Whole \/ chan.error \/ consumer = "gone"
    /\ chan.error => driver = "done"
    /\ consumer = "ended" => driver = "done" /\ chan.batches = 0 /\ ~chan.error

QueryInv == D!TypeOK /\ Conserved /\ SubmittedOnce /\ ClosedWhy

\* Every step of the driver, the reader, the scheduler and the faults keeps QueryInv.
LEMMA QueryInductive ==
    ASSUME D!DistributedBounds
    PROVE  QueryInv /\ [D!Next]_(D!vars) => QueryInv'
  <1> SUFFICES ASSUME QueryInv, [D!Next]_(D!vars) PROVE QueryInv'
    OBVIOUS
  <1>0. /\ Batches \in Nat /\ Slots \in Nat /\ yielded \in Nat /\ received \in Nat /\ chan.batches \in Nat
        /\ chan \in [batches : 0 .. Slots, error : BOOLEAN] /\ chan.error \in BOOLEAN
    BY DEF QueryInv, D!TypeOK, D!DistributedBounds
  <1> USE <1>0 DEF QueryInv, D!TypeOK, Conserved, InHand, SubmittedOnce, ClosedWhy, Whole, D!Goto, D!Fault
  <1>1. CASE D!Submit BY <1>1 DEF D!Submit, D!Polled
  <1>2. CASE D!SubmitRefused BY <1>2 DEF D!SubmitRefused, D!Polled
  <1>3. CASE D!SubmitAnswered BY <1>3 DEF D!SubmitAnswered, D!Polled
  <1>4. CASE D!JobEnds BY <1>4 DEF D!JobEnds
  <1>5. CASE D!Abandon BY <1>5 DEF D!Abandon, D!Abandonable
  <1>6. CASE D!DriveBatch BY <1>6 DEF D!DriveBatch, D!NextYields
  <1>7. CASE D!DriveError BY <1>7 DEF D!DriveError, D!OnError
  <1>8. CASE D!DriveEnd BY <1>8 DEF D!DriveEnd, D!NextEnds, D!OnEnd
  <1>9. CASE D!SendBatch BY <1>9 DEF D!SendBatch, D!Full
  <1>10. CASE D!SendError BY <1>10 DEF D!SendError
  <1>11. CASE D!Fetched BY <1>11 DEF D!Fetched
  <1>12. CASE D!Resolved BY <1>12 DEF D!Resolved
  <1>13. CASE D!NothingToCancel BY <1>13 DEF D!NothingToCancel
  <1>14. CASE D!CancelJob BY <1>14 DEF D!CancelJob
  <1>15. CASE D!Receive BY <1>15 DEF D!Receive
  <1>16. CASE D!ReceiveError BY <1>16 DEF D!ReceiveError
  <1>17. CASE D!ReceiveEnd BY <1>17 DEF D!ReceiveEnd, D!Closed
  <1>18. CASE D!ConsumerDrops BY <1>18 DEF D!ConsumerDrops
  <1>19. CASE D!AnswerLost BY <1>19 DEF D!AnswerLost, D!Polled
  <1>20. CASE D!StatusLost BY <1>20 DEF D!StatusLost, D!Polled
  <1>21. CASE D!GiveUp BY <1>21 DEF D!GiveUp
  <1>22. CASE D!CancelFails BY <1>22 DEF D!CancelFails
  <1>23. CASE D!ProcessExits BY <1>23 DEF D!ProcessExits
  <1>24. CASE UNCHANGED D!vars BY <1>24 DEF D!vars
  <1> QED
    BY <1>1, <1>2, <1>3, <1>4, <1>5, <1>6, <1>7, <1>8, <1>9, <1>10, <1>11, <1>12, <1>13, <1>14, <1>15,
       <1>16, <1>17, <1>18, <1>19, <1>20, <1>21, <1>22, <1>23, <1>24
    DEF D!Next, D!Ballista, D!Driver, D!Canceller, D!Trouble, D!Reader

\* cancel_on_drop.rs: for any number of batches, any capacity of the channel and
\* whatever fails, wherever the reader leaves or the process ends: a reader that sees
\* the end of the stream has received every batch of a job that completed.
THEOREM EndIsComplete ==
    ASSUME D!DistributedBounds
    PROVE  D!Spec => [](D!EndMeansComplete /\ EndMeansComplete)
  <1>1. ASSUME D!Init PROVE QueryInv
    <2>1. /\ driver = "select" /\ job = "absent" /\ answer = "none" /\ id = FALSE /\ yielded = 0
          /\ chan = [batches |-> 0, error |-> FALSE] /\ consumer = "reading" /\ received = 0 /\ hit = {}
      BY <1>1 DEF D!Init
    <2>2. chan.batches = 0 /\ chan.error = FALSE
      BY <2>1
    <2>3. D!TypeOK
      <3>1. 0 \in 0 .. Batches /\ 0 \in 0 .. Slots
        BY DEF D!DistributedBounds
      <3>2. chan \in [batches : 0 .. Slots, error : BOOLEAN]
        BY <2>1, <3>1
      <3> QED BY <2>1, <3>1, <3>2 DEF D!TypeOK
    <2>4. Conserved /\ SubmittedOnce /\ ClosedWhy
      BY <2>1, <2>2 DEF Conserved, InHand, SubmittedOnce, ClosedWhy
    <2> QED BY <2>3, <2>4 DEF QueryInv
  <1>2. QueryInv => D!EndMeansComplete
    <2> SUFFICES ASSUME QueryInv, consumer = "ended" PROVE job = "completed" /\ received = Batches
      BY DEF D!EndMeansComplete
    <2>1. driver = "done" /\ chan.batches = 0 /\ job = "completed" /\ yielded = Batches
      BY DEF QueryInv, ClosedWhy, Whole
    <2>2. received + 0 + 0 = yielded /\ received \in Nat
      BY <2>1 DEF QueryInv, Conserved, InHand, D!TypeOK
    <2> QED BY <2>1, <2>2
  <1>3. QueryInv => EndMeansComplete
    BY <1>2 DEF EndMeansComplete
  <1> QED
    BY <1>1, <1>2, <1>3, QueryInductive, PTL DEF D!Spec
=============================================================================
