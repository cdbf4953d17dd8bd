-------------------------- MODULE DistributedQuery --------------------------
(***************************************************************************)
(* A distributed query of dataglot-ballista (cancel_on_drop.rs): the       *)
(* driver task that owns the result stream of the Ballista job, the        *)
(* two-slot channel to the consumer, and what happens when the consumer    *)
(* abandons the query: the job id is driven out of the submission and      *)
(* CancelJob is sent to the scheduler.                                     *)
(*                                                                         *)
(* Ballista's scheduler and its stream are external: the stream submits    *)
(* the job on its first poll, yields the batches, and ends or fails.  A    *)
(* query's steps are independent of other queries', so one query is        *)
(* modelled.                                                               *)
(***************************************************************************)
EXTENDS Naturals

CONSTANTS
    Batches,  \* bound: batches the job's result has
    Slots,    \* capacity of the channel
    Capture,  \* the settings of the dashboard's capture of pushdown metrics
    Faults    \* what the network and the process may do

AllFaults == {"lateId", "lostAnswer", "rpc", "statusLost", "exit"}

DistributedBounds ==
    /\ Batches \in Nat /\ Slots \in Nat \ {0}
    /\ Capture \subseteq BOOLEAN /\ Faults \subseteq AllFaults

VARIABLES
    driver,    \* the driver task
    job,       \* the job at the scheduler
    answer,    \* the ExecuteQuery call
    id,        \* the job id is in the plan's slot
    yielded,   \* batches the stream has yielded
    chan,      \* items in the channel: a count of batches, an error at the end
    consumer,  \* the consumer
    received,  \* batches the consumer has taken
    hit        \* history: the faults that have happened

vars == <<driver, job, answer, id, yielded, chan, consumer, received, hit>>

\* The type of every variable: the channel holds at most its capacity.
TypeOK ==
    /\ driver \in {"select", "sendBatch", "sendError", "resolving", "cancelling", "fetching", "done"}
    /\ job \in {"absent", "running", "completed", "failed", "cancelled"}
    /\ answer \in {"none", "pending", "arrived", "error"}
    /\ id \in BOOLEAN
    /\ yielded \in 0 .. Batches
    /\ chan \in [batches : 0 .. Slots, error : BOOLEAN]
    /\ consumer \in {"reading", "ended", "error", "gone"}
    /\ received \in 0 .. Batches /\ hit \subseteq Faults

Init ==
    /\ driver = "select" /\ job = "absent" /\ answer = "none" /\ id = FALSE
    /\ yielded = 0 /\ chan = [batches |-> 0, error |-> FALSE]
    /\ consumer = "reading" /\ received = 0 /\ hit = {}

Fault(f) == f \in Faults /\ hit' = hit \cup {f}

\* Someone polls the stream, so an ExecuteQuery call goes out or comes back.
Polled == driver \in {"select", "resolving"}
Full == chan.batches = Slots

-----------------------------------------------------------------------------
(* Ballista (external).                                                    *)

\* The first poll sends ExecuteQuery, and the scheduler starts the job.
Submit ==
    /\ Polled /\ answer = "none"
    /\ answer' = "pending" /\ job' = "running"
    /\ UNCHANGED <<driver, id, yielded, chan, consumer, received, hit>>

\* The scheduler refuses the plan: there is no job.
SubmitRefused ==
    /\ Polled /\ answer = "none"
    /\ answer' = "error"
    /\ UNCHANGED <<driver, job, id, yielded, chan, consumer, received, hit>>

\* The answer arrives, with the job id.
SubmitAnswered ==
    /\ Polled /\ answer = "pending"
    /\ answer' = "arrived" /\ id' = TRUE
    /\ UNCHANGED <<driver, job, yielded, chan, consumer, received, hit>>

\* The answer is lost although the scheduler runs the job.
AnswerLost ==
    /\ Fault("lostAnswer") /\ Polled /\ answer = "pending"
    /\ answer' = "error"
    /\ UNCHANGED <<driver, job, id, yielded, chan, consumer, received>>

\* A poll of the job's status fails although the job runs on.
StatusLost ==
    /\ Fault("statusLost") /\ Polled /\ answer = "arrived"
    /\ answer' = "error"
    /\ UNCHANGED <<driver, job, id, yielded, chan, consumer, received>>

JobEnds ==
    /\ job = "running"
    /\ job' \in {"completed", "failed"}
    /\ UNCHANGED <<driver, answer, id, yielded, chan, consumer, received, hit>>

\* What the stream's next() gives: an error, a batch of a completed job, or its end.
NextFails == answer = "error" \/ (id /\ job \in {"failed", "cancelled"})
NextYields == answer = "arrived" /\ job = "completed" /\ yielded < Batches
NextEnds == answer = "arrived" /\ job = "completed" /\ yielded = Batches

-----------------------------------------------------------------------------
(* The driver task.                                                        *)

Goto(d) == driver' = d

\* The consumer is gone, seen by tx.closed() or by a send that fails.
Abandonable_OnSendOnly == {"sendBatch", "sendError"}   \* mutant: no closed() branch
Abandonable == {"select", "sendBatch", "sendError"}
Abandon ==
    /\ driver \in Abandonable /\ consumer = "gone"
    /\ Goto("resolving")
    /\ UNCHANGED <<job, answer, id, yielded, chan, consumer, received, hit>>

DriveBatch ==
    /\ driver = "select" /\ NextYields
    /\ yielded' = yielded + 1
    /\ Goto("sendBatch")
    /\ UNCHANGED <<job, answer, id, chan, consumer, received, hit>>

OnError_Swallowed == "fetching"   \* mutant: an error ends the loop as the natural end does
OnError == "sendError"
DriveError ==
    /\ driver = "select" /\ NextFails
    /\ Goto(OnError)
    /\ UNCHANGED <<job, answer, id, yielded, chan, consumer, received, hit>>

\* The natural end: the metrics are fetched when the dashboard captures them.
OnEnd(capture) == IF capture THEN "fetching" ELSE "done"
DriveEnd ==
    /\ driver = "select" /\ NextEnds
    /\ \E capture \in Capture : Goto(OnEnd(capture))
    /\ UNCHANGED <<job, answer, id, yielded, chan, consumer, received, hit>>

\* A send waits for a slot; an error is the last item.
SendBatch ==
    /\ driver = "sendBatch" /\ consumer = "reading" /\ ~Full
    /\ chan' = [chan EXCEPT !.batches = @ + 1]
    /\ Goto("select")
    /\ UNCHANGED <<job, answer, id, yielded, consumer, received, hit>>
SendError ==
    /\ driver = "sendError" /\ consumer = "reading" /\ ~Full
    /\ chan' = [chan EXCEPT !.error = TRUE]
    /\ Goto("done")
    /\ UNCHANGED <<job, answer, id, yielded, consumer, received, hit>>

\* fetch_and_record_pushdown_metrics, whatever it comes to.
Fetched ==
    /\ driver = "fetching"
    /\ Goto("done")
    /\ UNCHANGED <<job, answer, id, yielded, chan, consumer, received, hit>>

-----------------------------------------------------------------------------
(* cancel_abandoned_job.                                                   *)

\* The id is known.
Resolved ==
    /\ driver = "resolving" /\ id
    /\ Goto("cancelling")
    /\ UNCHANGED <<job, answer, id, yielded, chan, consumer, received, hit>>

\* The submission failed before there was an id: "no job to cancel".  (A stream that
\* ends has an id.)
NothingToCancel ==
    /\ driver = "resolving" /\ ~id /\ NextFails
    /\ Goto("done")
    /\ UNCHANGED <<job, answer, id, yielded, chan, consumer, received, hit>>

\* The 30 s deadline.
GiveUp ==
    /\ driver = "resolving" /\ ~id /\ Fault("lateId")
    /\ Goto("done")
    /\ UNCHANGED <<job, answer, id, yielded, chan, consumer, received>>

\* CancelJob: a job that has ended stays as it is.
CancelJob ==
    /\ driver = "cancelling"
    /\ job' = IF job = "running" THEN "cancelled" ELSE job
    /\ Goto("done")
    /\ UNCHANGED <<answer, id, yielded, chan, consumer, received, hit>>
CancelFails ==
    /\ driver = "cancelling" /\ Fault("rpc")
    /\ Goto("done")
    /\ UNCHANGED <<job, answer, id, yielded, chan, consumer, received>>

\* The process exits: the task is dropped wherever it is, and the consumer with it.
ProcessExits ==
    /\ Fault("exit") /\ driver # "done"
    /\ Goto("done") /\ consumer' = "gone"
    /\ UNCHANGED <<job, answer, id, yielded, chan, received>>

-----------------------------------------------------------------------------
(* The consumer: ChannelBatchStream.                                       *)

Receive ==
    /\ consumer = "reading" /\ chan.batches > 0
    /\ chan' = [chan EXCEPT !.batches = @ - 1]
    /\ received' = received + 1
    /\ UNCHANGED <<driver, job, answer, id, yielded, consumer, hit>>
ReceiveError ==
    /\ consumer = "reading" /\ chan.batches = 0 /\ chan.error
    /\ consumer' = "error"
    /\ UNCHANGED <<driver, job, answer, id, yielded, chan, received, hit>>

\* The channel is closed when the driver task, which owns the sender, has ended.
Closed == driver = "done"
ReceiveEnd ==
    /\ consumer = "reading" /\ chan.batches = 0 /\ ~chan.error /\ Closed
    /\ consumer' = "ended"
    /\ UNCHANGED <<driver, job, answer, id, yielded, chan, received, hit>>

\* A pgwire cancel, a dropped connection, a LIMIT that has enough.
ConsumerDrops ==
    /\ consumer = "reading"
    /\ consumer' = "gone"
    /\ UNCHANGED <<driver, job, answer, id, yielded, chan, received, hit>>

Ballista == Submit \/ SubmitRefused \/ SubmitAnswered
Driver == Abandon \/ DriveBatch \/ DriveError \/ DriveEnd \/ SendBatch \/ SendError
Canceller == Resolved \/ NothingToCancel \/ CancelJob
Trouble == AnswerLost \/ StatusLost \/ GiveUp \/ CancelFails \/ ProcessExits
Reader == Receive \/ ReceiveError \/ ReceiveEnd

Next ==
    \/ Ballista \/ JobEnds \/ Driver \/ Fetched \/ Canceller
    \/ Reader \/ ConsumerDrops \/ Trouble

Spec == Init /\ [][Next]_vars

\* The driver, the scheduler's answers, the fetch of the metrics and the consumer go
\* on; a job need not end and no fault need happen.
FairSpec ==
    /\ Spec
    /\ WF_vars(Ballista) /\ WF_vars(Driver) /\ WF_vars(Fetched)
    /\ WF_vars(Canceller) /\ WF_vars(Reader)

-----------------------------------------------------------------------------
(* What a distributed query promises.                                      *)

\* A consumer that sees the end of the stream has every batch of a job that
\* completed: no failure and no cancellation looks like a shorter result.
EndMeansComplete == consumer = "ended" => job = "completed" /\ received = Batches

\* "a cancelled distributed job is also cancelled on the cluster, not orphaned": once
\* the consumer is through with it, the job does not run on, even if it would never end
\* by itself, unless an answer was lost or late, CancelJob failed or the process exited.
NoOrphanJob == consumer # "reading" ~> job # "running" \/ hit # {}

\* A consumer that keeps reading sees the end or the error of a job that has ended.
ReaderFinishes == (job \in {"completed", "failed"} /\ consumer = "reading") ~> consumer # "reading"

\* Both sides end: the job whose consumer left, and the consumer whose job ended.
QueryEnds == NoOrphanJob /\ ReaderFinishes
=============================================================================
