-------------------------- MODULE ServerLifecycle --------------------------
(***************************************************************************)
(* DataglotServer::run from boot to exit: the start-up steps and what each *)
(* failure leaves behind, the accept loop, the shutdown broadcast, the     *)
(* drain of the background tasks and of the sibling servers; and the jobs  *)
(* of RefreshScheduler (materialization.rs) that run until the broadcast:  *)
(* ticks, attempts, the interruptible backoff between them and the status  *)
(* the dashboard reads.                                                    *)
(*                                                                         *)
(* A select! whose branches are all ready takes any of them.  A broadcast  *)
(* receiver is ready once the message was sent, lagged messages included,  *)
(* or once the server that owns the sender is gone; a task that sees it    *)
(* stops, so one flag stands for the channel.  What an attempt writes to   *)
(* the warehouse is WarehouseOverwrite's: here it is planning its query    *)
(* until it has a staging table, and then until the swap.                  *)
(*                                                                         *)
(* Tasks are the ones whose handles reach BackgroundTasks.  A connection   *)
(* task, the connector health poller and the registry refresh of           *)
(* LiveCatalogs are spawned without one: run neither tells nor awaits      *)
(* them and they end with the process.  Nor is an abort awaited: an        *)
(* aborted task takes no step past the await it is at, which is all that   *)
(* "aborted" says here.                                                    *)
(***************************************************************************)
EXTENDS Naturals

CONSTANTS
    Jobs,         \* refresh, compaction and sweep jobs, one task each
    BootTasks,    \* background tasks of DataglotServer::new: cache invalidation
    Watchers,     \* deferred tasks with no shutdown channel: the governance subscriber
    Siblings,     \* the metrics, webhook, policy-explain and Flight SQL servers
    MaxAttempts,  \* attempts per tick
    BootFails     \* the start-up steps that may fail

BootSteps == {"bindFlight", "foreground", "watchers", "jobs", "serveFlight", "signals"}

ASSUME LifecycleBounds == MaxAttempts \in Nat \ {0} /\ BootFails \subseteq BootSteps

Tasks == Jobs \cup BootTasks \cup Watchers

VARIABLES
    phase,    \* of DataglotServer::run
    task,     \* where each background task is
    held,     \* tasks whose handle BackgroundTasks holds
    attempt,  \* the number of a job's current attempt
    due,      \* a job's ticker has fired
    slept,    \* a job's backoff is over
    status,   \* what the registry shows of a job
    sib,      \* the sibling servers
    busy,     \* siblings with a request in flight
    sent,     \* the shutdown broadcast
    cut,      \* history: jobs aborted in the middle of an attempt
    lateTick, \* history: jobs that began a refresh after the broadcast
    lateTries \* history: retries a job began after the broadcast, up to 2

jobVars == <<attempt, due, slept, status>>
history == <<cut, lateTick, lateTries>>
vars == <<phase, task, held, jobVars, sib, busy, sent, history>>

Ended == {"stopped", "aborted"}
InAttempt == {"planning", "staged"}

\* The type of every variable; a job between ticks is at no attempt beyond the last.
TypeOK ==
    /\ phase \in BootSteps \cup {"accepting", "broadcast", "draining", "siblings", "exited", "failed"}
    /\ task \in [Tasks -> {"absent", "watching", "select", "backoff"} \cup InAttempt \cup Ended]
    /\ held \subseteq Tasks
    /\ attempt \in [Jobs -> 0 .. MaxAttempts]
    /\ due \in [Jobs -> BOOLEAN] /\ slept \in [Jobs -> BOOLEAN]
    /\ status \in [Jobs -> {"pending", "running", "success", "error"}]
    /\ sib \in [Siblings -> {"absent", "serving", "closing", "done", "aborted"}]
    /\ busy \subseteq Siblings /\ sent \in BOOLEAN
    /\ cut \subseteq Jobs /\ lateTick \subseteq Jobs /\ lateTries \in [Jobs -> 0 .. 2]

Init ==
    /\ phase = "bindFlight"
    /\ task = [t \in Tasks |-> IF t \in BootTasks THEN "watching" ELSE "absent"]
    /\ held = BootTasks
    /\ attempt = [j \in Jobs |-> 0]
    /\ due = [j \in Jobs |-> FALSE] /\ slept = [j \in Jobs |-> FALSE]
    /\ status = [j \in Jobs |-> "pending"]
    /\ sib = [s \in Siblings |-> "absent"] /\ busy = {}
    /\ sent = FALSE
    /\ cut = {} /\ lateTick = {} /\ lateTries = [j \in Jobs |-> 0]

\* The broadcast, or the end of its sender when run returned an error.
Told == sent \/ phase = "failed"

\* Aborting a set of tasks: a task dies at its await, an attempt in the middle.
Aborted(S) == [t \in Tasks |-> IF t \in S /\ task[t] \notin Ended \cup {"absent"}
                               THEN "aborted" ELSE task[t]]
CutBy(S) == {j \in Jobs \cap S : task[j] \in InAttempt}

-----------------------------------------------------------------------------
(* Boot.                                                                   *)

\* BackgroundTasks::abort_all, then the error is returned.
AbortAll ==
    /\ phase' = "failed"
    /\ task' = Aborted(held) /\ cut' = cut \cup CutBy(held)
    /\ UNCHANGED <<held, jobVars, busy, sent, lateTick, lateTries>>

BindFlight ==
    /\ phase = "bindFlight"
    /\ \/ /\ phase' = "foreground"
          /\ UNCHANGED <<task, cut, held, jobVars, busy, sent, lateTick, lateTries>>
       \/ "bindFlight" \in BootFails /\ AbortAll
    /\ UNCHANGED sib

\* start_foreground; a failure in the middle aborts the siblings already spawned.
StartForeground ==
    /\ phase = "foreground"
    /\ \/ /\ phase' = "watchers"
          /\ sib' = [s \in Siblings |-> "serving"]
          /\ UNCHANGED <<task, cut, held, jobVars, busy, sent, lateTick, lateTries>>
       \/ /\ "foreground" \in BootFails /\ AbortAll
          /\ \E S \in SUBSET Siblings :
                sib' = [s \in Siblings |-> IF s \in S THEN "aborted" ELSE "absent"]

\* spawn_deferred_background: the governance subscriber first.  Its handle is still
\* in a local of that function, not in BackgroundTasks.
SpawnWatchers ==
    /\ phase = "watchers"
    /\ \/ /\ phase' = "jobs"
          /\ task' = [t \in Tasks |-> IF t \in Watchers THEN "watching" ELSE task[t]]
          /\ UNCHANGED <<cut, held, jobVars, busy, sent, lateTick, lateTries>>
       \/ "watchers" \in BootFails /\ AbortAll
    /\ UNCHANGED sib

Extend(tasks) == held' = held \cup tasks   \* BackgroundTasks::extend
\* Then the scheduler's jobs; run adds all the handles to BackgroundTasks.  A ticker
\* fires at once.
SpawnJobs ==
    /\ phase = "jobs"
    /\ \/ /\ phase' = "serveFlight"
          /\ task' = [t \in Tasks |-> IF t \in Jobs THEN "select" ELSE task[t]]
          /\ Extend(Watchers \cup Jobs)
          /\ due' = [j \in Jobs |-> TRUE]
          /\ UNCHANGED <<cut, attempt, slept, status, busy, sent, lateTick, lateTries>>
       \/ "jobs" \in BootFails /\ AbortAll
    /\ UNCHANGED sib

\* flight_sql::serve and the signal handlers: an error is returned with `?`.
Serve(at, next) ==
    /\ phase = at
    /\ \/ phase' = next
       \/ at \in BootFails /\ phase' = "failed"
    /\ UNCHANGED <<task, held, jobVars, sib, busy, sent, history>>
ServeFlight == Serve("serveFlight", "signals")
InstallSignals == Serve("signals", "accepting")

-----------------------------------------------------------------------------
(* Shutdown.                                                               *)

\* A termination signal, or a message on the shutdown channel, ends the accept loop.
Terminate ==
    /\ phase = "accepting"
    /\ phase' = "broadcast" /\ sent' = TRUE
    /\ UNCHANGED <<task, held, jobVars, sib, busy, history>>

\* The second, idempotent broadcast; drain begins.
Broadcast ==
    /\ phase = "broadcast"
    /\ phase' = "draining" /\ sent' = TRUE
    /\ UNCHANGED <<task, held, jobVars, sib, busy, history>>

\* Mutant: the timeout gives up on the task without aborting it.
TimedOut_Detached(S) == task
\* BG_DRAIN_TIMEOUT passed: what has not ended is aborted.
TimedOut(S) == Aborted(S)

\* Mutant: the timeout only begins the wait anew.
DrainTimeout_WaitsAgain == phase = "draining" /\ UNCHANGED vars
DrainTimeout ==
    /\ phase = "draining"
    /\ phase' = "siblings"
    /\ task' = TimedOut(held) /\ cut' = cut \cup CutBy(held)
    /\ UNCHANGED <<held, jobVars, sib, busy, sent, lateTick, lateTries>>

\* Every task was joined in time.
Drained ==
    /\ phase = "draining" /\ \A t \in held : task[t] \in Ended
    /\ phase' = "siblings"
    /\ UNCHANGED <<task, held, jobVars, sib, busy, sent, history>>

\* The siblings are awaited one by one, with no timeout.
Exit ==
    /\ phase = "siblings" /\ \A s \in Siblings : sib[s] = "done"
    /\ phase' = "exited"
    /\ UNCHANGED <<task, held, jobVars, sib, busy, sent, history>>

-----------------------------------------------------------------------------
(* A sibling server: axum or tonic with a graceful shutdown.               *)

RequestStarts(s) ==
    /\ sib[s] = "serving" /\ s \notin busy
    /\ busy' = busy \cup {s}
    /\ UNCHANGED <<phase, task, held, jobVars, sib, sent, history>>
RequestEnds(s) ==
    /\ s \in busy
    /\ busy' = busy \ {s}
    /\ UNCHANGED <<phase, task, held, jobVars, sib, sent, history>>
SiblingCloses(s) ==
    /\ sib[s] = "serving" /\ Told
    /\ sib' = [sib EXCEPT ![s] = "closing"]
    /\ UNCHANGED <<phase, task, held, jobVars, busy, sent, history>>
SiblingDone(s) ==
    /\ sib[s] = "closing" /\ s \notin busy
    /\ sib' = [sib EXCEPT ![s] = "done"]
    /\ UNCHANGED <<phase, task, held, jobVars, busy, sent, history>>

-----------------------------------------------------------------------------
(* A job of RefreshScheduler.                                              *)

\* The interval passes; a tick missed during a refresh is one tick.
Tick(j) ==
    /\ task[j] \notin Ended \cup {"absent"} /\ ~due[j]
    /\ due' = [due EXCEPT ![j] = TRUE]
    /\ UNCHANGED <<phase, task, held, attempt, slept, status, sib, busy, sent, history>>

\* select!, the shutdown branch.
Stop(j) ==
    /\ task[j] \in {"select", "backoff"} /\ Told
    /\ task' = [task EXCEPT ![j] = "stopped"]
    /\ UNCHANGED <<phase, held, jobVars, sib, busy, sent, history>>

\* select!, the ticker branch: the first attempt of run_with_retry.
Refresh(j) ==
    /\ task[j] = "select" /\ due[j]
    /\ task' = [task EXCEPT ![j] = "planning"]
    /\ due' = [due EXCEPT ![j] = FALSE]
    /\ attempt' = [attempt EXCEPT ![j] = 1]
    /\ status' = [status EXCEPT ![j] = "running"]
    /\ lateTick' = IF sent THEN lateTick \cup {j} ELSE lateTick
    /\ UNCHANGED <<phase, held, slept, sib, busy, sent, cut, lateTries>>

\* The query is planned and streams into a staging table.
Stage(j) ==
    /\ task[j] = "planning"
    /\ task' = [task EXCEPT ![j] = "staged"]
    /\ UNCHANGED <<phase, held, jobVars, sib, busy, sent, history>>

AttemptSucceeds(j) ==
    /\ task[j] = "staged"
    /\ task' = [task EXCEPT ![j] = "select"]
    /\ status' = [status EXCEPT ![j] = "success"]
    /\ UNCHANGED <<phase, held, attempt, due, slept, sib, busy, sent, history>>

\* Mutants: a job gives up for good after its last attempt; a job sleeps through the
\* broadcast.
AfterFailure_GivesUp(j) ==
    IF attempt[j] = MaxAttempts THEN "stopped" ELSE IF Told THEN "stopped" ELSE "backoff"
\* A failed attempt: the last one leaves the job to its next tick; otherwise the
\* backoff, whose select! sees a broadcast that is already there at once.
AfterFailure(j) ==
    IF attempt[j] = MaxAttempts THEN "select" ELSE IF Told THEN "stopped" ELSE "backoff"

\* record_failure's state.
Recorded(j) == "error"
AttemptFails(j) ==
    /\ task[j] \in InAttempt
    /\ task' = [task EXCEPT ![j] = AfterFailure(j)]
    /\ slept' = [slept EXCEPT ![j] = FALSE]
    /\ status' = [status EXCEPT ![j] = Recorded(j)]
    /\ UNCHANGED <<phase, held, attempt, due, sib, busy, sent, history>>

SleepEnds(j) ==
    /\ task[j] = "backoff" /\ ~slept[j]
    /\ slept' = [slept EXCEPT ![j] = TRUE]
    /\ UNCHANGED <<phase, task, held, attempt, due, status, sib, busy, sent, history>>

\* The backoff is over: the next attempt.
Retry(j) ==
    /\ task[j] = "backoff" /\ slept[j]
    /\ task' = [task EXCEPT ![j] = "planning"]
    /\ attempt' = [attempt EXCEPT ![j] = @ + 1]
    /\ status' = [status EXCEPT ![j] = "running"]
    /\ lateTries' = IF sent /\ lateTries[j] < 2 THEN [lateTries EXCEPT ![j] = @ + 1] ELSE lateTries
    /\ UNCHANGED <<phase, held, due, slept, sib, busy, sent, cut, lateTick>>

\* run has returned: the process is over, or nothing of it is left.
Over ==
    /\ phase = "exited"
    /\ UNCHANGED vars

Running == phase # "exited"
Boot == BindFlight \/ StartForeground \/ SpawnWatchers \/ SpawnJobs \/ ServeFlight \/ InstallSignals
Shutdown == Broadcast \/ DrainTimeout \/ Drained \/ Exit
JobStep(j) == Stop(j) \/ Refresh(j) \/ SleepEnds(j) \/ Retry(j)
AttemptStep(j) == Stage(j) \/ AttemptSucceeds(j) \/ AttemptFails(j)
SiblingStep(s) == SiblingCloses(s) \/ SiblingDone(s)

Next ==
    \/ Over
    \/ Running /\ (Boot \/ Terminate \/ Shutdown)
    \/ Running /\ \E j \in Jobs : Tick(j) \/ JobStep(j) \/ AttemptStep(j)
    \/ Running /\ \E s \in Siblings : RequestStarts(s) \/ RequestEnds(s) \/ SiblingStep(s)

Spec == Init /\ [][Next]_vars

\* run, its timers, the jobs' loops and the siblings go on; nothing makes an attempt
\* or a request end.
ServerFairness ==
    /\ WF_vars(Running /\ Boot) /\ WF_vars(Running /\ Shutdown)
    /\ \A j \in Jobs : WF_vars(Running /\ JobStep(j)) /\ WF_vars(Running /\ Tick(j))
    /\ \A s \in Siblings : WF_vars(Running /\ SiblingStep(s))
RequestsEnd == \A s \in Siblings : WF_vars(Running /\ RequestEnds(s))
AttemptsEnd == \A j \in Jobs : WF_vars(Running /\ AttemptStep(j))

FairSpec == Spec /\ ServerFairness /\ RequestsEnd

-----------------------------------------------------------------------------
(* What the lifecycle promises.                                            *)

\* The backoff is interrupted by shutdown: whatever fails after the broadcast, a job
\* begins at most the one retry whose timer ran out as the broadcast came.
AtMostOneLateRetry == \A j \in Jobs : lateTries[j] <= 1

\* A graceful exit leaves nothing running of what BackgroundTasks holds: every such
\* task has ended or was aborted, and every sibling has closed, before run returns, and
\* on the way no job retried twice.
QuietExit ==
    /\ phase = "exited" =>
          /\ \A t \in Tasks : task[t] \in Ended
          /\ \A s \in Siblings : sib[s] = "done"
    /\ AtMostOneLateRetry

\* "Shutdown can't hang on one that ignores the shutdown signal": once the accept loop
\* has ended run returns, even if an attempt never ends.  With no fairness for the
\* requests it also says of the siblings "If one hangs we drop it on process exit".
ShutdownCompletes == phase = "broadcast" ~> phase = "exited"

\* "A failed refresh is non-fatal ... and the next tick tries again": until it is told
\* to stop, a job whose attempts end comes back to a new refresh whatever they come to.
KeepsRefreshing ==
    AttemptsEnd => \A j \in Jobs : task[j] # "absent" ~> (Told \/ (task[j] = "planning" /\ attempt[j] = 1))

\* "An in-flight attempt is allowed to complete even if shutdown fires."
AttemptsComplete == cut = {}

\* Each task refreshes "until the shutdown broadcast fires".
NoRefreshAfterBroadcast == lateTick = {}

\* "A boot that fails after `new` spawned the background tasks must not leave them
\* running."
FailedBootAborts == phase = "failed" => \A t \in Tasks : task[t] \in Ended \cup {"absent"}
=============================================================================
