--------------------------- MODULE QueryLifecycle ---------------------------
(***************************************************************************)
(* A query from on_query_start to the history ring: the simple-query       *)
(* handler of dataglot-pgwire/src/handler.rs (cancel slot and flag,        *)
(* QueryCompletion, the row-stream wrappers) and the registry of           *)
(* dataglot-server/src/query_registry.rs behind the dashboard.             *)
(*                                                                         *)
(* A connection runs one query at a time; dashboard cancels, wire          *)
(* CancelRequests and executor-reported pushdown stats come from other     *)
(* tasks.  Every critical section of the registry is a step of its own.    *)
(* A row is a step that changes nothing but the wrapper's place in its     *)
(* select loop.                                                            *)
(***************************************************************************)
EXTENDS Naturals, Sequences, FiniteSets

CONSTANTS
    Conns,           \* connections
    Kinds,           \* kinds of statement the clients send, see AllKinds
    MaxRuns,         \* bound: queries started
    MaxStreams,      \* row streams one message may answer with
    HistoryCap,      \* HISTORY_CAP
    StatsCap,        \* MAX_PUSHDOWNS_PER_QUERY
    MaxCancels,      \* bound: dashboard cancels and CancelRequests
    MaxStats         \* bound: pushdown stats reported by executors

\* "planned": a query or DML through QueryCompletion.  "unwrapped": COPY TO STDOUT
\* or a message mixing DDL and queries: completed when do_query returns, rows not
\* watched.  "metadata": the same for a catalog-metadata query of the extended
\* protocol, whose error has no message.  "ddl": no rows.
AllKinds == {"planned", "unwrapped", "metadata", "ddl"}

ASSUME LifecycleBounds ==
    /\ Kinds \subseteq AllKinds
    /\ {MaxRuns, MaxStreams, HistoryCap, StatsCap} \subseteq Nat \ {0}
    /\ {MaxCancels, MaxStats} \subseteq Nat

VARIABLES
    pc,        \* where each connection's task is
    cur,       \* the run each connection works on; 0: none
    kind,      \* what each run is; "none": not started
    streams,   \* row streams of each run that are not drained or dropped
    errored,   \* QueryCompletion.outcome
    poll,      \* where each run's row-stream wrapper is in CancelFlag::cancelled
    woken,     \* the Notified future of each run was notified
    slot,      \* each connection's CancelSlot: the flag that is current; 0: the first
    flag,      \* the flag each run watches
    fired,     \* flags whose cancelled is set
    lock,      \* the registry lock is held by a cancel of this run; 0: free
    slotLock,  \* the slot lock is held by a CancelRequest
    asked,     \* CancelRequests of each connection between manager.cancel and cancel_current
    told,      \* connections whose do_query was told to stop
    gone,      \* connections whose client went away while rows were sent
    active,    \* QueryRegistry.inner: runs
    entry,     \* the ActiveQuery of each run
    history,   \* QueryRegistry.history, oldest first
    cancels, stats,  \* counters of the bounds
    cut,       \* runs whose do_query future pgwire dropped
    aimed,     \* history: runs some cancel was aimed at
    overtaken, \* history: runs that began while a CancelRequest was halfway
    aborted,   \* history: runs whose rows were aborted by their flag
    spoiled    \* history: runs whose rows failed after they were completed

task == <<pc, cur, kind, streams, errored, gone>>
watch == <<poll, woken>>
flags == <<slot, flag, fired, slotLock, asked, told>>
registry == <<lock, active, entry, history>>
bounds == <<cancels, stats, cut>>
ghosts == <<aimed, overtaken, aborted, spoiled>>
vars == <<task, watch, flags, registry, bounds, ghosts>>

Runs == 1 .. MaxRuns
NoEntry == [handle |-> FALSE, cancelled |-> FALSE, message |-> FALSE, stats |-> 0]
Outcomes == {"success", "error", "cancelled"}
Started == {r \in Runs : kind[r] # "none"}
Logged == {history[i].run : i \in DOMAIN history}

\* The type of every variable; the ring holds at most HistoryCap runs, each once.
TypeOK ==
    /\ pc \in [Conns -> {"idle", "started", "planning", "streaming", "dropping",
                         "removing", "pushing", "raw", "closed"}]
    /\ cur \in [Conns -> 0 .. MaxRuns] /\ kind \in [Runs -> AllKinds \cup {"none"}]
    /\ streams \in [Runs -> 0 .. MaxStreams]
    /\ errored \subseteq Runs /\ active \subseteq Runs /\ aimed \subseteq Runs
    /\ aborted \subseteq Runs /\ cut \subseteq Runs /\ told \subseteq Conns
    /\ overtaken \subseteq Runs /\ spoiled \subseteq Runs /\ asked \in [Conns -> Nat]
    /\ poll \in [Runs -> {"rest", "armed", "checked", "parked"}]
    /\ woken \subseteq Runs /\ fired \subseteq 0 .. MaxRuns
    /\ slot \in [Conns -> 0 .. MaxRuns] /\ flag \in [Runs -> 0 .. MaxRuns]
    /\ lock \in 0 .. MaxRuns /\ slotLock \subseteq Conns /\ gone \subseteq Conns
    /\ entry \in [Runs -> [handle : BOOLEAN, cancelled : BOOLEAN, message : BOOLEAN,
                           stats : 0 .. StatsCap]]
    /\ Len(history) <= HistoryCap /\ Cardinality(Logged) = Len(history)
    /\ \A i \in DOMAIN history : history[i].outcome \in Outcomes /\ history[i].stats <= StatsCap

Init ==
    /\ pc = [c \in Conns |-> "idle"] /\ cur = [c \in Conns |-> 0]
    /\ kind = [r \in Runs |-> "none"] /\ streams = [r \in Runs |-> 0]
    /\ errored = {} /\ poll = [r \in Runs |-> "rest"] /\ woken = {}
    /\ slot = [c \in Conns |-> 0] /\ flag = [r \in Runs |-> 0] /\ fired = {}
    /\ lock = 0 /\ slotLock = {} /\ gone = {} /\ active = {} /\ entry = [r \in Runs |-> NoEntry]
    /\ history = <<>> /\ cancels = 0 /\ stats = 0 /\ cut = {}
    /\ asked = [c \in Conns |-> 0] /\ told = {}
    /\ aimed = {} /\ overtaken = {} /\ aborted = {} /\ spoiled = {}

-----------------------------------------------------------------------------
(* do_query.                                                               *)

\* on_query_start: the registry entry, before anything else sees the query.
Start(c, k) ==
    /\ pc[c] = "idle" /\ lock = 0 /\ Cardinality(Started) < MaxRuns
    /\ LET r == Cardinality(Started) + 1 IN
       /\ kind' = [kind EXCEPT ![r] = k]
       /\ cur' = [cur EXCEPT ![c] = r]
       /\ active' = active \cup {r}
    /\ pc' = [pc EXCEPT ![c] = IF k = "planned" THEN "started" ELSE "planning"]
    /\ UNCHANGED <<streams, errored, gone, watch, flags, lock, entry, history, bounds, ghosts>>

\* Mutant: the connection keeps the flag it has.
FreshFlag_Reused(c, r) == IF slot[c] # 0 THEN slot[c] ELSE r

\* CancelSlot::begin_query: a flag of its own for every query.
FreshFlag(c, r) == r

\* begin_query, then on_query_cancellable hands the flag to the registry.
Attach(c) ==
    /\ pc[c] = "started" /\ lock = 0 /\ c \notin slotLock
    /\ LET r == cur[c] IN
       /\ slot' = [slot EXCEPT ![c] = FreshFlag(c, r)]
       /\ flag' = [flag EXCEPT ![r] = FreshFlag(c, r)]
       /\ entry' = [entry EXCEPT ![r].handle = TRUE]
       /\ overtaken' = IF asked[c] > 0 THEN overtaken \cup {r} ELSE overtaken
    /\ pc' = [pc EXCEPT ![c] = "planning"]
    /\ UNCHANGED <<cur, kind, streams, errored, gone, watch, fired, slotLock, asked, told, lock, active, history,
                   bounds, aimed, aborted, spoiled>>

\* How many row streams a statement may answer with; the ones nobody watches count
\* as one, from the first row to the last.
Answers(k) == CASE k = "planned" -> MaxStreams
                [] k = "ddl" -> 0
                [] OTHER -> 1

\* The inner do_query answers with n row streams (pgwire's race is over): they are wrapped, and the
\* completion guard lives as long as the last of them.  The other kinds complete
\* now and hand their rows over as they are.
Planned(c) ==
    /\ pc[c] = "planning"
    /\ \E n \in 0 .. Answers(kind[cur[c]]) :
          /\ streams' = [streams EXCEPT ![cur[c]] = n]
          /\ pc' = [pc EXCEPT ![c] = IF kind[cur[c]] = "planned" /\ n > 0
                                     THEN "streaming" ELSE "dropping"]
    /\ told' = told \ {c}
    /\ UNCHANGED <<cur, kind, errored, gone, watch, slot, flag, fired, slotLock, asked, registry, bounds, ghosts>>

\* The inner do_query (or the admin seam) fails: the error is recorded and the
\* guard drops at once.
AfterPlanFailure_Forgotten == "idle"    \* mutant: no completion on the error path
AfterPlanFailure == "dropping"
PlanFails(c) ==
    /\ pc[c] = "planning"
    /\ errored' = errored \cup {cur[c]}
    /\ pc' = [pc EXCEPT ![c] = AfterPlanFailure]
    /\ cur' = IF AfterPlanFailure = "idle" THEN [cur EXCEPT ![c] = 0] ELSE cur
    /\ told' = told \ {c}
    /\ UNCHANGED <<kind, streams, gone, watch, slot, flag, fired, slotLock, asked, registry, bounds, ghosts>>

-----------------------------------------------------------------------------
(* The wrapped row streams.                                                *)

At(c, p) == pc[c] = "streaming" /\ poll[cur[c]] = p

\* The wrapper, and its Notified with it, is gone.
Unwatched(c) == /\ poll' = [poll EXCEPT ![cur[c]] = "rest"]
                /\ woken' = woken \ {cur[c]}

\* CancelFlag::cancelled: create the Notified, read the flag, then wait.
Arm(c) ==
    /\ At(c, "rest")
    /\ poll' = [poll EXCEPT ![cur[c]] = "armed"]
    /\ woken' = woken \ {cur[c]}
    /\ UNCHANGED <<task, flags, registry, bounds, ghosts>>

ReadFlag(c) ==
    /\ At(c, "armed") /\ flag[cur[c]] \notin fired
    /\ poll' = [poll EXCEPT ![cur[c]] = "checked"]
    /\ UNCHANGED <<task, woken, flags, registry, bounds, ghosts>>

Park(c) ==
    /\ At(c, "checked")
    /\ poll' = [poll EXCEPT ![cur[c]] = "parked"]
    /\ UNCHANGED <<task, woken, flags, registry, bounds, ghosts>>

Wake(c) ==
    /\ At(c, "parked") /\ cur[c] \in woken
    /\ Unwatched(c)
    /\ UNCHANGED <<task, flags, registry, bounds, ghosts>>

\* The flag is set: the stream yields QueryCanceled and ends; the error response
\* drops the streams that were still to come.
Abort(c) ==
    /\ At(c, "armed") /\ flag[cur[c]] \in fired
    /\ errored' = errored \cup {cur[c]}
    /\ aborted' = aborted \cup {cur[c]}
    /\ streams' = [streams EXCEPT ![cur[c]] = 0]
    /\ pc' = [pc EXCEPT ![c] = "dropping"]
    /\ Unwatched(c)
    /\ UNCHANGED <<cur, kind, gone, flags, registry, bounds, aimed, overtaken, spoiled>>

\* The other branch of the select: the next row.
Row(c) ==
    /\ At(c, "parked") \/ At(c, "rest")
    /\ Unwatched(c)
    /\ UNCHANGED <<task, flags, registry, bounds, ghosts>>

RowError(c) ==
    /\ At(c, "parked") \/ At(c, "rest")
    /\ errored' = errored \cup {cur[c]}
    /\ streams' = [streams EXCEPT ![cur[c]] = 0]
    /\ pc' = [pc EXCEPT ![c] = "dropping"]
    /\ Unwatched(c)
    /\ UNCHANGED <<cur, kind, gone, flags, registry, bounds, ghosts>>

\* A stream ends; the guard drops with the last owner of its Arc.
LastOwner(n) == n = 0
StreamEnds(c) ==
    /\ At(c, "parked") \/ At(c, "rest")
    /\ LET r == cur[c] IN
       /\ streams' = [streams EXCEPT ![r] = @ - 1]
       /\ pc' = [pc EXCEPT ![c] = IF LastOwner(streams[r] - 1) THEN "dropping" ELSE @]
    /\ Unwatched(c)
    /\ UNCHANGED <<cur, kind, errored, gone, flags, registry, bounds, ghosts>>

\* The client goes away: its streams are dropped, without an error.
Disconnect(c) ==
    /\ pc[c] = "streaming"
    /\ streams' = [streams EXCEPT ![cur[c]] = 0]
    /\ pc' = [pc EXCEPT ![c] = "dropping"]
    /\ gone' = gone \cup {c}
    /\ Unwatched(c)
    /\ UNCHANGED <<cur, kind, errored, flags, registry, bounds, ghosts>>

-----------------------------------------------------------------------------
(* Completion: on_query_error, then complete's two critical sections.      *)

\* QueryCompletion::drop, complete_control_plane: the message first.
DropCompletion(c) ==
    /\ pc[c] = "dropping" /\ lock = 0
    /\ entry' = IF cur[c] \in errored /\ kind[cur[c]] # "metadata" THEN [entry EXCEPT ![cur[c]].message = TRUE] ELSE entry
    /\ pc' = [pc EXCEPT ![c] = "removing"]
    /\ UNCHANGED <<cur, kind, streams, errored, gone, watch, flags, lock, active, history, bounds, ghosts>>

CompleteRemoves(c) ==
    /\ pc[c] = "removing" /\ lock = 0
    /\ active' = active \ {cur[c]}
    /\ pc' = [pc EXCEPT ![c] = "pushing"]
    /\ UNCHANGED <<cur, kind, streams, errored, gone, watch, flags, lock, entry, history, bounds, ghosts>>

\* Mutant: a fired handle makes the query cancelled whatever its outcome.
OutcomeOf_AnyCancel(r) ==
    IF entry[r].cancelled THEN "cancelled" ELSE IF r \in errored THEN "error" ELSE "success"

\* complete's match on the outcome and the cancelled mark.
OutcomeOf(r) ==
    IF r \notin errored THEN "success"
    ELSE IF entry[r].cancelled THEN "cancelled" ELSE "error"

\* The ring keeps the HISTORY_CAP newest records.
Trim(h) == IF Len(h) > HistoryCap THEN Tail(h) ELSE h
CompletePushes(c) ==
    /\ pc[c] = "pushing"
    /\ LET r == cur[c] IN
       /\ history' = Trim(Append(history, [run |-> r, outcome |-> OutcomeOf(r),
                                           message |-> entry[r].message, stats |-> entry[r].stats]))
       /\ pc' = [pc EXCEPT ![c] = IF streams[r] > 0 THEN "raw"
                                  ELSE IF c \in gone THEN "closed" ELSE "idle"]
       /\ cur' = IF streams[r] > 0 THEN cur ELSE [cur EXCEPT ![c] = 0]
    /\ UNCHANGED <<kind, streams, errored, gone, watch, flags, lock, active, entry, bounds, ghosts>>

\* The rows of an unwrapped statement, watched by nobody: they are sent to the end or
\* the client goes away; or the source fails, and only the client is told.
RawEnds(c) ==
    /\ pc[c] = "raw"
    /\ streams' = [streams EXCEPT ![cur[c]] = 0]
    /\ \E p \in {"idle", "closed"} : pc' = [pc EXCEPT ![c] = p]
    /\ cur' = [cur EXCEPT ![c] = 0]
    /\ UNCHANGED <<kind, errored, gone, watch, flags, registry, bounds, ghosts>>

RawFails(c) ==
    /\ pc[c] = "raw"
    /\ spoiled' = spoiled \cup {cur[c]}
    /\ streams' = [streams EXCEPT ![cur[c]] = 0]
    /\ pc' = [pc EXCEPT ![c] = "idle"]
    /\ cur' = [cur EXCEPT ![c] = 0]
    /\ UNCHANGED <<kind, errored, gone, watch, flags, registry, bounds, aimed, overtaken, aborted>>

-----------------------------------------------------------------------------
(* Other tasks.                                                            *)

\* QueryRegistry::cancel, under the registry lock: mark the entry and set the flag;
\* without a handle it answers false.
DashboardCancel(r) ==
    /\ r \in active /\ lock = 0 /\ cancels < MaxCancels /\ entry[r].handle
    /\ cancels' = cancels + 1
    /\ lock' = r
    /\ entry' = [entry EXCEPT ![r].cancelled = TRUE]
    /\ fired' = fired \cup {flag[r]}
    /\ aimed' = aimed \cup {r}
    /\ UNCHANGED <<task, watch, slot, flag, slotLock, asked, told, active, history, stats, cut,
                   overtaken, aborted, spoiled>>

\* notify_waiters reaches the Notified futures that exist.
Listening_AfterCheck == {"parked"}    \* mutant: created after the flag is read
Listening == {"armed", "checked", "parked"}
Notified(f) == {r \in Runs : flag[r] = f /\ f # 0 /\ poll[r] \in Listening}
DashboardNotify ==
    /\ lock # 0
    /\ woken' = woken \cup Notified(flag[lock])
    /\ lock' = 0
    /\ UNCHANGED <<task, poll, flags, active, entry, history, bounds, ghosts>>

\* CancelRegistry::cancel, its first half: pgwire's manager tells the connection's
\* do_query, if one is under way.  The await that follows lets every task run.
CancelRequest(c) ==
    /\ pc[c] # "closed" /\ cancels < MaxCancels
    /\ cancels' = cancels + 1
    /\ asked' = [asked EXCEPT ![c] = @ + 1]
    /\ told' = told \cup {d \in {c} : pc[c] \in {"started", "planning"}}
    /\ aimed' = aimed \cup {r \in Runs : r = cur[c]}
    /\ UNCHANGED <<task, watch, slot, flag, fired, slotLock, registry, stats, cut, overtaken, aborted, spoiled>>

\* Its second half, cancel_current: the flag that is current now.  A connection that
\* closed has no slot.
SlotCancel(c) ==
    /\ asked[c] > 0 /\ c \notin slotLock
    /\ asked' = [asked EXCEPT ![c] = @ - 1]
    /\ \/ /\ pc[c] # "closed"
          /\ slotLock' = slotLock \cup {c}
          /\ fired' = fired \cup {slot[c]}
       \/ /\ pc[c] = "closed"
          /\ UNCHANGED <<slotLock, fired>>
    /\ UNCHANGED <<task, watch, slot, flag, told, registry, bounds, ghosts>>

\* pgwire's race ends for the request: do_query is dropped at an await, before
\* QueryCompletion exists.
PlanCancelled(c) ==
    /\ pc[c] \in {"started", "planning"} /\ c \in told
    /\ cut' = cut \cup {cur[c]}
    /\ told' = told \ {c}
    /\ pc' = [pc EXCEPT ![c] = "idle"]
    /\ cur' = [cur EXCEPT ![c] = 0]
    /\ UNCHANGED <<kind, streams, errored, gone, watch, slot, flag, fired, slotLock, asked, registry,
                   cancels, stats, ghosts>>

RequestNotify(c) ==
    /\ c \in slotLock
    /\ woken' = woken \cup Notified(slot[c])
    /\ slotLock' = slotLock \ {c}
    /\ UNCHANGED <<task, poll, slot, flag, fired, asked, told, registry, bounds, ghosts>>

\* attach_pushdown: the active entry, else the one in history, else nothing.  A run
\* that complete has removed and not yet pushed is in neither.
OneMore(n) == IF n < StatsCap THEN n + 1 ELSE n
Report(r) ==
    /\ r \in Started /\ lock = 0 /\ stats < MaxStats
    /\ stats' = stats + 1
    /\ \/ /\ r \in active
          /\ entry' = [entry EXCEPT ![r].stats = OneMore(@)]
          /\ UNCHANGED <<history>>
       \/ /\ r \notin active /\ r \in Logged
          /\ history' = [i \in DOMAIN history |->
                IF history[i].run = r THEN [history[i] EXCEPT !.stats = OneMore(@)] ELSE history[i]]
          /\ UNCHANGED <<entry>>
       \/ /\ r \notin active /\ r \notin Logged
          /\ UNCHANGED <<entry, history>>
    /\ UNCHANGED <<task, watch, flags, lock, active, cancels, cut, ghosts>>

\* The connection ends between queries: SlotGuard takes its slot away.
Close(c) ==
    /\ pc[c] = "idle"
    /\ pc' = [pc EXCEPT ![c] = "closed"]
    /\ UNCHANGED <<cur, kind, streams, errored, gone, watch, flags, registry, bounds, ghosts>>

-----------------------------------------------------------------------------

WrapperStep(c) == Arm(c) \/ ReadFlag(c) \/ Park(c) \/ Wake(c) \/ Abort(c)
CompletionStep(c) == DropCompletion(c) \/ CompleteRemoves(c) \/ CompletePushes(c)

Next ==
    \/ \E c \in Conns :
          \/ \E k \in Kinds : Start(c, k)
          \/ Attach(c) \/ Planned(c) \/ PlanFails(c) \/ PlanCancelled(c)
          \/ WrapperStep(c) \/ Row(c) \/ RowError(c) \/ StreamEnds(c) \/ Disconnect(c)
          \/ CompletionStep(c) \/ RawEnds(c) \/ RawFails(c)
          \/ CancelRequest(c) \/ SlotCancel(c) \/ RequestNotify(c) \/ Close(c)
    \/ \E r \in Runs : DashboardCancel(r) \/ Report(r)
    \/ DashboardNotify

Spec == Init /\ [][Next]_vars

\* A connection's task is polled when it can go on, and a cancel that set the flag
\* goes on to notify.  Nothing is assumed of the source: no row may ever come.
FairSpec ==
    /\ Spec
    /\ \A c \in Conns : WF_vars(WrapperStep(c)) /\ WF_vars(CompletionStep(c))
                        /\ WF_vars(RequestNotify(c))
    /\ WF_vars(DashboardNotify)

-----------------------------------------------------------------------------
(* What the handler and the registry promise.                              *)

\* An entry of the live view belongs to a query a connection is working on: nothing
\* stays "running" after its query is gone, but a query whose do_query future
\* pgwire dropped for a CancelRequest while it was planned.
NoOrphans == \A r \in active \ cut : \E c \in Conns : cur[c] = r

\* A query with rows still to come is in the live view, whatever streams it answered
\* with; for the statements whose rows are wrapped.
RunningWhileStreaming ==
    \A c \in Conns : pc[c] # "raw" /\ cur[c] # 0 /\ streams[cur[c]] > 0 /\ kind[cur[c]] = "planned"
        => cur[c] \in active

\* The live view (QueryRegistry::active) is exact: nobody's query in it, no streaming one out of it.
LiveViewExact == NoOrphans /\ RunningWhileStreaming

\* "Called once per query when its result stream is fully drained": the same for
\* every statement that answers with rows.
CompletesWhenDrained == \A r \in Logged : streams[r] = 0

\* Rows are aborted only by a cancel aimed at their own query: a late cancel of an
\* earlier query on the connection hits a flag nobody watches.  The one way round
\* begin_query's fresh flag is a query that begins while a CancelRequest for the
\* connection is between manager.cancel's await and cancel_current.
AbortsOnlyTheTarget == aborted \subseteq aimed \cup overtaken

\* The history tells what happened: a failure for the queries that failed while they
\* were watched, success for the others, and for a query with wrapped rows success
\* means that no row failed at all (the rows of COPY, mixed and metadata statements
\* may fail after their success is recorded); cancelled only for a query some cancel
\* was aimed at, and a message with every failure but a metadata query's; each query
\* once, and never more than the ring and the stats of a query may hold.
HistoryTellsTruth ==
    /\ Len(history) <= HistoryCap /\ Cardinality(Logged) = Len(history)
    /\ \A i \in DOMAIN history : LET h == history[i] IN
        /\ h.stats <= StatsCap
        /\ (h.outcome = "success") = (h.run \notin errored)
        /\ kind[h.run] = "planned" => h.run \notin spoiled
        /\ h.outcome = "cancelled" => h.run \in aimed
        /\ h.outcome # "success" /\ kind[h.run] # "metadata" => h.message

\* A cancel of a query whose rows are streaming ends the stream although the source
\* never yields another row: no wake-up is lost.
CancelStops ==
    \A c \in Conns : (pc[c] = "streaming" /\ flag[cur[c]] \in fired) ~> pc[c] # "streaming"

\* "Query cancellation (the wire CancelRequest) is handled server-side for both the
\* planning and streaming phases": rows being sent when the request comes end.
CancelRequestStops ==
    \A c \in Conns : (pc[c] \in {"streaming", "raw"} /\ cur[c] \in aimed) ~> pc[c] \notin {"streaming", "raw"}
=============================================================================
