------------------------ MODULE QueryLifecycleProofs ------------------------
(***************************************************************************)
(* Proofs about queries and the live query registry (QueryLifecycle), for  *)
(* any connections, kinds of statement, number of queries, cancels and     *)
(* reports, and any size of the history ring.                              *)
(*                                                                         *)
(* The three properties are about the run a connection works on, so the    *)
(* inductive invariant first says that the work is well divided: runs are  *)
(* numbered in the order they start (Numbered), no two connections work on *)
(* one run (OneOwner), and what a connection's place says of its run       *)
(* (Stages).  On that rest who is in the live view (Watched), what a set   *)
(* flag can hit (FlagsAimed) and what the ring holds (Records).            *)
(***************************************************************************)
EXTENDS QueryLifecycle, FiniteSetTheorems, TLAPS

Places == {"idle", "started", "planning", "streaming", "dropping", "removing", "pushing", "raw", "closed"}
Record == [run : Runs, outcome : Outcomes, message : BOOLEAN, stats : 0 .. StatsCap]

\* TypeOK in parts.
TaskType ==
    /\ pc \in [Conns -> Places] /\ cur \in [Conns -> 0 .. MaxRuns]
    /\ kind \in [Runs -> AllKinds \cup {"none"}] /\ streams \in [Runs -> 0 .. MaxStreams]
SetType ==
    /\ errored \subseteq Runs /\ active \subseteq Runs /\ aimed \subseteq Runs
    /\ aborted \subseteq Runs /\ cut \subseteq Runs /\ gone \subseteq Conns
    /\ overtaken \subseteq Runs /\ spoiled \subseteq Runs
WatchType ==
    /\ poll \in [Runs -> {"rest", "armed", "checked", "parked"}] /\ woken \subseteq Runs
FlagType ==
    /\ slot \in [Conns -> 0 .. MaxRuns] /\ flag \in [Runs -> 0 .. MaxRuns]
    /\ fired \subseteq 0 .. MaxRuns /\ slotLock \subseteq Conns
    /\ asked \in [Conns -> Nat] /\ told \subseteq Conns
LockType == lock \in 0 .. MaxRuns
EntryType ==
    entry \in [Runs -> [handle : BOOLEAN, cancelled : BOOLEAN, message : BOOLEAN, stats : 0 .. StatsCap]]
HistoryType == history \in Seq(Record) /\ Len(history) <= HistoryCap

Types == TaskType /\ SetType /\ WatchType /\ FlagType /\ LockType /\ EntryType /\ HistoryType

\* The runs that have started are the first ones.
Numbered == \A q, r \in Runs : q <= r /\ kind[r] # "none" => kind[q] # "none"

\* No two connections work on the same run.
OneOwner == \A c, d \in Conns : cur[c] # 0 /\ cur[c] = cur[d] => c = d

\* What the place of a connection says of its run.
Stage(c) ==
    /\ cur[c] = 0 <=> pc[c] \in {"idle", "closed"}
    /\ cur[c] # 0 => kind[cur[c]] # "none"
    /\ pc[c] \in {"started", "streaming"} => kind[cur[c]] = "planned"
    /\ pc[c] \in {"started", "planning"} => streams[cur[c]] = 0
    /\ pc[c] = "streaming" => streams[cur[c]] > 0
    /\ pc[c] \in {"dropping", "removing", "pushing"} /\ kind[cur[c]] = "planned" => streams[cur[c]] = 0
    /\ pc[c] \in {"planning", "streaming"} /\ kind[cur[c]] = "planned" => flag[cur[c]] = cur[c]
    /\ pc[c] = "raw" => kind[cur[c]] # "planned"
Stages == \A c \in Conns : Stage(c)

\* A run has no streams before it starts.
Unborn == \A r \in Runs : kind[r] = "none" => streams[r] = 0

\* Rows fail unseen only for the statements whose rows nobody watches.
Unseen == \A r \in spoiled : kind[r] \notin {"none", "planned"}

\* A run is in the live view from its start to the first half of complete.
Watched ==
    /\ active \subseteq Started
    /\ \A c \in Conns : cur[c] # 0 => (cur[c] \in active <=> pc[c] \notin {"pushing", "raw"})
    /\ NoOrphans

\* A run watches its own flag, and a slot holds a flag that no other connection
\* watches; a flag that is set belongs to a run some cancel was aimed at, or that began
\* while a request was halfway, or to one that nobody works on.  A request that is
\* halfway has aimed at the run of the slot's flag, or was overtaken by it.
Halfway ==
    \A c \in Conns : asked[c] > 0 /\ cur[c] # 0 /\ slot[c] = cur[c] => cur[c] \in aimed \cup overtaken
FlagsAimed ==
    /\ \A r \in Runs : flag[r] \in {0, r}
    /\ \A c, d \in Conns : slot[c] # 0 /\ cur[d] = slot[c] => c = d
    /\ \A c \in Conns : slot[c] # 0 => kind[slot[c]] # "none"
    /\ \A r \in fired : r # 0 => kind[r] # "none" /\ (r \in aimed \cup overtaken \/ \A c \in Conns : cur[c] # r)
    /\ Halfway

\* The mark of an entry is a cancel's; an error has its message before the entry
\* leaves the live view.
Marked == \A r \in Runs : entry[r].cancelled => r \in aimed
Told ==
    \A c \in Conns : pc[c] \in {"removing", "pushing"} /\ cur[c] \in errored /\ kind[cur[c]] # "metadata"
        => entry[cur[c]].message

\* A record is of a run nobody will touch again, and tells what happened to it.
Settled(r) == kind[r] # "none" /\ \A c \in Conns : cur[c] = r => pc[c] = "raw"
Truthful(h) ==
    /\ (h.outcome = "success") <=> (h.run \notin errored)
    /\ h.outcome = "cancelled" => h.run \in aimed
    /\ h.outcome # "success" /\ kind[h.run] # "metadata" => h.message
RunsSettled == \A i \in DOMAIN history : Settled(history[i].run)
RecordsTrue == \A i \in DOMAIN history : Truthful(history[i])
Distinct == \A i, j \in DOMAIN history : history[i].run = history[j].run => i = j
Records == RunsSettled /\ RecordsTrue /\ Distinct

Work == Numbered /\ OneOwner /\ Stages /\ Unborn /\ Unseen
Promises == Watched /\ FlagsAimed /\ Marked /\ Told /\ Records /\ AbortsOnlyTheTarget
IInv == Types /\ Work /\ Promises

LEMMA Bounds ==
    /\ MaxRuns \in Nat \ {0} /\ MaxStreams \in Nat \ {0} /\ HistoryCap \in Nat \ {0} /\ StatsCap \in Nat \ {0}
    /\ Runs = 1 .. MaxRuns /\ 0 \notin Runs /\ Kinds \subseteq AllKinds /\ "none" \notin AllKinds
BY LifecycleBounds DEF Runs, AllKinds

\* No statement answers with more row streams than a message may have.
LEMMA AnswersBounded == \A k : 0 .. Answers(k) \subseteq 0 .. MaxStreams
BY Bounds DEF Answers

\* The number on_query_start gives is the next one: no run has it, and all before it
\* have started.
LEMMA NextNumber ==
    ASSUME TaskType, Numbered, Cardinality(Started) < MaxRuns
    PROVE  /\ Cardinality(Started) + 1 \in Runs
           /\ kind[Cardinality(Started) + 1] = "none"
           /\ \A q \in Runs : q < Cardinality(Started) + 1 => kind[q] # "none"
<1> DEFINE n == Cardinality(Started)
<1>1. IsFiniteSet(Runs) /\ Started \in SUBSET Runs
  BY Bounds, FS_Interval DEF Started
<1>2. IsFiniteSet(Started) /\ n \in Nat
  BY <1>1, FS_Subset, FS_CardinalityType
<1>3. n + 1 \in Runs
  BY <1>2, Bounds
<1>4. n + 1 \notin Started
  <2> SUFFICES ASSUME n + 1 \in Started PROVE FALSE
    OBVIOUS
  <2>1. 1 .. (n + 1) \in SUBSET Started
    <3>1. ASSUME NEW q \in 1 .. (n + 1) PROVE q \in Runs /\ q <= n + 1
      BY <1>2, <1>3, Bounds
    <3>2. kind[n + 1] # "none"
      BY DEF Started
    <3>3. ASSUME NEW q \in 1 .. (n + 1) PROVE kind[q] # "none"
      BY <1>3, <3>1, <3>2 DEF Numbered
    <3> QED BY <3>1, <3>3 DEF Started
  <2>2. Cardinality(1 .. (n + 1)) <= n
    BY <1>2, <2>1, FS_Subset
  <2>3. Cardinality(1 .. (n + 1)) = n + 1
    BY <1>2, FS_Interval
  <2> QED BY <1>2, <2>2, <2>3
<1>5. ASSUME NEW q \in Runs, q < n + 1, kind[q] = "none" PROVE FALSE
  <2>1. Started \in SUBSET (1 .. (q - 1))
    BY <1>5, Bounds DEF Numbered, Started
  <2>2. IsFiniteSet(1 .. (q - 1)) /\ Cardinality(1 .. (q - 1)) = q - 1
    BY <1>5, Bounds, FS_Interval
  <2>3. n <= q - 1
    BY <2>1, <2>2, FS_Subset
  <2> QED BY <1>2, <1>5, <2>3, Bounds
<1> QED BY <1>3, <1>4, <1>5 DEF Started

-----------------------------------------------------------------------------
(* Types.                                                                  *)

LEMMA InitTypes == Init => Types
<1> SUFFICES ASSUME Init PROVE Types
  OBVIOUS
<1>1. TaskType /\ SetType /\ WatchType /\ FlagType /\ LockType
  BY Bounds DEF Init, TaskType, SetType, WatchType, FlagType, LockType, Places
<1>2. EntryType
  BY Bounds DEF Init, EntryType, NoEntry
<1>3. HistoryType
  BY Bounds DEF Init, HistoryType
<1> QED BY <1>1, <1>2, <1>3 DEF Types

\* The ring after a record is pushed: what it holds was there, or is the record.
LEMMA Pushed ==
    ASSUME NEW h \in Seq(Record), Len(h) <= HistoryCap, NEW x \in Record
    PROVE  /\ Trim(Append(h, x)) \in Seq(Record)
           /\ Len(Trim(Append(h, x))) <= HistoryCap
           /\ \/ Trim(Append(h, x)) = Append(h, x)
              \/ Trim(Append(h, x)) = Tail(Append(h, x))
<1>1. Append(h, x) \in Seq(Record) /\ Len(Append(h, x)) = Len(h) + 1 /\ Append(h, x) # <<>>
  OBVIOUS
<1>2. Tail(Append(h, x)) \in Seq(Record) /\ Len(Tail(Append(h, x))) = Len(h)
  BY <1>1
<1>3. CASE Len(Append(h, x)) > HistoryCap
  BY <1>2, <1>3 DEF Trim
<1>4. CASE ~(Len(Append(h, x)) > HistoryCap)
  BY <1>1, <1>4, Bounds DEF Trim
<1> QED BY <1>3, <1>4

\* A connection that is neither idle nor closed works on a run that has started.
LEMMA Working ==
    ASSUME TaskType, Stages, NEW c \in Conns, pc[c] \notin {"idle", "closed"}
    PROVE  cur[c] \in Runs /\ cur[c] # 0 /\ kind[cur[c]] # "none"
BY Bounds DEF TaskType, Stages, Stage

LEMMA TaskTypeKept ==
    ASSUME Types, Numbered, Stages, [Next]_vars
    PROVE  TaskType'
<1> USE DEF Types
<1>1. ASSUME NEW c \in Conns, NEW k \in Kinds, Start(c, k) PROVE TaskType'
  <2>1. Cardinality(Started) + 1 \in Runs BY <1>1, NextNumber DEF Start
  <2>2. k \in AllKinds BY Bounds
  <2> QED BY <1>1, <2>1, <2>2, Bounds DEF Start, TaskType, Places
<1>2. ASSUME NEW c \in Conns, Attach(c) PROVE TaskType'
  BY <1>2 DEF Attach, TaskType, Places
<1>3. ASSUME NEW c \in Conns, Planned(c) PROVE TaskType'
  <2>1. cur[c] \in Runs BY <1>3, Working DEF Planned
  <2> QED BY <1>3, <2>1, AnswersBounded DEF Planned, TaskType, Places
<1>4. ASSUME NEW c \in Conns, PlanFails(c) PROVE TaskType'
  BY <1>4 DEF PlanFails, AfterPlanFailure, TaskType, Places
<1>5. ASSUME NEW c \in Conns, PlanCancelled(c) PROVE TaskType'
  BY <1>5, Bounds DEF PlanCancelled, TaskType, Places
<1>6. ASSUME NEW c \in Conns, Arm(c) \/ ReadFlag(c) \/ Park(c) \/ Wake(c) \/ Row(c) PROVE TaskType'
  BY <1>6 DEF Arm, ReadFlag, Park, Wake, Row, task, TaskType
<1>7. ASSUME NEW c \in Conns, Abort(c) \/ RowError(c) \/ Disconnect(c) PROVE TaskType'
  <2>1. cur[c] \in Runs BY <1>7, Working DEF Abort, RowError, Disconnect, At
  <2>2. pc' = [pc EXCEPT ![c] = "dropping"] /\ streams' = [streams EXCEPT ![cur[c]] = 0] /\ cur' = cur /\ kind' = kind
    BY <1>7 DEF Abort, RowError, Disconnect
  <2> QED BY <2>1, <2>2, Bounds DEF TaskType, Places
<1>8. ASSUME NEW c \in Conns, StreamEnds(c) PROVE TaskType'
  <2>1. cur[c] \in Runs /\ streams[cur[c]] > 0 /\ streams[cur[c]] \in 0 .. MaxStreams
    BY <1>8, Working DEF StreamEnds, At, Stages, Stage, TaskType
  <2>2. streams[cur[c]] - 1 \in 0 .. MaxStreams BY <2>1, Bounds
  <2> QED BY <1>8, <2>1, <2>2 DEF StreamEnds, TaskType, Places
<1>9. ASSUME NEW c \in Conns, CompletionStep(c) PROVE TaskType'
  <2>1. cur[c] \in Runs
    BY <1>9, Working DEF CompletionStep, DropCompletion, CompleteRemoves, CompletePushes
  <2>2. /\ kind' = kind /\ streams' = streams /\ (cur' = cur \/ cur' = [cur EXCEPT ![c] = 0])
        /\ \E p \in Places : pc' = [pc EXCEPT ![c] = p]
    BY <1>9 DEF CompletionStep, DropCompletion, CompleteRemoves, CompletePushes, Places
  <2>3. cur' \in [Conns -> 0 .. MaxRuns] BY <2>2, Bounds DEF TaskType
  <2>4. pc' \in [Conns -> Places] BY <2>2 DEF TaskType
  <2> QED BY <2>2, <2>3, <2>4 DEF TaskType
<1>10. ASSUME NEW c \in Conns, RawEnds(c) \/ RawFails(c) \/ Close(c) PROVE TaskType'
  <2>1. RawEnds(c) \/ RawFails(c) => cur[c] \in Runs BY Working DEF RawEnds, RawFails
  <2>2. CASE RawEnds(c) \/ RawFails(c)
    <3>1. /\ kind' = kind /\ streams' = [streams EXCEPT ![cur[c]] = 0] /\ cur' = [cur EXCEPT ![c] = 0]
          /\ \E p \in Places : pc' = [pc EXCEPT ![c] = p]
      BY <2>2 DEF RawEnds, RawFails, Places
    <3>2. pc' \in [Conns -> Places] BY <3>1 DEF TaskType
    <3> QED BY <2>1, <2>2, <3>1, <3>2, Bounds DEF TaskType
  <2>3. CASE Close(c) BY <2>3 DEF Close, TaskType, Places
  <2> QED BY <1>10, <2>2, <2>3
<1>11. ASSUME NEW c \in Conns, CancelRequest(c) \/ SlotCancel(c) \/ RequestNotify(c) PROVE TaskType'
  BY <1>11 DEF CancelRequest, SlotCancel, RequestNotify, task, TaskType
<1>12. ASSUME NEW r \in Runs, DashboardCancel(r) \/ Report(r) PROVE TaskType'
  BY <1>12 DEF DashboardCancel, Report, task, TaskType
<1>13. CASE DashboardNotify
  BY <1>13 DEF DashboardNotify, task, TaskType
<1>14. CASE UNCHANGED vars
  BY <1>14 DEF vars, task, TaskType
<1> QED
  BY <1>1, <1>2, <1>3, <1>4, <1>5, <1>6, <1>7, <1>8, <1>9, <1>10, <1>11, <1>12, <1>13, <1>14 DEF Next,
     WrapperStep

LEMMA SetTypeKept ==
    ASSUME Types, Numbered, Stages, [Next]_vars
    PROVE  SetType'
<1> USE DEF Types
<1>1. ASSUME NEW c \in Conns, NEW k \in Kinds, Start(c, k) PROVE SetType'
  <2>1. Cardinality(Started) + 1 \in Runs BY <1>1, NextNumber DEF Start
  <2> QED BY <1>1, <2>1 DEF Start, SetType, bounds, ghosts
<1>2. ASSUME NEW c \in Conns, Planned(c) \/ DropCompletion(c) \/ CompleteRemoves(c) \/ CompletePushes(c)
                              \/ RawEnds(c) \/ Close(c) PROVE SetType'
  BY <1>2 DEF Planned, DropCompletion, CompleteRemoves, CompletePushes, RawEnds, Close,
              registry, bounds, ghosts, SetType
<1>3. ASSUME NEW c \in Conns, PlanFails(c) \/ Abort(c) \/ RowError(c) \/ StreamEnds(c) \/ Disconnect(c) PROVE SetType'
  <2>1. cur[c] \in Runs BY <1>3, Working DEF PlanFails, Abort, RowError, StreamEnds, Disconnect, At
  <2> QED
    BY <1>3, <2>1 DEF PlanFails, Abort, RowError, StreamEnds, Disconnect, registry, bounds, ghosts, SetType
<1>4. ASSUME NEW c \in Conns, Attach(c) \/ PlanCancelled(c) \/ RawFails(c) PROVE SetType'
  <2>1. cur[c] \in Runs BY <1>4, Working DEF Attach, PlanCancelled, RawFails
  <2> QED BY <1>4, <2>1 DEF Attach, PlanCancelled, RawFails, registry, bounds, ghosts, SetType
<1>5. ASSUME NEW c \in Conns, Arm(c) \/ ReadFlag(c) \/ Park(c) \/ Wake(c) \/ Row(c) \/ SlotCancel(c) \/ RequestNotify(c) PROVE SetType'
  BY <1>5 DEF Arm, ReadFlag, Park, Wake, Row, SlotCancel, RequestNotify, task, registry, bounds, ghosts, SetType
<1>6. ASSUME NEW c \in Conns, CancelRequest(c) PROVE SetType'
  BY <1>6 DEF CancelRequest, task, registry, SetType
<1>7. ASSUME NEW r \in Runs, DashboardCancel(r) \/ Report(r) PROVE SetType'
  BY <1>7 DEF DashboardCancel, Report, task, ghosts, SetType
<1>8. CASE DashboardNotify
  BY <1>8 DEF DashboardNotify, task, bounds, ghosts, SetType
<1>9. CASE UNCHANGED vars
  BY <1>9 DEF vars, task, registry, bounds, ghosts, SetType
<1> QED BY <1>1, <1>2, <1>3, <1>4, <1>5, <1>6, <1>7, <1>8, <1>9 DEF Next, WrapperStep, CompletionStep

LEMMA WatchTypeKept ==
    ASSUME Types, Stages, [Next]_vars
    PROVE  WatchType'
<1> USE DEF Types
<1>1. ASSUME NEW c \in Conns, WrapperStep(c) \/ Row(c) \/ RowError(c) \/ StreamEnds(c) \/ Disconnect(c) PROVE WatchType'
  <2>1. cur[c] \in Runs
    BY <1>1, Working DEF WrapperStep, Arm, ReadFlag, Park, Wake, Abort, Row, RowError, StreamEnds, Disconnect,
       At
  <2>2. /\ \E p \in {"rest", "armed", "checked", "parked"} : poll' = [poll EXCEPT ![cur[c]] = p]
        /\ woken' = woken \/ woken' = woken \ {cur[c]}
    BY <1>1 DEF WrapperStep, Arm, ReadFlag, Park, Wake, Abort, Row, RowError, StreamEnds, Disconnect, Unwatched
  <2>3. poll' \in [Runs -> {"rest", "armed", "checked", "parked"}] BY <2>1, <2>2 DEF WatchType
  <2> QED BY <2>2, <2>3 DEF WatchType
<1>2. ASSUME NEW c \in Conns, (\E k \in Kinds : Start(c, k)) \/ Attach(c) \/ Planned(c) \/ PlanFails(c) \/ PlanCancelled(c)
                              \/ CompletionStep(c) \/ RawEnds(c) \/ RawFails(c) \/ CancelRequest(c) \/ SlotCancel(c)
                              \/ Close(c) PROVE WatchType'
  BY <1>2 DEF Start, Attach, Planned, PlanFails, PlanCancelled, CompletionStep, DropCompletion, CompleteRemoves,
              CompletePushes, RawEnds, RawFails, CancelRequest, SlotCancel, Close, watch, WatchType
<1>3. ASSUME NEW c \in Conns, RequestNotify(c) PROVE WatchType'
  BY <1>3 DEF RequestNotify, Notified, WatchType
<1>4. ASSUME NEW r \in Runs, DashboardCancel(r) \/ Report(r) PROVE WatchType'
  BY <1>4 DEF DashboardCancel, Report, watch, WatchType
<1>5. CASE DashboardNotify
  BY <1>5 DEF DashboardNotify, Notified, WatchType
<1>6. CASE UNCHANGED vars
  BY <1>6 DEF vars, watch, WatchType
<1> QED BY <1>1, <1>2, <1>3, <1>4, <1>5, <1>6 DEF Next

LEMMA FlagTypeKept ==
    ASSUME Types, Stages, [Next]_vars
    PROVE  FlagType' /\ LockType'
<1> USE DEF Types
<1>1. ASSUME NEW c \in Conns, Attach(c) PROVE FlagType' /\ LockType'
  <2>1. cur[c] \in Runs BY <1>1, Working DEF Attach
  <2> QED BY <1>1, <2>1, Bounds DEF Attach, FreshFlag, FlagType, LockType
<1>2. ASSUME NEW c \in Conns, CancelRequest(c) \/ SlotCancel(c) \/ RequestNotify(c) PROVE FlagType' /\ LockType'
  <2>1. /\ slot' = slot /\ flag' = flag /\ lock' = lock /\ told' \in {told, told \cup {d \in {c} : pc[c] \in {"started", "planning"}}}
        /\ fired' \in {fired, fired \cup {slot[c]}} /\ slotLock' \in {slotLock, slotLock \cup {c}, slotLock \ {c}}
        /\ \/ asked' = asked
           \/ asked' = [asked EXCEPT ![c] = asked[c] + 1]
           \/ asked[c] > 0 /\ asked' = [asked EXCEPT ![c] = asked[c] - 1]
    BY <1>2 DEF CancelRequest, SlotCancel, RequestNotify, registry
  <2>2. asked' \in [Conns -> Nat]
    <3>1. asked[c] \in Nat /\ asked \in [Conns -> Nat] BY DEF FlagType
    <3>2. asked[c] + 1 \in Nat /\ (asked[c] > 0 => asked[c] - 1 \in Nat) BY <3>1
    <3> QED BY <2>1, <3>1, <3>2
  <2>3. told' \subseteq Conns BY <2>1 DEF FlagType
  <2> QED BY <2>1, <2>2, <2>3 DEF FlagType, LockType
<1>3. ASSUME NEW c \in Conns, (\E k \in Kinds : Start(c, k)) \/ Planned(c) \/ PlanFails(c) \/ PlanCancelled(c)
                              \/ CompletionStep(c) \/ RawEnds(c) \/ RawFails(c) \/ Close(c)
      PROVE  FlagType' /\ LockType'
  BY <1>3 DEF Start, Planned, PlanFails, PlanCancelled, CompletionStep, DropCompletion, CompleteRemoves, CompletePushes,
              RawEnds, RawFails, Close, flags, registry, FlagType, LockType
<1>4. ASSUME NEW c \in Conns, WrapperStep(c) \/ Row(c) \/ RowError(c) \/ StreamEnds(c) \/ Disconnect(c)
      PROVE  FlagType' /\ LockType'
  BY <1>4 DEF WrapperStep, Arm, ReadFlag, Park, Wake, Abort, Row, RowError, StreamEnds, Disconnect,
              flags, registry, FlagType, LockType
<1>5. ASSUME NEW r \in Runs, DashboardCancel(r) PROVE FlagType' /\ LockType'
  <2>1. /\ slot' = slot /\ flag' = flag /\ lock' = r /\ slotLock' = slotLock /\ fired' = fired \cup {flag[r]}
        /\ asked' = asked /\ told' = told
    BY <1>5 DEF DashboardCancel
  <2>2. r \in 0 .. MaxRuns /\ flag[r] \in 0 .. MaxRuns BY Bounds DEF FlagType
  <2> QED BY <2>1, <2>2 DEF FlagType, LockType
<1>6. ASSUME NEW r \in Runs, Report(r) PROVE FlagType' /\ LockType'
  BY <1>6 DEF Report, flags, FlagType, LockType
<1>7. CASE DashboardNotify
  BY <1>7, Bounds DEF DashboardNotify, flags, FlagType, LockType
<1>8. CASE UNCHANGED vars
  BY <1>8 DEF vars, flags, registry, FlagType, LockType
<1> QED BY <1>1, <1>2, <1>3, <1>4, <1>5, <1>6, <1>7, <1>8 DEF Next

LEMMA EntryTypeKept ==
    ASSUME Types, Stages, [Next]_vars
    PROVE  EntryType'
<1> USE DEF Types
<1>1. ASSUME NEW c \in Conns, Attach(c) PROVE EntryType'
  <2>1. cur[c] \in Runs BY <1>1, Working DEF Attach
  <2> QED BY <1>1, <2>1 DEF Attach, EntryType
<1>2. ASSUME NEW c \in Conns, DropCompletion(c) PROVE EntryType'
  <2>1. cur[c] \in Runs BY <1>2, Working DEF DropCompletion
  <2>2. entry' = entry \/ entry' = [entry EXCEPT ![cur[c]].message = TRUE] BY <1>2 DEF DropCompletion
  <2> QED BY <2>1, <2>2 DEF EntryType
<1>3. ASSUME NEW c \in Conns, (\E k \in Kinds : Start(c, k)) \/ Planned(c) \/ PlanFails(c) \/ PlanCancelled(c)
                              \/ CompleteRemoves(c) \/ CompletePushes(c) \/ RawEnds(c) \/ RawFails(c) \/ CancelRequest(c)
                              \/ SlotCancel(c) \/ RequestNotify(c) \/ Close(c) PROVE EntryType'
  BY <1>3 DEF Start, Planned, PlanFails, PlanCancelled, CompleteRemoves, CompletePushes, RawEnds, RawFails,
              CancelRequest, SlotCancel, RequestNotify, Close, registry, EntryType
<1>4. ASSUME NEW c \in Conns, WrapperStep(c) \/ Row(c) \/ RowError(c) \/ StreamEnds(c) \/ Disconnect(c) PROVE EntryType'
  BY <1>4 DEF WrapperStep, Arm, ReadFlag, Park, Wake, Abort, Row, RowError, StreamEnds, Disconnect, registry,
     EntryType
<1>5. ASSUME NEW r \in Runs, DashboardCancel(r) PROVE EntryType'
  BY <1>5 DEF DashboardCancel, EntryType
<1>6. ASSUME NEW r \in Runs, Report(r) PROVE EntryType'
  <2>1. entry[r].stats \in 0 .. StatsCap BY DEF EntryType
  <2>2. OneMore(entry[r].stats) \in 0 .. StatsCap BY <2>1, Bounds DEF OneMore
  <2>3. entry' = entry \/ entry' = [entry EXCEPT ![r].stats = OneMore(entry[r].stats)] BY <1>6 DEF Report
  <2> QED BY <2>2, <2>3 DEF EntryType
<1>7. CASE DashboardNotify
  BY <1>7 DEF DashboardNotify, EntryType
<1>8. CASE UNCHANGED vars
  BY <1>8 DEF vars, registry, EntryType
<1> QED BY <1>1, <1>2, <1>3, <1>4, <1>5, <1>6, <1>7, <1>8 DEF Next, CompletionStep

\* The record that complete pushes.
RecordOf(r) == [run |-> r, outcome |-> OutcomeOf(r), message |-> entry[r].message, stats |-> entry[r].stats]

\* The records after a report on a run that is in the ring.
Updated(h, r) ==
    [i \in DOMAIN h |-> IF h[i].run = r THEN [h[i] EXCEPT !.stats = OneMore(@)] ELSE h[i]]

LEMMA RecordType ==
    ASSUME EntryType, NEW r \in Runs
    PROVE  RecordOf(r) \in Record
BY DEF EntryType, RecordOf, Record, OutcomeOf, Outcomes

LEMMA UpdatedType ==
    ASSUME NEW h \in Seq(Record), NEW r
    PROVE  /\ Updated(h, r) \in Seq(Record) /\ Len(Updated(h, r)) = Len(h)
           /\ \A i \in DOMAIN h : /\ Updated(h, r)[i].run = h[i].run
                                  /\ Updated(h, r)[i].outcome = h[i].outcome
                                  /\ Updated(h, r)[i].message = h[i].message
<1>1. ASSUME NEW x \in Record
      PROVE  LET y == [x EXCEPT !.stats = OneMore(x.stats)]
             IN  y \in Record /\ y.run = x.run /\ y.outcome = x.outcome /\ y.message = x.message
  <2>1. OneMore(x.stats) \in 0 .. StatsCap BY Bounds DEF Record, OneMore
  <2> QED BY <2>1 DEF Record
<1>2. ASSUME NEW i \in DOMAIN h
      PROVE  /\ Updated(h, r)[i] \in Record /\ Updated(h, r)[i].run = h[i].run
             /\ Updated(h, r)[i].outcome = h[i].outcome /\ Updated(h, r)[i].message = h[i].message
  BY <1>1 DEF Updated
<1>3. DOMAIN h = 1 .. Len(h) /\ Len(h) \in Nat /\ DOMAIN Updated(h, r) = DOMAIN h
  BY DEF Updated
<1>4. Updated(h, r) \in [1 .. Len(h) -> Record]
  BY <1>2, <1>3 DEF Updated
<1>5. Updated(h, r) \in Seq(Record) /\ Len(Updated(h, r)) = Len(h)
  BY <1>3, <1>4
<1> QED BY <1>2, <1>5

LEMMA LoggedRuns ==
    ASSUME HistoryType
    PROVE  \A i \in DOMAIN history : history[i] \in Record /\ history[i].run \in Runs
<1>1. ASSUME NEW i \in DOMAIN history PROVE history[i] \in Record
  BY DEF HistoryType
<1> QED BY <1>1 DEF Record

LEMMA HistoryTypeKept ==
    ASSUME Types, Stages, [Next]_vars
    PROVE  HistoryType'
<1> USE DEF Types
<1>1. ASSUME NEW c \in Conns, CompletePushes(c) PROVE HistoryType'
  <2>1. RecordOf(cur[c]) \in Record BY <1>1, Working, RecordType DEF CompletePushes
  <2>2. history' = Trim(Append(history, RecordOf(cur[c]))) BY <1>1 DEF CompletePushes, RecordOf
  <2> QED BY <2>1, <2>2, Pushed DEF HistoryType
<1>2. ASSUME NEW c \in Conns, (\E k \in Kinds : Start(c, k)) \/ Attach(c) \/ Planned(c) \/ PlanFails(c) \/ PlanCancelled(c)
                              \/ DropCompletion(c) \/ CompleteRemoves(c) \/ RawEnds(c) \/ RawFails(c) \/ CancelRequest(c)
                              \/ SlotCancel(c) \/ RequestNotify(c) \/ Close(c) PROVE HistoryType'
  BY <1>2 DEF Start, Attach, Planned, PlanFails, PlanCancelled, DropCompletion, CompleteRemoves, RawEnds, RawFails,
              CancelRequest, SlotCancel, RequestNotify, Close, registry, HistoryType
<1>3. ASSUME NEW c \in Conns, WrapperStep(c) \/ Row(c) \/ RowError(c) \/ StreamEnds(c) \/ Disconnect(c) PROVE HistoryType'
  BY <1>3 DEF WrapperStep, Arm, ReadFlag, Park, Wake, Abort, Row, RowError, StreamEnds, Disconnect, registry,
     HistoryType
<1>4. ASSUME NEW r \in Runs, DashboardCancel(r) \/ Report(r) PROVE HistoryType'
  <2>1. history' = history \/ history' = Updated(history, r) BY <1>4 DEF DashboardCancel, Report, Updated
  <2> QED BY <2>1, UpdatedType DEF HistoryType
<1>5. CASE DashboardNotify
  BY <1>5 DEF DashboardNotify, HistoryType
<1>6. CASE UNCHANGED vars
  BY <1>6 DEF vars, registry, HistoryType
<1> QED BY <1>1, <1>2, <1>3, <1>4, <1>5, <1>6 DEF Next, CompletionStep

LEMMA TypesKept ==
    ASSUME Types, Numbered, Stages, [Next]_vars
    PROVE  Types'
BY TaskTypeKept, SetTypeKept, WatchTypeKept, FlagTypeKept, EntryTypeKept, HistoryTypeKept DEF Types

-----------------------------------------------------------------------------
(* The steps.                                                              *)

\* A step of the wrapper or of a notification moves none of what the invariant is
\* about.
LEMMA QuietKeeps ==
    ASSUME IInv,
           UNCHANGED <<pc, cur, kind, streams, errored, slot, flag, fired, asked, active, entry, history, cut>>,
           UNCHANGED <<aimed, overtaken, aborted, spoiled>>
    PROVE  Work' /\ Promises'
<1> USE DEF IInv, Work, Promises
<1>1. Numbered' /\ OneOwner' /\ Unborn' /\ Unseen' BY DEF Numbered, OneOwner, Unborn, Unseen
<1>2. Stages' BY DEF Stages, Stage
<1>3. Watched' BY DEF Watched, Started, NoOrphans
<1>4. FlagsAimed' BY DEF FlagsAimed, Halfway
<1>5. Marked' /\ Told' BY DEF Marked, Told
<1>6. Records' BY DEF Records, RunsSettled, RecordsTrue, Distinct, Settled, Truthful
<1>7. AbortsOnlyTheTarget' BY DEF AbortsOnlyTheTarget
<1> QED BY <1>1, <1>2, <1>3, <1>4, <1>5, <1>6, <1>7

\* A connection moves its own run on, from planning or streaming, to streaming or to
\* its completion.
LEMMA OwnRunKeeps ==
    ASSUME IInv, NEW c \in Conns, pc[c] \in {"planning", "streaming"},
           NEW p \in {"streaming", "dropping"}, NEW n \in 0 .. MaxStreams,
           p = "streaming" => kind[cur[c]] = "planned" /\ n > 0,
           p = "dropping" /\ kind[cur[c]] = "planned" => n = 0,
           pc' = [pc EXCEPT ![c] = p], streams' = [streams EXCEPT ![cur[c]] = n],
           errored' \in {errored, errored \cup {cur[c]}},
           UNCHANGED <<cur, kind, slot, flag, fired, asked, active, entry, history, cut, aimed, overtaken, spoiled>>
    PROVE  Work' /\ Watched' /\ FlagsAimed' /\ Marked' /\ Told' /\ Records'
<1> USE DEF IInv, Work, Promises
<1>1. TaskType /\ cur[c] \in Runs /\ cur[c] # 0 BY Working DEF Types
<1>2. Numbered' /\ OneOwner' /\ Unseen' BY DEF Numbered, OneOwner, Unseen
<1>3. Unborn' BY <1>1, Working DEF Unborn, TaskType
<1>4. ASSUME NEW d \in Conns PROVE Stage(d)'
  <2>1. CASE d = c
    BY <1>1, <2>1 DEF Stages, Stage, TaskType
  <2>2. CASE d # c
    <3>1. pc'[d] = pc[d] /\ (cur[d] # 0 => cur[d] # cur[c])
      BY <1>1, <2>2 DEF OneOwner, TaskType
    <3>2. cur[d] # 0 => streams'[cur[d]] = streams[cur[d]]
      BY <1>1, <3>1, Bounds DEF TaskType
    <3> QED BY <3>1, <3>2 DEF Stages, Stage
  <2> QED BY <2>1, <2>2
<1>5. Watched'
  <2>1. \A d \in Conns : pc'[d] \in {"pushing", "raw"} <=> pc[d] \in {"pushing", "raw"}
    BY <1>1 DEF TaskType
  <2> QED BY <2>1 DEF Watched, Started, NoOrphans
<1>6. FlagsAimed' BY DEF FlagsAimed, Halfway
<1>7. Marked' BY DEF Marked
<1>8. Told'
  <2>1. ASSUME NEW d \in Conns, pc'[d] \in {"removing", "pushing"}
        PROVE  pc'[d] = pc[d] /\ cur[d] # cur[c]
    BY <1>1, <2>1 DEF TaskType, OneOwner
  <2> QED BY <2>1 DEF Told
<1>9. RunsSettled' /\ RecordsTrue'
  <2>1. ASSUME NEW i \in DOMAIN history PROVE history[i].run # cur[c] /\ Settled(history[i].run)
    BY DEF Records, RunsSettled, Settled
  <2>2. RunsSettled'
    <3>1. ASSUME NEW i \in DOMAIN history, NEW d \in Conns, cur[d] = history[i].run PROVE pc'[d] = "raw"
      BY <1>1, <2>1, <3>1 DEF Settled, TaskType
    <3> QED BY <2>1, <3>1 DEF RunsSettled, Settled
  <2>3. ASSUME NEW i \in DOMAIN history PROVE history[i].run \in errored' <=> history[i].run \in errored
    BY <2>1
  <2>4. RecordsTrue' BY <2>3 DEF Records, RecordsTrue, Truthful
  <2> QED BY <2>2, <2>4
<1>10. Distinct' BY DEF Records, Distinct
<1> QED BY <1>2, <1>3, <1>4, <1>5, <1>6, <1>7, <1>8, <1>9, <1>10 DEF Records, Stages

LEMMA StartKeeps ==
    ASSUME IInv, NEW c \in Conns, NEW k \in Kinds, Start(c, k)
    PROVE  Work' /\ Promises'
<1> USE DEF IInv, Work, Promises
<1> DEFINE r == Cardinality(Started) + 1
<1>1. /\ r \in Runs /\ kind[r] = "none" /\ \A q \in Runs : q < r => kind[q] # "none"
  BY NextNumber DEF Start, Types
<1>2. /\ kind' = [kind EXCEPT ![r] = k] /\ cur' = [cur EXCEPT ![c] = r] /\ active' = active \cup {r}
      /\ pc[c] = "idle" /\ pc' = [pc EXCEPT ![c] = IF k = "planned" THEN "started" ELSE "planning"]
      /\ UNCHANGED <<streams, errored, slot, flag, fired, asked, entry, history, cut, aimed, overtaken, aborted, spoiled>>
  BY DEF Start, flags, bounds, ghosts
<1> HIDE DEF r
<1>3. TaskType /\ k # "none" /\ r # 0 /\ k \in AllKinds BY <1>1, Bounds DEF Types
<1>4. \A d \in Conns : cur[d] # r
  BY <1>1, <1>3 DEF Stages, Stage, TaskType
<1>5. Numbered'
  <2> SUFFICES ASSUME NEW q \in Runs, NEW s \in Runs, q <= s, kind'[s] # "none" PROVE kind'[q] # "none"
    BY DEF Numbered
  <2>1. kind'[r] = k /\ \A x \in Runs : x # r => kind'[x] = kind[x] BY <1>1, <1>2 DEF TaskType, Types
  <2>2. CASE s = r
    <3>1. q = r \/ q < r BY <2>2, <1>1, Bounds
    <3> QED BY <1>1, <1>3, <2>1, <3>1
  <2>3. CASE s # r
    <3>1. kind[q] # "none" BY <2>1, <2>3 DEF Numbered
    <3> QED BY <1>1, <2>1, <3>1
  <2> QED BY <2>2, <2>3
<1>6. OneOwner' BY <1>2, <1>4 DEF OneOwner, Types, TaskType
<1>7. Unborn' /\ Unseen' BY <1>1, <1>2, <1>3 DEF Unborn, Unseen, TaskType, Types, SetType
<1>8. ASSUME NEW d \in Conns PROVE Stage(d)'
  <2>1. CASE d = c
    <3>1. cur'[d] = r /\ kind'[r] = k /\ streams'[r] = 0 BY <1>1, <1>2, <1>3, <2>1 DEF TaskType, Unborn
    <3>2. pc'[d] = IF k = "planned" THEN "started" ELSE "planning" BY <1>2, <1>3, <2>1 DEF TaskType
    <3> QED BY <1>3, <3>1, <3>2 DEF Stage
  <2>2. CASE d # c
    <3>1. cur'[d] = cur[d] /\ pc'[d] = pc[d] BY <1>2, <1>3, <2>2 DEF TaskType
    <3>2. cur[d] # 0 => kind'[cur[d]] = kind[cur[d]] BY <1>2, <1>3, <1>4, Bounds DEF TaskType
    <3> QED BY <1>2, <3>1, <3>2 DEF Stages, Stage
  <2> QED BY <2>1, <2>2
<1>9. Watched'
  <2>1. (active \subseteq Started)' BY <1>1, <1>2, <1>3 DEF Watched, Started, TaskType
  <2>2. ASSUME NEW d \in Conns, cur'[d] # 0 PROVE cur'[d] \in active' <=> pc'[d] \notin {"pushing", "raw"}
    BY <1>2, <1>3, <1>4, <2>2 DEF Watched, TaskType
  <2>3. NoOrphans'
    <3> SUFFICES ASSUME NEW q \in active' \ cut PROVE \E d \in Conns : cur'[d] = q
      BY <1>2 DEF NoOrphans
    <3>1. CASE q = r BY <1>2, <1>3, <3>1 DEF TaskType
    <3>2. CASE q # r
      <4>1. PICK d \in Conns : cur[d] = q BY <1>2, <3>2 DEF Watched, NoOrphans
      <4>2. q # 0 BY <1>2, <3>2, Bounds DEF Types, SetType
      <4>3. d # c BY <1>2, <4>1, <4>2 DEF Stages, Stage
      <4> QED BY <1>2, <1>3, <4>1, <4>3 DEF TaskType
    <3> QED BY <3>1, <3>2
  <2> QED BY <2>1, <2>2, <2>3 DEF Watched
<1>10. FlagsAimed'
  <2>1. ASSUME NEW d \in Conns, slot[d] # 0 PROVE slot[d] # r /\ kind'[slot[d]] # "none"
    BY <1>1, <1>2, <1>3, <2>1, Bounds DEF FlagsAimed, TaskType, Types, FlagType
  <2>2. ASSUME NEW d \in Conns, NEW e \in Conns, slot[d] # 0, cur'[e] = slot[d] PROVE d = e
    BY <1>2, <1>3, <2>1, <2>2 DEF FlagsAimed, TaskType
  <2>3. ASSUME NEW f \in fired, f # 0
        PROVE  kind'[f] # "none" /\ (f \in aimed \cup overtaken \/ \A d \in Conns : cur'[d] # f)
    <3>1. f # r /\ f \in Runs BY <1>1, <2>3, Bounds DEF FlagsAimed, Types, FlagType
    <3> QED BY <1>2, <1>3, <2>3, <3>1 DEF FlagsAimed, TaskType
  <2>4. Halfway' BY <1>2, <1>3, <2>1 DEF FlagsAimed, Halfway, TaskType
  <2> QED BY <1>2, <2>1, <2>2, <2>3, <2>4 DEF FlagsAimed
<1>11. Marked' BY <1>2 DEF Marked
<1>12. Told'
  <2>1. ASSUME NEW d \in Conns, pc'[d] \in {"removing", "pushing"}
        PROVE  pc'[d] = pc[d] /\ cur'[d] = cur[d] /\ kind'[cur[d]] = kind[cur[d]]
    <3>1. d # c /\ pc'[d] = pc[d] /\ cur'[d] = cur[d] BY <1>2, <1>3, <2>1 DEF TaskType
    <3>2. cur[d] \in Runs BY <2>1, <3>1, Working DEF Types
    <3> QED BY <1>2, <1>3, <1>4, <3>1, <3>2 DEF TaskType
  <2> QED BY <1>2, <2>1 DEF Told
<1>13. Records'
  <2>1. ASSUME NEW i \in DOMAIN history
        PROVE  history[i].run # r /\ history[i].run \in Runs /\ Settled(history[i].run) /\ Truthful(history[i])
    <3>1. history[i].run \in Runs BY LoggedRuns DEF Types
    <3>2. Settled(history[i].run) /\ Truthful(history[i]) BY DEF Records, RunsSettled, RecordsTrue
    <3> QED BY <1>1, <3>1, <3>2 DEF Settled
  <2>2. ASSUME NEW i \in DOMAIN history PROVE Settled(history[i].run)'
    <3>1. kind'[history[i].run] = kind[history[i].run] BY <1>2, <1>3, <2>1 DEF TaskType
    <3>2. ASSUME NEW d \in Conns, cur'[d] = history[i].run PROVE pc'[d] = "raw"
      BY <1>2, <1>3, <2>1, <3>2 DEF TaskType, Settled
    <3> QED BY <1>2, <2>1, <3>1, <3>2 DEF Settled
  <2>3. ASSUME NEW i \in DOMAIN history PROVE Truthful(history[i])'
    <3>1. kind'[history[i].run] = kind[history[i].run] BY <1>2, <1>3, <2>1 DEF TaskType
    <3> QED BY <1>2, <2>1, <3>1 DEF Truthful
  <2> QED BY <1>2, <2>2, <2>3 DEF Records, RunsSettled, RecordsTrue, Distinct
<1>14. AbortsOnlyTheTarget' BY <1>2 DEF AbortsOnlyTheTarget
<1> QED BY <1>5, <1>6, <1>7, <1>8, <1>9, <1>10, <1>11, <1>12, <1>13, <1>14 DEF Stages

LEMMA AttachKeeps ==
    ASSUME IInv, NEW c \in Conns, Attach(c)
    PROVE  Work' /\ Promises'
<1> USE DEF IInv, Work, Promises
<1>1. /\ pc[c] = "started" /\ pc' = [pc EXCEPT ![c] = "planning"]
      /\ slot' = [slot EXCEPT ![c] = cur[c]] /\ flag' = [flag EXCEPT ![cur[c]] = cur[c]]
      /\ entry' = [entry EXCEPT ![cur[c]].handle = TRUE]
      /\ overtaken' = IF asked[c] > 0 THEN overtaken \cup {cur[c]} ELSE overtaken
      /\ UNCHANGED <<cur, kind, streams, errored, fired, asked, active, history, cut, aimed, aborted, spoiled>>
  BY DEF Attach, FreshFlag, bounds
<1>2. TaskType /\ FlagType /\ cur[c] \in Runs /\ cur[c] # 0 /\ kind[cur[c]] # "none"
  BY <1>1, Working DEF Types
<1>3. Numbered' /\ OneOwner' /\ Unborn' /\ Unseen' BY <1>1 DEF Numbered, OneOwner, Unborn, Unseen
<1>4. ASSUME NEW d \in Conns PROVE Stage(d)'
  <2>1. CASE d = c
    BY <1>1, <1>2, <2>1 DEF Stages, Stage, TaskType, FlagType
  <2>2. CASE d # c
    <3>1. pc'[d] = pc[d] /\ (cur[d] # 0 => cur[d] # cur[c])
      BY <1>1, <1>2, <2>2 DEF OneOwner, TaskType
    <3>2. cur[d] # 0 => flag'[cur[d]] = flag[cur[d]]
      BY <1>1, <1>2, <3>1, Bounds DEF TaskType, FlagType
    <3> QED BY <1>1, <3>1, <3>2 DEF Stages, Stage
  <2> QED BY <2>1, <2>2
<1>5. Watched'
  <2>1. \A d \in Conns : pc'[d] \in {"pushing", "raw"} <=> pc[d] \in {"pushing", "raw"}
    BY <1>1, <1>2 DEF TaskType
  <2> QED BY <1>1, <2>1 DEF Watched, Started, NoOrphans
<1>6. FlagsAimed'
  <2>1. \A r \in Runs : flag'[r] \in {0, r} BY <1>1, <1>2 DEF FlagsAimed, FlagType
  <2>2. ASSUME NEW d \in Conns, slot'[d] # 0 PROVE kind[slot'[d]] # "none" /\ \A e \in Conns : cur[e] = slot'[d] => d = e
    BY <1>1, <1>2, <2>2 DEF FlagsAimed, FlagType, OneOwner
  <2>3. Halfway' BY <1>1, <1>2 DEF FlagsAimed, Halfway, FlagType
  <2>4. \A f \in fired : f # 0 => kind[f] # "none" /\ (f \in aimed \cup overtaken' \/ \A d \in Conns : cur[d] # f)
    BY <1>1 DEF FlagsAimed
  <2> QED BY <1>1, <2>1, <2>2, <2>3, <2>4 DEF FlagsAimed
<1>7. Marked' /\ Told'
  <2>1. ASSUME NEW r \in Runs PROVE entry'[r].cancelled = entry[r].cancelled /\ entry'[r].message = entry[r].message
    BY <1>1, <1>2 DEF Types, EntryType
  <2>2. Marked' BY <1>1, <2>1 DEF Marked
  <2>3. ASSUME NEW d \in Conns, pc'[d] \in {"removing", "pushing"} PROVE pc'[d] = pc[d] /\ cur[d] \in Runs
    BY <1>1, <1>2, <2>3, Working DEF TaskType
  <2>4. Told' BY <1>1, <2>1, <2>3 DEF Told
  <2> QED BY <2>2, <2>4
<1>8. Records'
  <2>1. ASSUME NEW i \in DOMAIN history PROVE Settled(history[i].run)'
    <3>1. ASSUME NEW d \in Conns, cur[d] = history[i].run PROVE pc'[d] = "raw"
      BY <1>1, <1>2, <3>1 DEF Records, RunsSettled, Settled, TaskType
    <3> QED BY <1>1, <3>1 DEF Records, RunsSettled, Settled
  <2> QED BY <1>1, <2>1 DEF Records, RunsSettled, RecordsTrue, Distinct, Truthful
<1>9. AbortsOnlyTheTarget' BY <1>1 DEF AbortsOnlyTheTarget
<1> QED BY <1>3, <1>4, <1>5, <1>6, <1>7, <1>8, <1>9 DEF Stages

\* A connection lets go of its run: nothing that is settled comes undone, and a flag
\* its slot still holds is watched by nobody.
LEMMA LeaveKeeps ==
    ASSUME IInv, NEW c \in Conns, NEW q \in Runs, cur[c] = q, NEW p \in {"idle", "closed"},
           pc' = [pc EXCEPT ![c] = p], cur' = [cur EXCEPT ![c] = 0],
           streams' \in {streams, [streams EXCEPT ![cur[c]] = 0]},
           cut' \in {cut, cut \cup {cur[c]}}, cur[c] \in active => cur[c] \in cut',
           spoiled' \in {spoiled, spoiled \cup {cur[c]}}, cur[c] \in spoiled' => kind[cur[c]] # "planned",
           UNCHANGED <<kind, slot, flag, fired, asked, errored, active, entry, aimed, overtaken, aborted>>
    PROVE  /\ Work' /\ Watched' /\ FlagsAimed' /\ Marked' /\ Told' /\ AbortsOnlyTheTarget'
           /\ \A r \in Runs : Settled(r) => Settled(r)'
           /\ Settled(q)'
<1> USE DEF IInv, Work, Promises
<1>1. TaskType /\ FlagType /\ cur[c] \in Runs /\ cur[c] # 0 /\ kind[cur[c]] # "none"
  BY Bounds DEF Types, TaskType, Stages, Stage
<1>2. pc'[c] = p /\ cur'[c] = 0 /\ \A d \in Conns : d # c => pc'[d] = pc[d] /\ cur'[d] = cur[d]
  BY <1>1 DEF TaskType
<1>3. \A d \in Conns : d # c => cur[d] # cur[c] BY <1>1 DEF OneOwner
<1>4. Numbered' BY DEF Numbered
<1>5. OneOwner' BY <1>2 DEF OneOwner
<1>6. Unborn' /\ Unseen' BY <1>1 DEF Unborn, Unseen, TaskType
<1>7. ASSUME NEW d \in Conns PROVE Stage(d)'
  <2>1. CASE d = c BY <1>2, <2>1 DEF Stage
  <2>2. CASE d # c
    <3>1. cur[d] # 0 => streams'[cur[d]] = streams[cur[d]]
      BY <1>1, <1>3, <2>2, Bounds DEF TaskType
    <3> QED BY <1>2, <2>2, <3>1 DEF Stages, Stage
  <2> QED BY <2>1, <2>2
<1>8. Watched'
  <2>1. (active \subseteq Started)' BY DEF Watched, Started
  <2>2. ASSUME NEW d \in Conns, cur'[d] # 0 PROVE cur'[d] \in active' <=> pc'[d] \notin {"pushing", "raw"}
    BY <1>2, <2>2 DEF Watched
  <2>3. ASSUME NEW s \in active \ cut' PROVE \E d \in Conns : cur'[d] = s
    <3>1. PICK d \in Conns : cur[d] = s BY DEF Watched, NoOrphans
    <3>2. d # c BY <3>1
    <3> QED BY <1>2, <3>1, <3>2
  <2> QED BY <2>1, <2>2, <2>3 DEF Watched, NoOrphans
<1>9. FlagsAimed'
  <2>1. ASSUME NEW d \in Conns, NEW e \in Conns, slot[d] # 0, cur'[e] = slot[d] PROVE d = e
    BY <1>2, <2>1 DEF FlagsAimed
  <2>2. ASSUME NEW f \in fired, f # 0
        PROVE  kind[f] # "none" /\ (f \in aimed \cup overtaken \/ \A d \in Conns : cur'[d] # f)
    BY <1>2, <2>2 DEF FlagsAimed
  <2>3. Halfway' BY <1>2 DEF FlagsAimed, Halfway
  <2> QED BY <2>1, <2>2, <2>3 DEF FlagsAimed
<1>10. Marked' BY DEF Marked
<1>11. Told' BY <1>2 DEF Told
<1>12. AbortsOnlyTheTarget' BY DEF AbortsOnlyTheTarget
<1>13. ASSUME NEW r \in Runs, Settled(r) PROVE Settled(r)'
  <2>1. ASSUME NEW d \in Conns, cur'[d] = r PROVE pc'[d] = "raw"
    BY <1>2, <1>13, <2>1, Bounds DEF Settled
  <2> QED BY <1>13, <2>1 DEF Settled
<1>14. Settled(q)' BY <1>1, <1>2, <1>3, Bounds DEF Settled
<1> QED BY <1>4, <1>5, <1>6, <1>7, <1>8, <1>9, <1>10, <1>11, <1>12, <1>13, <1>14 DEF Stages

\* What was recorded stays true when only cancels are aimed and settled runs stay so.
LEMMA RecordsStay ==
    ASSUME IInv, UNCHANGED <<kind, errored, history>>, aimed \subseteq aimed',
           \A r \in Runs : Settled(r) => Settled(r)'
    PROVE  Records'
<1> USE DEF IInv, Promises
<1>1. \A i \in DOMAIN history : history[i].run \in Runs BY LoggedRuns DEF Types
<1>2. RunsSettled' BY <1>1 DEF Records, RunsSettled
<1>3. RecordsTrue' BY DEF Records, RecordsTrue, Truthful
<1>4. Distinct' BY DEF Records, Distinct
<1> QED BY <1>2, <1>3, <1>4 DEF Records

LEMMA PlanCancelledKeeps ==
    ASSUME IInv, NEW c \in Conns, PlanCancelled(c)
    PROVE  Work' /\ Promises'
<1>1. /\ pc[c] \in {"started", "planning"} /\ pc' = [pc EXCEPT ![c] = "idle"] /\ cur' = [cur EXCEPT ![c] = 0]
      /\ cut' = cut \cup {cur[c]}
      /\ UNCHANGED <<kind, streams, slot, flag, fired, asked, errored, active, entry, history,
                     aimed, overtaken, aborted, spoiled>>
  BY DEF PlanCancelled, registry, ghosts
<1>2. cur[c] \in Runs /\ (cur[c] \in spoiled => kind[cur[c]] # "planned")
  BY <1>1, Working DEF IInv, Types, Work, Unseen
<1>3. /\ Work' /\ Watched' /\ FlagsAimed' /\ Marked' /\ Told' /\ AbortsOnlyTheTarget'
      /\ \A r \in Runs : Settled(r) => Settled(r)'
  BY <1>1, <1>2, LeaveKeeps
<1>4. Records' BY <1>1, <1>3, RecordsStay
<1> QED BY <1>3, <1>4 DEF Promises

LEMMA RawEndsKeeps ==
    ASSUME IInv, NEW c \in Conns, RawEnds(c) \/ RawFails(c)
    PROVE  Work' /\ Promises'
<1>1. /\ pc[c] = "raw" /\ cur' = [cur EXCEPT ![c] = 0]
      /\ \E p \in {"idle", "closed"} : pc' = [pc EXCEPT ![c] = p]
      /\ streams' = [streams EXCEPT ![cur[c]] = 0] /\ spoiled' \in {spoiled, spoiled \cup {cur[c]}}
      /\ UNCHANGED <<kind, slot, flag, fired, asked, errored, active, entry, history, cut, aimed, overtaken, aborted>>
  BY DEF RawEnds, RawFails, registry, flags, bounds, ghosts
<1>2. cur[c] \in Runs /\ cur[c] # 0 BY <1>1, Working DEF IInv, Types, Work
<1>3. cur[c] \notin active /\ kind[cur[c]] # "planned"
  BY <1>1, <1>2 DEF IInv, Work, Stages, Stage, Promises, Watched
<1>4. /\ Work' /\ Watched' /\ FlagsAimed' /\ Marked' /\ Told' /\ AbortsOnlyTheTarget'
      /\ \A r \in Runs : Settled(r) => Settled(r)'
  <2>1. PICK p \in {"idle", "closed"} : pc' = [pc EXCEPT ![c] = p] BY <1>1
  <2> QED BY <1>1, <1>2, <1>3, <2>1, LeaveKeeps
<1>5. Records' BY <1>1, <1>4, RecordsStay
<1> QED BY <1>4, <1>5 DEF Promises

\* The first two steps of a completion: the run keeps its owner.
LEMMA CompletesKeeps ==
    ASSUME IInv, NEW c \in Conns, DropCompletion(c) \/ CompleteRemoves(c)
    PROVE  Work' /\ Promises'
<1> USE DEF IInv, Work, Promises
<1>1. /\ \/ /\ pc[c] = "dropping" /\ pc' = [pc EXCEPT ![c] = "removing"] /\ active' = active
            /\ entry' = IF cur[c] \in errored /\ kind[cur[c]] # "metadata" THEN [entry EXCEPT ![cur[c]].message = TRUE] ELSE entry
         \/ /\ pc[c] = "removing" /\ pc' = [pc EXCEPT ![c] = "pushing"] /\ active' = active \ {cur[c]} /\ entry' = entry
      /\ UNCHANGED <<cur, kind, streams, errored, slot, flag, fired, asked, history, cut,
                     aimed, overtaken, aborted, spoiled>>
  BY DEF DropCompletion, CompleteRemoves, flags, bounds, ghosts
<1>2. TaskType /\ cur[c] \in Runs /\ cur[c] # 0 BY <1>1, Working DEF Types
<1>3. \A d \in Conns : d # c => pc'[d] = pc[d] /\ cur[d] # cur[c]
  BY <1>1, <1>2 DEF TaskType, OneOwner
<1>4. \/ pc'[c] = "removing" /\ pc[c] = "dropping" /\ active' = active
      \/ pc'[c] = "pushing" /\ pc[c] = "removing" /\ active' = active \ {cur[c]}
  BY <1>1, <1>2 DEF TaskType
<1>5. Numbered' /\ OneOwner' /\ Unborn' /\ Unseen' BY <1>1 DEF Numbered, OneOwner, Unborn, Unseen
<1>6. ASSUME NEW d \in Conns PROVE Stage(d)'
  BY <1>1, <1>2, <1>3, <1>4 DEF Stages, Stage
<1>7. Watched'
  <2>1. (active \subseteq Started)' BY <1>1 DEF Watched, Started
  <2>2. ASSUME NEW d \in Conns, cur[d] # 0 PROVE cur[d] \in active' <=> pc'[d] \notin {"pushing", "raw"}
    BY <1>3, <1>4, <2>2 DEF Watched
  <2> QED BY <1>1, <1>4, <2>1, <2>2 DEF Watched, NoOrphans
<1>8. FlagsAimed' BY <1>1 DEF FlagsAimed, Halfway
<1>9. ASSUME NEW r \in Runs PROVE entry'[r].cancelled = entry[r].cancelled
  BY <1>1, <1>2 DEF Types, EntryType
<1>10. Marked' BY <1>1, <1>9 DEF Marked
<1>11. Told'
  <2>1. ASSUME NEW d \in Conns, d # c, pc'[d] \in {"removing", "pushing"}, cur[d] \in errored, kind[cur[d]] # "metadata"
        PROVE  entry'[cur[d]].message
    <3>1. cur[d] \in Runs /\ cur[d] # cur[c] /\ entry[cur[d]].message BY <1>3, <2>1, Working DEF Told, Types
    <3>2. entry'[cur[d]] = entry[cur[d]] BY <1>1, <1>2, <3>1 DEF Types, EntryType
    <3> QED BY <3>1, <3>2
  <2>2. ASSUME cur[c] \in errored, kind[cur[c]] # "metadata" PROVE entry'[cur[c]].message
    <3>1. CASE pc[c] = "removing"
      <4>1. entry' = entry BY <1>1, <3>1
      <4>2. entry[cur[c]].message BY <2>2, <3>1 DEF Told
      <4> QED BY <4>1, <4>2
    <3>2. CASE pc[c] = "dropping"
      <4>1. entry' = [entry EXCEPT ![cur[c]].message = TRUE] BY <1>1, <2>2, <3>2
      <4>2. entry'[cur[c]].message = TRUE BY <1>2, <4>1 DEF Types, EntryType
      <4> QED BY <4>2
    <3> QED BY <1>1, <3>1, <3>2
  <2> QED BY <1>1, <2>1, <2>2 DEF Told
<1>12. Records'
  <2>1. ASSUME NEW r \in Runs, Settled(r) PROVE Settled(r)'
    BY <1>1, <1>3, <1>4, <2>1 DEF Settled
  <2> QED BY <1>1, <2>1, RecordsStay
<1>13. AbortsOnlyTheTarget' BY <1>1 DEF AbortsOnlyTheTarget
<1> QED BY <1>5, <1>6, <1>7, <1>8, <1>10, <1>11, <1>12, <1>13 DEF Stages

\* A record of a new run, pushed into a ring of other runs' records.
LEMMA PushedRecords ==
    ASSUME NEW h \in Seq(Record), Len(h) <= HistoryCap, NEW x \in Record,
           \A i, j \in DOMAIN h : h[i].run = h[j].run => i = j,
           \A i \in DOMAIN h : h[i].run # x.run
    PROVE  LET g == Trim(Append(h, x))
           IN  /\ \A i \in DOMAIN g : g[i] = x \/ \E j \in DOMAIN h : g[i] = h[j]
               /\ \A i, j \in DOMAIN g : g[i].run = g[j].run => i = j
<1> DEFINE a == Append(h, x)
<1>1. a \in Seq(Record) /\ Len(a) = Len(h) + 1 /\ a # <<>> /\ DOMAIN a = 1 .. Len(h) + 1 /\ Len(h) \in Nat
  OBVIOUS
<1>2. a[Len(h) + 1] = x /\ \A i \in 1 .. Len(h) : a[i] = h[i]
  OBVIOUS
<1>3. \A i \in DOMAIN a : a[i] = x \/ \E j \in DOMAIN h : a[i] = h[j]
  BY <1>1, <1>2
<1>4. \A i, j \in DOMAIN a : a[i].run = a[j].run => i = j
  BY <1>1, <1>2
<1>5. DOMAIN Tail(a) = 1 .. Len(h) /\ \A i \in 1 .. Len(h) : i + 1 \in DOMAIN a /\ Tail(a)[i] = a[i + 1]
  BY <1>1
<1> HIDE DEF a
<1>6. \A i \in DOMAIN Tail(a) : Tail(a)[i] = x \/ \E j \in DOMAIN h : Tail(a)[i] = h[j]
  BY <1>3, <1>5
<1>7. \A i, j \in DOMAIN Tail(a) : Tail(a)[i].run = Tail(a)[j].run => i = j
  <2> SUFFICES ASSUME NEW i \in 1 .. Len(h), NEW j \in 1 .. Len(h), Tail(a)[i].run = Tail(a)[j].run PROVE i = j
    BY <1>5
  <2>1. i + 1 = j + 1 BY <1>4, <1>5
  <2> QED BY <1>1, <2>1
<1>8. Trim(a) = a \/ Trim(a) = Tail(a) BY DEF Trim
<1>9. \A i \in DOMAIN Trim(a) : Trim(a)[i] = x \/ \E j \in DOMAIN h : Trim(a)[i] = h[j]
  <2>1. CASE Trim(a) = a BY <1>3, <2>1
  <2>2. CASE Trim(a) = Tail(a) BY <1>6, <2>2
  <2> QED BY <1>8, <2>1, <2>2
<1>10. \A i, j \in DOMAIN Trim(a) : Trim(a)[i].run = Trim(a)[j].run => i = j
  <2>1. CASE Trim(a) = a BY <1>4, <2>1
  <2>2. CASE Trim(a) = Tail(a) BY <1>7, <2>2
  <2> QED BY <1>8, <2>1, <2>2
<1> QED BY <1>9, <1>10 DEF a

\* The second half of complete: the record is true, and it is the run's only one.
LEMMA PushesKeeps ==
    ASSUME IInv, NEW c \in Conns, CompletePushes(c)
    PROVE  Work' /\ Promises'
<1> USE DEF IInv, Work, Promises
<1>1. /\ pc[c] = "pushing" /\ history' = Trim(Append(history, RecordOf(cur[c])))
      /\ \/ pc' = [pc EXCEPT ![c] = "raw"] /\ cur' = cur /\ streams[cur[c]] > 0
         \/ \E p \in {"idle", "closed"} : pc' = [pc EXCEPT ![c] = p] /\ cur' = [cur EXCEPT ![c] = 0]
      /\ UNCHANGED <<kind, streams, errored, slot, flag, fired, asked, active, entry, cut,
                     aimed, overtaken, aborted, spoiled>>
  BY DEF CompletePushes, RecordOf, flags, bounds, ghosts
<1>2. TaskType /\ cur[c] \in Runs /\ cur[c] # 0 /\ kind[cur[c]] # "none" BY <1>1, Working DEF Types
<1>3. cur[c] \notin active BY <1>1, <1>2 DEF Watched
<1>4. PICK r \in Runs : r = cur[c] BY <1>2
<1>5. /\ Work' /\ Watched' /\ FlagsAimed' /\ Marked' /\ Told' /\ AbortsOnlyTheTarget'
      /\ \A q \in Runs : Settled(q) => Settled(q)'
      /\ Settled(r)'
  <2>1. CASE pc' = [pc EXCEPT ![c] = "raw"] /\ cur' = cur /\ streams[cur[c]] > 0
    <3>1. pc'[c] = "raw" /\ \A d \in Conns : d # c => pc'[d] = pc[d] /\ cur[d] # cur[c]
      BY <1>2, <2>1 DEF TaskType, OneOwner
    <3>2. Numbered' /\ OneOwner' /\ Unborn' /\ Unseen' BY <1>1, <2>1 DEF Numbered, OneOwner, Unborn, Unseen
    <3>3. ASSUME NEW d \in Conns PROVE Stage(d)'
      <4>1. kind[cur[c]] # "planned" BY <1>1, <1>2, <2>1 DEF Stages, Stage
      <4> QED BY <1>1, <1>2, <2>1, <3>1, <4>1 DEF Stages, Stage
    <3>4. Watched'
      <4>1. (active \subseteq Started)' BY <1>1 DEF Watched, Started
      <4>2. ASSUME NEW d \in Conns, cur[d] # 0 PROVE cur[d] \in active' <=> pc'[d] \notin {"pushing", "raw"}
        BY <1>1, <1>3, <3>1, <4>2 DEF Watched
      <4> QED BY <1>1, <2>1, <4>1, <4>2 DEF Watched, NoOrphans
    <3>5. FlagsAimed' BY <1>1, <2>1 DEF FlagsAimed, Halfway
    <3>6. Marked' /\ AbortsOnlyTheTarget' BY <1>1 DEF Marked, AbortsOnlyTheTarget
    <3>7. Told' BY <1>1, <2>1, <3>1 DEF Told
    <3>8. ASSUME NEW q \in Runs, Settled(q) PROVE Settled(q)'
      BY <1>1, <2>1, <3>1, <3>8 DEF Settled
    <3>9. Settled(r)' BY <1>1, <1>2, <1>4, <2>1, <3>1 DEF Settled
    <3> QED BY <3>2, <3>3, <3>4, <3>5, <3>6, <3>7, <3>8, <3>9 DEF Stages
  <2>2. CASE \E p \in {"idle", "closed"} : pc' = [pc EXCEPT ![c] = p] /\ cur' = [cur EXCEPT ![c] = 0]
    <3>1. PICK p \in {"idle", "closed"} : pc' = [pc EXCEPT ![c] = p] /\ cur' = [cur EXCEPT ![c] = 0]
      BY <2>2
    <3>2. cur[c] \in spoiled => kind[cur[c]] # "planned" BY DEF Unseen
    <3> QED BY <1>1, <1>3, <1>4, <3>1, <3>2, LeaveKeeps
  <2> QED BY <1>1, <2>1, <2>2
<1>6. RecordOf(r) \in Record /\ RecordOf(r).run = r BY RecordType DEF Types, RecordOf
<1>7. Truthful(RecordOf(r))'
  <2>1. RecordOf(r)' = RecordOf(r) BY <1>1 DEF RecordOf, OutcomeOf
  <2>2. Truthful(RecordOf(r))
    <3>1. entry[r].cancelled => r \in aimed BY DEF Marked
    <3>2. r \in errored /\ kind[r] # "metadata" => entry[r].message BY <1>1, <1>4 DEF Told
    <3>3. RecordOf(r).outcome = OutcomeOf(r) /\ RecordOf(r).message = entry[r].message BY DEF RecordOf
    <3>4. /\ OutcomeOf(r) = "success" <=> r \notin errored
          /\ OutcomeOf(r) = "cancelled" => entry[r].cancelled
      BY DEF OutcomeOf
    <3> QED BY <1>6, <3>1, <3>2, <3>3, <3>4 DEF Truthful
  <2> QED BY <1>1, <2>1, <2>2 DEF Truthful
<1>8. \A i \in DOMAIN history : history[i].run # r /\ history[i].run \in Runs
  <2>1. \A i \in DOMAIN history : Settled(history[i].run) BY DEF Records, RunsSettled
  <2>2. ~Settled(r) BY <1>1, <1>4 DEF Settled
  <2> QED BY <2>1, <2>2, LoggedRuns DEF Types
<1>9. /\ \A i \in DOMAIN history' : history'[i] = RecordOf(r) \/ \E j \in DOMAIN history : history'[i] = history[j]
      /\ Distinct'
  <2>1. history \in Seq(Record) /\ Len(history) <= HistoryCap BY DEF Types, HistoryType
  <2>2. \A i, j \in DOMAIN history : history[i].run = history[j].run => i = j BY DEF Records, Distinct
  <2>3. history' = Trim(Append(history, RecordOf(r))) BY <1>1, <1>4
  <2> QED BY <1>6, <1>8, <2>1, <2>2, <2>3, PushedRecords DEF Distinct
<1>10. RunsSettled'
  <2> SUFFICES ASSUME NEW i \in DOMAIN history' PROVE Settled(history[i].run)'
    BY DEF RunsSettled
  <2>1. CASE history'[i] = RecordOf(r) BY <1>5, <1>6, <2>1
  <2>2. CASE \E j \in DOMAIN history : history'[i] = history[j]
    BY <1>5, <1>8, <2>2 DEF Records, RunsSettled
  <2> QED BY <1>9, <2>1, <2>2
<1>11. RecordsTrue'
  <2> SUFFICES ASSUME NEW i \in DOMAIN history' PROVE Truthful(history[i])'
    BY DEF RecordsTrue
  <2>1. CASE history'[i] = RecordOf(r)
    <3>1. RecordOf(r)' = RecordOf(r) BY <1>1 DEF RecordOf, OutcomeOf
    <3> QED BY <1>7, <2>1, <3>1 DEF Truthful
  <2>2. CASE \E j \in DOMAIN history : history'[i] = history[j]
    BY <1>1, <2>2 DEF Records, RecordsTrue, Truthful
  <2> QED BY <1>9, <2>1, <2>2
<1> QED BY <1>5, <1>9, <1>10, <1>11 DEF Records

LEMMA CloseKeeps ==
    ASSUME IInv, NEW c \in Conns, Close(c)
    PROVE  Work' /\ Promises'
<1> USE DEF IInv, Work, Promises
<1>1. /\ pc[c] = "idle" /\ pc' = [pc EXCEPT ![c] = "closed"]
      /\ UNCHANGED <<cur, kind, streams, errored, slot, flag, fired, asked, active, entry, history, cut,
                     aimed, overtaken, aborted, spoiled>>
  BY DEF Close, registry, flags, bounds, ghosts
<1>2. cur[c] = 0 /\ pc'[c] = "closed" /\ \A d \in Conns : d # c => pc'[d] = pc[d]
  BY <1>1 DEF Stages, Stage, Types, TaskType
<1>3. Numbered' /\ OneOwner' /\ Unborn' /\ Unseen' BY <1>1 DEF Numbered, OneOwner, Unborn, Unseen
<1>4. ASSUME NEW d \in Conns PROVE Stage(d)'
  BY <1>1, <1>2 DEF Stages, Stage
<1>5. Watched' BY <1>1, <1>2 DEF Watched, Started, NoOrphans
<1>6. FlagsAimed' /\ Marked' /\ AbortsOnlyTheTarget' BY <1>1 DEF FlagsAimed, Halfway, Marked, AbortsOnlyTheTarget
<1>7. Told' BY <1>1, <1>2 DEF Told
<1>8. Records'
  <2>1. ASSUME NEW r \in Runs, Settled(r) PROVE Settled(r)'
    BY <1>1, <1>2, <2>1, Bounds DEF Settled
  <2> QED BY <1>1, <2>1, RecordsStay
<1> QED BY <1>3, <1>4, <1>5, <1>6, <1>7, <1>8 DEF Stages

\* A cancel aims at the runs S and sets a flag, or does one of the two: a flag it sets
\* is of a run it may hit.
LEMMA CancelKeeps ==
    ASSUME IInv, NEW S \in SUBSET Runs, NEW f, fired' \subseteq fired \cup {f}, aimed' = aimed \cup S,
           f # 0 => kind[f] # "none" /\ (f \in aimed' \cup overtaken \/ \A c \in Conns : cur[c] # f),
           UNCHANGED <<pc, cur, kind, streams, errored, slot, flag, active, history, cut, overtaken, aborted, spoiled>>,
           Halfway',
           \A r \in Runs : entry'[r].message = entry[r].message,
           \A r \in Runs : entry'[r].cancelled => entry[r].cancelled \/ r \in S
    PROVE  Work' /\ Promises'
<1> USE DEF IInv, Work, Promises
<1>1. Numbered' /\ OneOwner' /\ Unborn' /\ Unseen' BY DEF Numbered, OneOwner, Unborn, Unseen
<1>2. Stages' BY DEF Stages, Stage
<1>3. Watched' BY DEF Watched, Started, NoOrphans
<1>4. FlagsAimed' BY DEF FlagsAimed
<1>5. Marked' BY DEF Marked
<1>6. Told'
  <2>1. \A c \in Conns : pc[c] \in {"removing", "pushing"} => cur[c] \in Runs BY Working DEF Types
  <2> QED BY <2>1 DEF Told
<1>7. AbortsOnlyTheTarget' BY DEF AbortsOnlyTheTarget
<1>8. Records'
  <2>1. ASSUME NEW r \in Runs, Settled(r) PROVE Settled(r)' BY <2>1 DEF Settled
  <2> QED BY <2>1, RecordsStay
<1> QED BY <1>1, <1>2, <1>3, <1>4, <1>5, <1>6, <1>7, <1>8

LEMMA DashboardCancelKeeps ==
    ASSUME IInv, NEW r \in Runs, DashboardCancel(r)
    PROVE  Work' /\ Promises'
<1>1. /\ r \in active /\ fired' = fired \cup {flag[r]} /\ aimed' = aimed \cup {r}
      /\ entry' = [entry EXCEPT ![r].cancelled = TRUE]
      /\ UNCHANGED <<pc, cur, kind, streams, errored, slot, flag, asked, active, history, cut,
                     overtaken, aborted, spoiled>>
  BY DEF DashboardCancel, task
<1>2. flag[r] # 0 => flag[r] = r /\ kind[r] # "none"
  BY <1>1 DEF IInv, Promises, FlagsAimed, Watched, Started
<1>3. ASSUME NEW q \in Runs
      PROVE entry'[q].message = entry[q].message /\ (q # r => entry'[q].cancelled = entry[q].cancelled)
  BY <1>1 DEF IInv, Types, EntryType
<1>4. \A q \in Runs : entry'[q].message = entry[q].message BY <1>3
<1>5. \A q \in Runs : entry'[q].cancelled => entry[q].cancelled \/ q \in {r} BY <1>3
<1>6. Halfway' BY <1>1 DEF IInv, Promises, FlagsAimed, Halfway
<1>7. flag[r] # 0 => kind[flag[r]] # "none" /\ (flag[r] \in aimed' \cup overtaken \/ \A c \in Conns : cur[c] # flag[r])
  BY <1>1, <1>2
<1>8. {r} \in SUBSET Runs /\ fired' \subseteq fired \cup {flag[r]} BY <1>1
<1> QED BY <1>1, <1>4, <1>5, <1>6, <1>7, <1>8, CancelKeeps

LEMMA CancelRequestKeeps ==
    ASSUME IInv, NEW c \in Conns, CancelRequest(c)
    PROVE  Work' /\ Promises'
<1> DEFINE S == {r \in Runs : r = cur[c]}
<1>1. /\ fired' = fired /\ aimed' = aimed \cup S /\ asked' = [asked EXCEPT ![c] = asked[c] + 1]
      /\ UNCHANGED <<pc, cur, kind, streams, errored, slot, flag, active, entry, history, cut,
                     overtaken, aborted, spoiled>>
  BY DEF CancelRequest, task, registry
<1>2. S \in SUBSET Runs OBVIOUS
<1>3. /\ \A q \in Runs : entry'[q].message = entry[q].message
      /\ \A q \in Runs : entry'[q].cancelled => entry[q].cancelled \/ q \in S
  BY <1>1
<1>4. Halfway'
  <2> SUFFICES ASSUME NEW d \in Conns, asked'[d] > 0, cur[d] # 0, slot[d] = cur[d]
               PROVE  cur[d] \in aimed \cup S \cup overtaken
    BY <1>1 DEF Halfway
  <2>1. CASE d = c
    <3>1. cur[d] \in Runs BY Bounds DEF IInv, Types, TaskType
    <3> QED BY <2>1, <3>1
  <2>2. CASE d # c
    <3>1. asked'[d] = asked[d] BY <1>1, <2>2 DEF IInv, Types, FlagType
    <3> QED BY <3>1 DEF IInv, Promises, FlagsAimed, Halfway
  <2> QED BY <2>1, <2>2
<1>5. fired' \subseteq fired \cup {0} BY <1>1
<1> HIDE DEF S
<1> QED BY <1>1, <1>2, <1>3, <1>4, <1>5, CancelKeeps

\* The second half of a request hits the slot's flag: its run was aimed at, began
\* meanwhile, or is one that nobody works on any more.
LEMMA SlotCancelKeeps ==
    ASSUME IInv, NEW c \in Conns, SlotCancel(c)
    PROVE  Work' /\ Promises'
<1>1. /\ asked[c] > 0 /\ asked' = [asked EXCEPT ![c] = asked[c] - 1]
      /\ fired' \in {fired, fired \cup {slot[c]}}
      /\ UNCHANGED <<pc, cur, kind, streams, errored, slot, flag, active, entry, history, cut,
                     aimed, overtaken, aborted, spoiled>>
  BY DEF SlotCancel, task, registry, bounds, ghosts
<1>2. ASSUME slot[c] # 0
      PROVE  kind[slot[c]] # "none" /\ (slot[c] \in aimed \cup overtaken \/ \A d \in Conns : cur[d] # slot[c])
  <2>1. kind[slot[c]] # "none" /\ \A d \in Conns : cur[d] = slot[c] => c = d
    BY <1>2 DEF IInv, Promises, FlagsAimed
  <2>2. cur[c] = slot[c] => slot[c] \in aimed \cup overtaken
    BY <1>1, <1>2 DEF IInv, Promises, FlagsAimed, Halfway
  <2> QED BY <2>1, <2>2
<1>3. Halfway'
  <2>1. \A d \in Conns : asked'[d] > 0 => asked[d] > 0
    BY <1>1 DEF IInv, Types, FlagType
  <2> QED BY <1>1, <2>1 DEF IInv, Promises, FlagsAimed, Halfway
<1>4. {} \in SUBSET Runs /\ aimed' = aimed \cup {} /\ fired' \subseteq fired \cup {slot[c]} BY <1>1
<1>5. slot[c] # 0 => kind[slot[c]] # "none" /\ (slot[c] \in aimed' \cup overtaken \/ \A d \in Conns : cur[d] # slot[c])
  BY <1>1, <1>2
<1>6. /\ \A q \in Runs : entry'[q].message = entry[q].message
      /\ \A q \in Runs : entry'[q].cancelled => entry[q].cancelled \/ q \in {}
  BY <1>1
<1> QED BY <1>1, <1>3, <1>4, <1>5, <1>6, CancelKeeps

\* A report changes nothing but counts.
LEMMA ReportKeeps ==
    ASSUME IInv, NEW r \in Runs, Report(r)
    PROVE  Work' /\ Promises'
<1> USE DEF IInv, Work, Promises
<1>1. /\ entry' = entry \/ entry' = [entry EXCEPT ![r].stats = OneMore(entry[r].stats)]
      /\ history' = history \/ history' = Updated(history, r)
      /\ UNCHANGED <<pc, cur, kind, streams, errored, slot, flag, fired, asked, active, cut,
                     aimed, overtaken, aborted, spoiled>>
  BY DEF Report, Updated, task, flags, ghosts
<1>2. ASSUME NEW q \in Runs PROVE entry'[q].message = entry[q].message /\ entry'[q].cancelled = entry[q].cancelled
  BY <1>1 DEF Types, EntryType
<1>3. /\ DOMAIN history' = DOMAIN history
      /\ \A i \in DOMAIN history : /\ history'[i].run = history[i].run /\ history'[i].outcome = history[i].outcome
                                   /\ history'[i].message = history[i].message
  <2>1. history \in Seq(Record) BY DEF Types, HistoryType
  <2>2. CASE history' = history BY <2>2
  <2>3. CASE history' = Updated(history, r)
    <3>1. DOMAIN Updated(history, r) = DOMAIN history BY DEF Updated
    <3> QED BY <2>1, <2>3, <3>1, UpdatedType
  <2> QED BY <1>1, <2>2, <2>3
<1>4. Numbered' /\ OneOwner' /\ Unborn' /\ Unseen' BY <1>1 DEF Numbered, OneOwner, Unborn, Unseen
<1>5. Stages' BY <1>1 DEF Stages, Stage
<1>6. Watched' BY <1>1 DEF Watched, Started, NoOrphans
<1>7. FlagsAimed' /\ AbortsOnlyTheTarget' BY <1>1 DEF FlagsAimed, Halfway, AbortsOnlyTheTarget
<1>8. Marked' BY <1>1, <1>2 DEF Marked
<1>9. Told'
  <2>1. \A c \in Conns : pc[c] \in {"removing", "pushing"} => cur[c] \in Runs BY Working DEF Types
  <2> QED BY <1>1, <1>2, <2>1 DEF Told
<1>10. RunsSettled' BY <1>1, <1>3 DEF Records, RunsSettled, Settled
<1>11. RecordsTrue'
  <2> SUFFICES ASSUME NEW i \in DOMAIN history PROVE Truthful(history[i])'
    BY <1>3 DEF RecordsTrue
  <2>1. Truthful(history[i]) BY DEF Records, RecordsTrue
  <2> QED BY <1>1, <1>3, <2>1 DEF Truthful
<1>12. Distinct' BY <1>3 DEF Records, Distinct
<1> QED BY <1>4, <1>5, <1>6, <1>7, <1>8, <1>9, <1>10, <1>11, <1>12 DEF Records

\* A wrapped stream yields, fails, ends or is dropped, and the answer of the inner
\* do_query arrives: the connection's own run moves on.
LEMMA RunMovesKeeps ==
    ASSUME IInv, NEW c \in Conns,
           Planned(c) \/ PlanFails(c) \/ Abort(c) \/ RowError(c) \/ StreamEnds(c) \/ Disconnect(c)
    PROVE  Work' /\ Promises'
<1>1. /\ pc[c] \in {"planning", "streaming"}
      /\ UNCHANGED <<cur, kind, slot, flag, fired, asked, active, entry, history, cut, aimed, overtaken, spoiled>>
      /\ errored' \in {errored, errored \cup {cur[c]}}
  BY DEF Planned, PlanFails, AfterPlanFailure, Abort, RowError, StreamEnds, Disconnect, At, flags, registry,
     bounds, ghosts
<1>2. /\ TaskType /\ Stages /\ cur[c] \in Runs /\ cur[c] # 0
  BY <1>1, Working DEF IInv, Types, Work
<1>3. \E p \in {"streaming", "dropping"}, n \in 0 .. MaxStreams :
          /\ p = "streaming" => kind[cur[c]] = "planned" /\ n > 0
          /\ p = "dropping" /\ kind[cur[c]] = "planned" => n = 0
          /\ pc' = [pc EXCEPT ![c] = p] /\ streams' = [streams EXCEPT ![cur[c]] = n]
  <2>1. CASE Planned(c)
    <3>1. PICK n \in 0 .. MaxStreams :
              /\ streams' = [streams EXCEPT ![cur[c]] = n]
              /\ pc' = [pc EXCEPT ![c] = IF kind[cur[c]] = "planned" /\ n > 0 THEN "streaming" ELSE "dropping"]
      BY <2>1, AnswersBounded DEF Planned
    <3>2. CASE kind[cur[c]] = "planned" /\ n > 0 BY <3>1, <3>2
    <3>3. CASE ~(kind[cur[c]] = "planned" /\ n > 0)
      <4>1. pc' = [pc EXCEPT ![c] = "dropping"] BY <3>1, <3>3
      <4>2. kind[cur[c]] = "planned" => n = 0 BY <3>3, Bounds
      <4> QED BY <3>1, <4>1, <4>2
    <3> QED BY <3>2, <3>3
  <2>2. CASE PlanFails(c)
    <3>1. pc[c] = "planning" /\ streams' = streams /\ pc' = [pc EXCEPT ![c] = "dropping"]
      BY <2>2 DEF PlanFails, AfterPlanFailure
    <3>2. streams[cur[c]] = 0 /\ streams' = [streams EXCEPT ![cur[c]] = 0] /\ 0 \in 0 .. MaxStreams
      BY <1>2, <3>1, Bounds DEF Stages, Stage, TaskType
    <3> QED BY <3>1, <3>2
  <2>3. CASE Abort(c) \/ RowError(c) \/ Disconnect(c)
    <3>1. pc' = [pc EXCEPT ![c] = "dropping"] /\ streams' = [streams EXCEPT ![cur[c]] = 0] /\ 0 \in 0 .. MaxStreams
      BY <2>3, Bounds DEF Abort, RowError, Disconnect
    <3> QED BY <3>1
  <2>4. CASE StreamEnds(c)
    <3>1. /\ pc[c] = "streaming" /\ streams' = [streams EXCEPT ![cur[c]] = streams[cur[c]] - 1]
          /\ pc' = [pc EXCEPT ![c] = IF streams[cur[c]] - 1 = 0 THEN "dropping" ELSE "streaming"]
      BY <2>4 DEF StreamEnds, LastOwner, At
    <3>2. streams[cur[c]] \in Nat /\ streams[cur[c]] - 1 \in 0 .. MaxStreams /\ kind[cur[c]] = "planned"
      BY <1>2, <3>1, Bounds DEF Stages, Stage, TaskType
    <3>3. CASE streams[cur[c]] - 1 = 0 BY <3>1, <3>2, <3>3
    <3>4. CASE streams[cur[c]] - 1 # 0
      <4>1. pc' = [pc EXCEPT ![c] = "streaming"] BY <3>1, <3>4
      <4>2. streams[cur[c]] - 1 > 0 BY <3>2, <3>4, Bounds
      <4> QED BY <3>1, <3>2, <4>1, <4>2
    <3> QED BY <3>3, <3>4
  <2> QED BY <2>1, <2>2, <2>3, <2>4
<1>4. Work' /\ Watched' /\ FlagsAimed' /\ Marked' /\ Told' /\ Records'
  <2>1. PICK p \in {"streaming", "dropping"}, n \in 0 .. MaxStreams :
          /\ p = "streaming" => kind[cur[c]] = "planned" /\ n > 0
          /\ p = "dropping" /\ kind[cur[c]] = "planned" => n = 0
          /\ pc' = [pc EXCEPT ![c] = p] /\ streams' = [streams EXCEPT ![cur[c]] = n]
    BY <1>3
  <2> QED BY <1>1, <2>1, OwnRunKeeps
<1>5. AbortsOnlyTheTarget'
  <2>1. CASE Abort(c)
    <3>1. /\ pc[c] = "streaming" /\ flag[cur[c]] \in fired /\ aborted' = aborted \cup {cur[c]}
          /\ aimed' = aimed /\ overtaken' = overtaken
      BY <2>1 DEF Abort, At
    <3>2. flag[cur[c]] = cur[c] BY <1>2, <3>1 DEF Stages, Stage
    <3>3. cur[c] \in aimed \cup overtaken BY <1>2, <3>1, <3>2 DEF IInv, Promises, FlagsAimed
    <3> QED BY <3>1, <3>3 DEF IInv, Promises, AbortsOnlyTheTarget
  <2>2. CASE ~Abort(c)
    <3>1. aborted' = aborted /\ aimed' = aimed /\ overtaken' = overtaken
      BY <2>2 DEF Planned, PlanFails, RowError, StreamEnds, Disconnect, ghosts
    <3> QED BY <3>1 DEF IInv, Promises, AbortsOnlyTheTarget
  <2> QED BY <2>1, <2>2
<1> QED BY <1>4, <1>5 DEF Promises

-----------------------------------------------------------------------------
(* The invariant and the theorems.                                         *)

LEMMA InitInv == Init => IInv
<1> SUFFICES ASSUME Init PROVE IInv
  OBVIOUS
<1>1. Types BY InitTypes
<1>2. Numbered /\ Unborn /\ Unseen BY DEF Init, Numbered, Unborn, Unseen
<1>3. OneOwner /\ Stages BY DEF Init, OneOwner, Stages, Stage
<1>4. Watched BY DEF Init, Watched, NoOrphans
<1>5. FlagsAimed BY DEF Init, FlagsAimed, Halfway
<1>6. Marked BY DEF Init, Marked, NoEntry
<1>7. Told BY DEF Init, Told
<1>8. Records /\ AbortsOnlyTheTarget
  BY DEF Init, Records, RunsSettled, RecordsTrue, Distinct, AbortsOnlyTheTarget
<1> QED BY <1>1, <1>2, <1>3, <1>4, <1>5, <1>6, <1>7, <1>8 DEF IInv, Work, Promises

LEMMA StepInv == IInv /\ [Next]_vars => IInv'
<1> SUFFICES ASSUME IInv, [Next]_vars PROVE IInv'
  OBVIOUS
<1>1. Types' BY TypesKept DEF IInv, Work
<1>2. Work' /\ Promises'
  <2>1. ASSUME NEW c \in Conns, NEW k \in Kinds, Start(c, k) PROVE Work' /\ Promises' BY <2>1, StartKeeps
  <2>2. ASSUME NEW c \in Conns, Attach(c) PROVE Work' /\ Promises' BY <2>2, AttachKeeps
  <2>3. ASSUME NEW c \in Conns, PlanCancelled(c) PROVE Work' /\ Promises' BY <2>3, PlanCancelledKeeps
  <2>4. ASSUME NEW c \in Conns, Planned(c) \/ PlanFails(c) \/ Abort(c) \/ RowError(c) \/ StreamEnds(c) \/ Disconnect(c)
        PROVE  Work' /\ Promises'
    BY <2>4, RunMovesKeeps
  <2>5. ASSUME NEW c \in Conns, Arm(c) \/ ReadFlag(c) \/ Park(c) \/ Wake(c) \/ Row(c) \/ RequestNotify(c)
        PROVE  Work' /\ Promises'
    BY <2>5, QuietKeeps DEF Arm, ReadFlag, Park, Wake, Row, RequestNotify, task, flags, registry, bounds, ghosts
  <2>6. ASSUME NEW c \in Conns, DropCompletion(c) \/ CompleteRemoves(c) PROVE Work' /\ Promises'
    BY <2>6, CompletesKeeps
  <2>7. ASSUME NEW c \in Conns, CompletePushes(c) PROVE Work' /\ Promises' BY <2>7, PushesKeeps
  <2>8. ASSUME NEW c \in Conns, RawEnds(c) \/ RawFails(c) PROVE Work' /\ Promises' BY <2>8, RawEndsKeeps
  <2>9. ASSUME NEW c \in Conns, CancelRequest(c) \/ SlotCancel(c) PROVE Work' /\ Promises'
    BY <2>9, CancelRequestKeeps, SlotCancelKeeps
  <2>10. ASSUME NEW c \in Conns, Close(c) PROVE Work' /\ Promises' BY <2>10, CloseKeeps
  <2>11. ASSUME NEW r \in Runs, DashboardCancel(r) PROVE Work' /\ Promises' BY <2>11, DashboardCancelKeeps
  <2>12. ASSUME NEW r \in Runs, Report(r) PROVE Work' /\ Promises' BY <2>12, ReportKeeps
  <2>13. CASE DashboardNotify
    BY <2>13, QuietKeeps DEF DashboardNotify, task, flags, bounds, ghosts
  <2>14. CASE UNCHANGED vars
    BY <2>14, QuietKeeps DEF vars, task, flags, registry, bounds, ghosts
  <2> QED BY <2>1, <2>2, <2>3, <2>4, <2>5, <2>6, <2>7, <2>8, <2>9, <2>10, <2>11, <2>12, <2>13, <2>14
          DEF Next, WrapperStep, CompletionStep
<1> QED BY <1>1, <1>2 DEF IInv

LEMMA Invariance == Spec => []IInv
BY InitInv, StepInv, PTL DEF Spec

\* The ring holds as many runs as records.
LEMMA OncePerRun ==
    ASSUME HistoryType, Distinct
    PROVE  Cardinality(Logged) = Len(history)
<1> DEFINE D == 1 .. Len(history)
           f == [i \in D |-> history[i].run]
<1>1. Len(history) \in Nat /\ DOMAIN history = D BY DEF HistoryType
<1>2. IsFiniteSet(D) /\ Cardinality(D) = Len(history)
  <2>1. IsFiniteSet(D) /\ Cardinality(D) = IF 1 > Len(history) THEN 0 ELSE Len(history) - 1 + 1
    BY <1>1, FS_Interval
  <2> QED BY <1>1, <2>1
<1>3. f \in [D -> Logged] /\ \A x \in Logged : \E i \in D : f[i] = x
  BY <1>1 DEF Logged
<1>4. \A i, j \in D : f[i] = f[j] => i = j
  BY <1>1 DEF Distinct
<1> HIDE DEF D, f
<1>5. f \in Bijection(D, Logged)
  BY <1>3, <1>4 DEF Bijection, Injection, Surjection, IsInjective
<1>6. ExistsBijection(D, Logged)
  BY <1>5 DEF ExistsBijection
<1> QED BY <1>2, <1>6, FS_Bijection

\* Every variable has its type, and the ring holds at most HISTORY_CAP runs, each once.
THEOREM TypeCorrect == Spec => []TypeOK
<1>1. IInv => TypeOK
  <2> SUFFICES ASSUME IInv PROVE TypeOK
    OBVIOUS
  <2>1. \A i \in DOMAIN history : history[i].outcome \in Outcomes /\ history[i].stats <= StatsCap
    BY LoggedRuns, Bounds DEF IInv, Types, Record
  <2>2. Len(history) <= HistoryCap /\ Cardinality(Logged) = Len(history)
    BY OncePerRun DEF IInv, Types, HistoryType, Promises, Records
  <2> QED
    BY <2>1, <2>2 DEF TypeOK, IInv, Types, TaskType, SetType, WatchType, FlagType, LockType, EntryType, Places
<1> QED BY <1>1, Invariance, PTL

\* The live view is exact: every entry of QueryRegistry::active is a query some
\* connection works on (but for a do_query that pgwire dropped), and every query with
\* wrapped rows still to come is in it.
THEOREM LiveViewIsExact == Spec => []LiveViewExact
<1>1. IInv => LiveViewExact
  <2> SUFFICES ASSUME IInv PROVE LiveViewExact
    OBVIOUS
  <2>1. NoOrphans BY DEF IInv, Promises, Watched
  <2>2. RunningWhileStreaming
    <3> SUFFICES ASSUME NEW c \in Conns, pc[c] # "raw", cur[c] # 0, streams[cur[c]] > 0, kind[cur[c]] = "planned"
                 PROVE  cur[c] \in active
      BY DEF RunningWhileStreaming
    <3>1. pc[c] # "pushing" BY DEF IInv, Work, Stages, Stage
    <3> QED BY <3>1 DEF IInv, Promises, Watched
  <2> QED BY <2>1, <2>2 DEF LiveViewExact
<1> QED BY <1>1, Invariance, PTL

\* Rows are aborted only by a cancel aimed at their own query, or by a CancelRequest
\* that was halfway when the query began: one that comes later than that sets a flag
\* of the slot that no query watches any more.
THEOREM OnlyTheTargetAborts == Spec => []AbortsOnlyTheTarget
<1>1. IInv => AbortsOnlyTheTarget BY DEF IInv, Promises
<1> QED BY <1>1, Invariance, PTL

\* The history ring tells the truth about every query it holds: outcome, message and
\* counts, each query once, never more than HISTORY_CAP of them; the rows of a query
\* without a wrapper may fail after its success is recorded.
THEOREM HistoryIsTrue == Spec => []HistoryTellsTruth
<1>1. IInv => HistoryTellsTruth
  <2> SUFFICES ASSUME IInv PROVE HistoryTellsTruth
    OBVIOUS
  <2>1. Len(history) <= HistoryCap /\ Cardinality(Logged) = Len(history)
    BY OncePerRun DEF IInv, Types, HistoryType, Promises, Records
  <2>2. ASSUME NEW i \in DOMAIN history
        PROVE  /\ history[i].stats <= StatsCap
               /\ (history[i].outcome = "success") = (history[i].run \notin errored)
               /\ kind[history[i].run] = "planned" => history[i].run \notin spoiled
               /\ history[i].outcome = "cancelled" => history[i].run \in aimed
               /\ history[i].outcome # "success" /\ kind[history[i].run] # "metadata" => history[i].message
    <3>1. history[i].stats <= StatsCap BY LoggedRuns, Bounds DEF IInv, Types, Record
    <3>2. Truthful(history[i]) BY DEF IInv, Promises, Records, RecordsTrue
    <3>3. kind[history[i].run] = "planned" => history[i].run \notin spoiled BY DEF IInv, Work, Unseen
    <3> QED BY <3>1, <3>2, <3>3 DEF Truthful
  <2> QED BY <2>1, <2>2 DEF HistoryTellsTruth
<1> QED BY <1>1, Invariance, PTL
=============================================================================
