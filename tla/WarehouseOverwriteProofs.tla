---------------------- MODULE WarehouseOverwriteProofs ----------------------
(***************************************************************************)
(* The overwrite protocol is safe for every set of writers, every set of   *)
(* external commits and every limit on faults, crashes, retries and sweeps;*)
(* without trouble a call leaves no maintenance table behind.              *)
(***************************************************************************)
EXTENDS WarehouseRefinement, TLAPS

-----------------------------------------------------------------------------
(* The inductive invariant behind SafeOverwrite, CommitsOverBase and         *)
(* Recoverable.                                                             *)

\* Writers that hold the live table under their parked name.
Claims(w) == \/ pc[w] \in {"validate", "rollback"}
             \/ pc[w] = "promote" /\ had[w]

AfterWrite == {"preClean", "swapProbe", "park", "validate", "promote"}
AfterRead == AfterWrite \cup {"create", "write"}

\* The local variables agree with the control point.
LocalsInv ==
    \A w \in Writers :
        /\ pc[w] = "park" => exp[w] # "absent"
        /\ pc[w] \in {"park", "validate", "rollback", "dropParked"} => had[w]
        /\ pc[w] = "validate" => exp[w] = "snapshot"
        /\ pc[w] = "promote" /\ had[w] => exp[w] # "absent"
        /\ pc[w] = "promote" /\ exp[w] = "snapshot" => had[w]
        /\ pc[w] \in {"baseProbe", "baseLoad", "provider"} => exp[w] = "snapshot"
        /\ pc[w] \in AfterRead /\ exp[w] = "snapshot" => Exists(read[w])

\* Whatever is or was bound to the target name has been committed.
BornInv ==
    /\ Exists(live) => Exists(head)
    /\ \A w \in Writers : Exists(parked[w]) \/ Exists(read[w]) => Exists(head)

\* Every version in sight was allocated before nextVer.
Allocated(t) == Exists(t) => t.ver < nextVer
FreshInv ==
    /\ Allocated(live) /\ Allocated(head)
    /\ \A w \in Writers :
          /\ Allocated(staging[w]) /\ Allocated(parked[w])
          /\ base[w] < nextVer

\* A version nobody else has seen: staging is private until it is promoted.
PrivateInv ==
    \A w \in Writers : Exists(staging[w]) /\ staging[w].ver # NoVersion =>
        /\ Exists(head) => head.ver # staging[w].ver
        /\ Exists(live) => live.ver # staging[w].ver
        /\ \A o \in Writers :
              /\ base[o] # staging[w].ver
              /\ Exists(parked[o]) => parked[o].ver # staging[w].ver
              /\ o # w /\ Exists(staging[o]) => staging[o].ver # staging[w].ver

\* Only an empty table has no version.
EmptyInv ==
    /\ Exists(head) => (head.ver = NoVersion <=> head.rows = {})
    /\ \A w \in Writers : Exists(staging[w])
                            => (staging[w].ver = NoVersion <=> staging[w].rows = {})

\* A staging table that was written holds the result of its writer.
StagedInv ==
    \A w \in Writers :
        pc[w] \in AfterWrite /\ Exists(staging[w]) => staging[w].rows = Result(w)
StagingCreatedInv ==
    \A w \in Writers : pc[w] = "write" /\ Exists(staging[w])
                            => staging[w].rows = {} /\ staging[w].ver = NoVersion

\* A writer whose base is still the committed version has read that version.
MergedInv ==
    \A w \in Writers : 
        exp[w] = "snapshot" /\ pc[w] \in AfterRead /\ base[w] = head.ver
            => read[w].rows = head.rows

\* One writer at a time holds the committed table; meanwhile the name is free.
ClaimInv ==
    /\ \A w \in Writers : Claims(w) =>
          /\ ~Exists(live) /\ Exists(head)
          /\ Exists(parked[w]) => IsHead(parked[w])
          /\ pc[w] = "promote" /\ exp[w] = "snapshot" => base[w] = head.ver
          /\ \A o \in Writers : Claims(o) => o = w
    /\ Exists(live) => IsHead(live)

\* No sweep dropped anything and no token was used twice.
Undisturbed == used["sweep"] = 0 /\ used["retry"] = 0

\* Then a writer that has not claimed yet has no parked table ...
BeforeClaim == {"probe", "baseProbe", "baseLoad", "provider", "create", "write",
                "preClean", "swapProbe", "park"}
UnparkedInv ==
    Undisturbed => \A w \in Writers : pc[w] \in BeforeClaim => ~Exists(parked[w])

\* ... and the committed table is under a name that nobody is about to drop.
Holds(w) == pc[w] # "dropParked" /\ IsHead(parked[w])
HeldInv ==
    Undisturbed /\ Exists(head) => IsHead(live) \/ \E w \in Writers : Holds(w)

ProtocolInv == EmptyInv /\ StagedInv /\ MergedInv /\ ClaimInv /\ HeldInv
IInv == /\ TypeOK /\ LocalsInv /\ BornInv /\ FreshInv /\ PrivateInv /\ StagingCreatedInv
        /\ UnparkedInv
        /\ hazards = {} => ProtocolInv

-----------------------------------------------------------------------------

USE DEF Exists, NoVersion, Versions, VersionMatches, AfterPromoteFailure

\* The start of every caller is a control point and a variant of ExpectedVersion.
LEMMA EntryTypes ==
    \A w \in Writers : /\ EntryPc(w) \in PCs
                       /\ EntryExp(w) \in {"any", "absent", "snapshot"}
BY DEF EntryPc, EntryExp, PCs

\* The rows of a batch are rows.
LEMMA IncomingType == \A w \in Writers : Incoming(w) \subseteq Rows
BY DEF Incoming, Rows

\* A table without a snapshot is a table.
LEMMA EmptyTableType == EmptyTable \in Table
BY DEF EmptyTable, Table

\* Time changes neither the version nor the rows of a table.
LEMMA AgedType ==
    ASSUME NEW t \in Table \cup {NoTable}
    PROVE  /\ Aged(t) \in Table \cup {NoTable}
           /\ Exists(Aged(t)) <=> Exists(t)
           /\ Exists(t) => Aged(t).ver = t.ver /\ Aged(t).rows = t.rows
<1>1. CASE t = NoTable
  BY <1>1 DEF Aged
<1>2. CASE t \in Table
  BY <1>2, NoTableAssumption DEF Aged, Table
<1> QED BY <1>1, <1>2

\* The initial states are typed.
LEMMA InitType == Init => TypeOK
<1> SUFFICES ASSUME Init PROVE TypeOK
  OBVIOUS
<1>1. live \in Table \cup {NoTable}
  <2>1. [ver |-> 1, rows |-> {Seed}, old |-> FALSE] \in Table
    BY DEF Table, Rows
  <2> QED BY <2>1, EmptyTableType DEF Init
<1>2. pc \in [Writers -> PCs]
  BY EntryTypes DEF Init, PCs
<1> QED
  BY <1>1, <1>2, EntryTypes DEF Init, TypeOK, Trouble

\* Counting trouble keeps the counters typed.
LEMMA SpendType ==
    ASSUME used \in [Trouble -> Nat], NEW k \in Trouble, Spend(k)
    PROVE  used' \in [Trouble -> Nat]
BY DEF Spend

\* A freshly written table is a table, and not the absence of one.
LEMMA NewTableType ==
    ASSUME NEW n \in Nat, NEW r \in SUBSET Rows
    PROVE  /\ [ver |-> n, rows |-> r, old |-> FALSE] \in Table
           /\ Exists([ver |-> n, rows |-> r, old |-> FALSE])
<1>1. [ver |-> n, rows |-> r, old |-> FALSE] \in Table
  BY DEF Table
<1> QED BY <1>1, NoTableAssumption

\* What the head must become after a promote is a table.
LEMMA IntendedType ==
    ASSUME TypeOK, NEW w \in Writers, Exists(staging[w])
    PROVE  Intended(w) \in Table /\ Exists(Intended(w))
<1>1. staging[w].ver \in Nat
  BY DEF TypeOK, Table
<1>2. Exists(head) => head.rows \subseteq Rows
  BY DEF TypeOK, Table
<1> QED BY <1>1, <1>2, IncomingType, NewTableType DEF Intended

\* Every request of a writer keeps the state typed.
LEMMA StepType ==
    ASSUME TypeOK, LocalsInv, NEW w \in Writers, Step(w)
    PROVE  TypeOK'
<1> USE DEF Goto, Return, Abandon, PCs, locals
<1> "fault" \in Trouble /\ "lost" \in Trouble
  BY DEF Trouble
<1>1. CASE UpsertProbe(w)
  BY <1>1, SpendType DEF UpsertProbe, TypeOK
<1>2. CASE BaseProbe(w)
  BY <1>2, SpendType DEF BaseProbe, TypeOK
<1>3. CASE BaseLoad(w)
  <2>1. live # NoTable => live.ver \in Nat
    BY DEF TypeOK, Table
  <2> QED BY <1>3, <2>1, SpendType DEF BaseLoad, TypeOK
<1>4. CASE LoadProvider(w)
  BY <1>4, SpendType DEF LoadProvider, TypeOK
<1>5. CASE CreateStaging(w)
  BY <1>5, SpendType, EmptyTableType DEF CreateStaging, TypeOK
<1>6. CASE WriteStaging(w)
  <2>1. exp[w] = "snapshot" => read[w] \in Table
    BY <1>6 DEF WriteStaging, LocalsInv, AfterRead, TypeOK
  <2>2. Result(w) \subseteq Rows
    BY <2>1, IncomingType DEF Result, Table
  <2>3. [ver |-> nextVer, rows |-> Result(w), old |-> FALSE] \in Table
    BY <2>2 DEF TypeOK, Table
  <2>4. nextVer + 1 \in Nat \ {0, 1}
    BY DEF TypeOK
  <2>5. UNCHANGED <<live, parked, exp, base, read, had, appended, head, hazards>>
    BY <1>6 DEF WriteStaging
  <2>6. /\ staging' \in [Writers -> Table \cup {NoTable}]
        /\ nextVer' \in Nat \ {0, 1}
    <3>1. \/ staging' = staging /\ nextVer' = nextVer
          \/ /\ staging' = [staging EXCEPT ![w] =
                              [ver |-> nextVer, rows |-> Result(w), old |-> FALSE]]
             /\ nextVer' = nextVer + 1
      BY <1>6 DEF WriteStaging
    <3>2. staging \in [Writers -> Table \cup {NoTable}] /\ nextVer \in Nat \ {0, 1}
      BY DEF TypeOK
    <3> QED BY <3>1, <3>2, <2>3, <2>4
  <2>7. used' \in [Trouble -> Nat]
    BY <1>6, SpendType DEF WriteStaging, TypeOK
  <2>8. /\ pc' \in [Writers -> PCs]
        /\ outcome' \in [Writers -> {"pending", "ok", "conflict", "error", "unpromoted"}]
    BY <1>6 DEF WriteStaging, TypeOK
  <2> QED BY <2>5, <2>6, <2>7, <2>8 DEF TypeOK
<1>7. CASE PreCleanParked(w)
  BY <1>7, SpendType DEF PreCleanParked, TypeOK
<1>8. CASE SwapProbe(w)
  BY <1>8, SpendType DEF SwapProbe, TypeOK
<1>9. CASE Park(w)
  BY <1>9, SpendType DEF Park, Refused, AfterPark, TypeOK
<1>10. CASE ValidateParked(w)
  BY <1>10, SpendType DEF ValidateParked, Refused, TypeOK
<1>11. CASE Rollback(w)
  BY <1>11, SpendType DEF Rollback, Refused, TypeOK
<1>12. CASE Promote(w)
  <2>1. CASE CanRename(staging[w], live) /\ live' = staging[w]
    <3>1. staging[w] \in Table /\ staging[w].ver \in Nat
      BY <2>1 DEF CanRename, TypeOK, Table
    <3>3. Intended(w) \in Table
      BY <2>1, IntendedType DEF CanRename
    <3>4. PromoteHazards(w) \cup {"lost"} \subseteq {"gap", "empty", "lost"}
      BY DEF PromoteHazards
    <3> QED BY <1>12, <2>1, <3>1, <3>3, <3>4, SpendType DEF Promote, Refused, TypeOK
  <2>2. CASE UNCHANGED <<live, staging, head, hazards>>
    BY <1>12, <2>2, SpendType DEF Promote, Refused, TypeOK
  <2> QED BY <1>12, <2>1, <2>2 DEF Promote
<1>13. CASE DropParked(w)
  BY <1>13, SpendType DEF DropParked, TypeOK
<1>14. CASE Cleanup(w)
  BY <1>14, SpendType DEF Cleanup, TypeOK
<1>15. CASE Reprobe(w)
  BY <1>15, SpendType DEF Reprobe, TypeOK
<1> QED
  BY <1>1, <1>2, <1>3, <1>4, <1>5, <1>6, <1>7, <1>8, <1>9, <1>10, <1>11, <1>12,
     <1>13, <1>14, <1>15 DEF Step

\* Crashes, retries, external commits, time and the sweep keep the state typed.
LEMMA EnvironmentType ==
    ASSUME TypeOK, BornInv, ~(\E w \in Writers : Step(w)), Next
    PROVE  TypeOK'
<1> USE DEF Goto, PCs, locals
<1> Trouble = {"fault", "lost", "crash", "retry", "sweep"}
  BY DEF Trouble
<1>1. ASSUME NEW w \in Writers, Crash(w) PROVE TypeOK'
  BY <1>1, SpendType DEF Crash, TypeOK
<1>2. ASSUME NEW w \in Writers, Retry(w) PROVE TypeOK'
  BY <1>2, SpendType, EntryTypes DEF Retry, TypeOK
<1>3. ASSUME NEW w \in Writers, SweepStaging(w) PROVE TypeOK'
  BY <1>3, SpendType DEF SweepStaging, TypeOK
<1>4. ASSUME NEW w \in Writers, SweepParked(w) PROVE TypeOK'
  BY <1>4, SpendType DEF SweepParked, TypeOK
<1>5. ASSUME NEW a \in Appends, ExternalAppend(a) PROVE TypeOK'
  <2>1. live.rows \cup {a} \subseteq Rows
    BY <1>5 DEF ExternalAppend, TypeOK, Table, Rows
  <2>2. Exists(head) => head.rows \cup {a} \subseteq Rows
    BY <1>5 DEF TypeOK, Table, Rows
  <2>3. nextVer + 1 \in Nat \ {0, 1} /\ nextVer \in Nat
    BY DEF TypeOK
  <2>4. Exists(head)
    BY <1>5 DEF ExternalAppend, BornInv
  <2> QED BY <1>5, <2>1, <2>2, <2>3, <2>4 DEF ExternalAppend, TypeOK, Table
<1>6. ASSUME Age PROVE TypeOK'
  BY <1>6, AgedType DEF Age, TypeOK
<1> QED
  BY <1>1, <1>2, <1>3, <1>4, <1>5, <1>6 DEF Next

\* UpsertProbe keeps the inductive invariant.
LEMMA UpsertProbeInv ==
    ASSUME IInv, TypeOK', NEW w \in Writers, UpsertProbe(w)
    PROVE  IInv'
<1> USE DEF IInv, TypeOK, UpsertProbe, Goto, Return, Abandon, locals, Spend
<1>0. Undisturbed' => Undisturbed
  BY DEF Undisturbed, Trouble, Refused
<1>1. LocalsInv'
  BY DEF LocalsInv, AfterRead, AfterWrite
<1>2. BornInv'
  BY DEF BornInv
<1>3. FreshInv'
  BY DEF FreshInv, Allocated
<1>4. PrivateInv'
  BY DEF PrivateInv
<1>5. StagingCreatedInv'
  BY DEF StagingCreatedInv
<1>6. UnparkedInv'
  BY <1>0 DEF UnparkedInv, BeforeClaim
<1>7. ASSUME hazards' = {} PROVE ProtocolInv'
  <2>0. hazards = {}
    BY <1>7
  <2>1. EmptyInv'
    BY <2>0 DEF ProtocolInv, EmptyInv
  <2>2. StagedInv'
    <3> SUFFICES ASSUME NEW o \in Writers, pc'[o] \in AfterWrite, Exists(staging'[o])
                 PROVE  staging'[o].rows = Result(o)'
      BY DEF StagedInv
    <3>1. o # w
      BY DEF AfterWrite, UpsertProbe
    <3>2. /\ pc[o] \in AfterWrite /\ Exists(staging[o]) /\ staging'[o] = staging[o]
          /\ exp'[o] = exp[o] /\ read'[o] = read[o]
      BY <3>1 DEF UpsertProbe
    <3> QED BY <2>0, <3>1, <3>2 DEF ProtocolInv, StagedInv, Result
  <2>3. MergedInv'
    BY <2>0 DEF ProtocolInv, MergedInv, AfterRead, AfterWrite
  <2>4. ClaimInv'
    BY <2>0 DEF ProtocolInv, ClaimInv, Claims, IsHead
  <2>5. HeldInv'
    BY <1>0, <2>0 DEF ProtocolInv, HeldInv, Holds, IsHead
  <2> QED BY <2>1, <2>2, <2>3, <2>4, <2>5 DEF ProtocolInv
<1> QED BY <1>1, <1>2, <1>3, <1>4, <1>5, <1>6, <1>7

\* BaseProbe keeps the inductive invariant.
LEMMA BaseProbeInv ==
    ASSUME IInv, TypeOK', NEW w \in Writers, BaseProbe(w)
    PROVE  IInv'
<1> USE DEF IInv, TypeOK, BaseProbe, Goto, Return, Abandon, locals, Spend
<1>0. Undisturbed' => Undisturbed
  BY DEF Undisturbed, Trouble, Refused
<1>1. LocalsInv'
  BY DEF LocalsInv, AfterRead, AfterWrite
<1>2. BornInv'
  BY DEF BornInv
<1>3. FreshInv'
  BY DEF FreshInv, Allocated
<1>4. PrivateInv'
  BY DEF PrivateInv
<1>5. StagingCreatedInv'
  BY DEF StagingCreatedInv
<1>6. UnparkedInv'
  BY <1>0 DEF UnparkedInv, BeforeClaim
<1>7. ASSUME hazards' = {} PROVE ProtocolInv'
  <2>0. hazards = {}
    BY <1>7
  <2>1. EmptyInv'
    BY <2>0 DEF ProtocolInv, EmptyInv
  <2>2. StagedInv'
    <3> SUFFICES ASSUME NEW o \in Writers, pc'[o] \in AfterWrite, Exists(staging'[o])
                 PROVE  staging'[o].rows = Result(o)'
      BY DEF StagedInv
    <3>1. o # w
      BY DEF AfterWrite, BaseProbe
    <3>2. /\ pc[o] \in AfterWrite /\ Exists(staging[o]) /\ staging'[o] = staging[o]
          /\ exp'[o] = exp[o] /\ read'[o] = read[o]
      BY <3>1 DEF BaseProbe
    <3> QED BY <2>0, <3>1, <3>2 DEF ProtocolInv, StagedInv, Result
  <2>3. MergedInv'
    BY <2>0 DEF ProtocolInv, MergedInv, AfterRead, AfterWrite
  <2>4. ClaimInv'
    BY <2>0 DEF ProtocolInv, ClaimInv, Claims, IsHead
  <2>5. HeldInv'
    BY <1>0, <2>0 DEF ProtocolInv, HeldInv, Holds, IsHead
  <2> QED BY <2>1, <2>2, <2>3, <2>4, <2>5 DEF ProtocolInv
<1> QED BY <1>1, <1>2, <1>3, <1>4, <1>5, <1>6, <1>7

\* BaseLoad keeps the inductive invariant.
LEMMA BaseLoadInv ==
    ASSUME IInv, TypeOK', NEW w \in Writers, BaseLoad(w)
    PROVE  IInv'
<1> USE DEF IInv, TypeOK, BaseLoad, Goto, Return, Abandon, locals, Spend
<1>0. Undisturbed' => Undisturbed
  BY DEF Undisturbed, Trouble, Refused
<1>1. LocalsInv'
  BY DEF LocalsInv, AfterRead, AfterWrite
<1>2. BornInv'
  BY DEF BornInv
<1>3. FreshInv'
  BY DEF FreshInv, Allocated
<1>4. PrivateInv'
  <2>a. base \in [Writers -> Nat]
    BY DEF TypeOK
  <2>b. base' = base \/ (Exists(live) /\ base' = [base EXCEPT ![w] = live.ver])
    BY DEF BaseLoad
  <2>1. base'[w] = base[w] \/ (Exists(live) /\ base'[w] = live.ver)
    BY <2>a, <2>b
  <2>2. \A o \in Writers : o # w => base'[o] = base[o]
    BY DEF BaseLoad
  <2>3. UNCHANGED <<live, staging, parked, head>>
    BY DEF BaseLoad
  <2> HIDE DEF BaseLoad, IInv, TypeOK
  <2>4. PrivateInv
    BY DEF IInv
  <2> QED BY <2>1, <2>2, <2>3, <2>4 DEF PrivateInv
<1>5. StagingCreatedInv'
  BY DEF StagingCreatedInv
<1>6. UnparkedInv'
  BY <1>0 DEF UnparkedInv, BeforeClaim
<1>7. ASSUME hazards' = {} PROVE ProtocolInv'
  <2>0. hazards = {}
    BY <1>7
  <2>1. EmptyInv'
    BY <2>0 DEF ProtocolInv, EmptyInv
  <2>2. StagedInv'
    <3> SUFFICES ASSUME NEW o \in Writers, pc'[o] \in AfterWrite, Exists(staging'[o])
                 PROVE  staging'[o].rows = Result(o)'
      BY DEF StagedInv
    <3>1. o # w
      BY DEF AfterWrite, BaseLoad
    <3>2. /\ pc[o] \in AfterWrite /\ Exists(staging[o]) /\ staging'[o] = staging[o]
          /\ exp'[o] = exp[o] /\ read'[o] = read[o]
      BY <3>1 DEF BaseLoad
    <3> QED BY <2>0, <3>1, <3>2 DEF ProtocolInv, StagedInv, Result
  <2>3. MergedInv'
    BY <2>0 DEF ProtocolInv, MergedInv, AfterRead, AfterWrite
  <2>4. ClaimInv'
    BY <2>0 DEF ProtocolInv, ClaimInv, Claims, IsHead
  <2>5. HeldInv'
    BY <1>0, <2>0 DEF ProtocolInv, HeldInv, Holds, IsHead
  <2> QED BY <2>1, <2>2, <2>3, <2>4, <2>5 DEF ProtocolInv
<1> QED BY <1>1, <1>2, <1>3, <1>4, <1>5, <1>6, <1>7

\* LoadProvider keeps the inductive invariant.
LEMMA LoadProviderInv ==
    ASSUME IInv, TypeOK', NEW w \in Writers, LoadProvider(w)
    PROVE  IInv'
<1> USE DEF IInv, TypeOK, LoadProvider, Goto, Return, Abandon, locals, Spend
<1>0. Undisturbed' => Undisturbed
  BY DEF Undisturbed, Trouble, Refused
<1>1. LocalsInv'
  BY DEF LocalsInv, AfterRead, AfterWrite
<1>2. BornInv'
  BY DEF BornInv
<1>3. FreshInv'
  BY DEF FreshInv, Allocated
<1>4. PrivateInv'
  BY DEF PrivateInv
<1>5. StagingCreatedInv'
  BY DEF StagingCreatedInv
<1>6. UnparkedInv'
  BY <1>0 DEF UnparkedInv, BeforeClaim
<1>7. ASSUME hazards' = {} PROVE ProtocolInv'
  <2>0. hazards = {}
    BY <1>7
  <2>1. EmptyInv'
    BY <2>0 DEF ProtocolInv, EmptyInv
  <2>2. StagedInv'
    <3> SUFFICES ASSUME NEW o \in Writers, pc'[o] \in AfterWrite, Exists(staging'[o])
                 PROVE  staging'[o].rows = Result(o)'
      BY DEF StagedInv
    <3>1. o # w
      BY DEF AfterWrite, LoadProvider
    <3>2. /\ pc[o] \in AfterWrite /\ Exists(staging[o]) /\ staging'[o] = staging[o]
          /\ exp'[o] = exp[o] /\ read'[o] = read[o]
      BY <3>1 DEF LoadProvider
    <3> QED BY <2>0, <3>1, <3>2 DEF ProtocolInv, StagedInv, Result
  <2>3. MergedInv'
    <3>1. live' = live /\ head' = head /\ base' = base /\ exp' = exp
      BY DEF LoadProvider
    <3>2. pc'[w] \in AfterRead => read'[w] = live /\ Exists(live)
      BY DEF LoadProvider, AfterRead, AfterWrite
    <3>3. pc'[w] \in AfterRead => read'[w].rows = head.rows
      BY <2>0, <3>2 DEF ProtocolInv, ClaimInv, IsHead
    <3>4. \A o \in Writers : o # w => pc'[o] = pc[o] /\ read'[o] = read[o]
      BY DEF LoadProvider
    <3> QED BY <2>0, <3>1, <3>3, <3>4 DEF ProtocolInv, MergedInv
  <2>4. ClaimInv'
    BY <2>0 DEF ProtocolInv, ClaimInv, Claims, IsHead
  <2>5. HeldInv'
    BY <1>0, <2>0 DEF ProtocolInv, HeldInv, Holds, IsHead
  <2> QED BY <2>1, <2>2, <2>3, <2>4, <2>5 DEF ProtocolInv
<1> QED BY <1>1, <1>2, <1>3, <1>4, <1>5, <1>6, <1>7

\* CreateStaging keeps the inductive invariant.
LEMMA CreateStagingInv ==
    ASSUME IInv, TypeOK', NEW w \in Writers, CreateStaging(w)
    PROVE  IInv'
<1> USE DEF IInv, TypeOK, CreateStaging, EmptyTable, Goto, Return, Abandon, locals, Spend
<1>0. Undisturbed' => Undisturbed
  BY DEF Undisturbed, Trouble, Refused
<1>1. LocalsInv'
  BY DEF LocalsInv, AfterRead, AfterWrite
<1>2. BornInv'
  BY DEF BornInv
<1>3. FreshInv'
  BY DEF FreshInv, Allocated
<1>4. PrivateInv'
  BY DEF PrivateInv
<1>5. StagingCreatedInv'
  BY DEF StagingCreatedInv
<1>6. UnparkedInv'
  BY <1>0 DEF UnparkedInv, BeforeClaim
<1>7. ASSUME hazards' = {} PROVE ProtocolInv'
  <2>0. hazards = {}
    BY <1>7
  <2>1. EmptyInv'
    BY <2>0 DEF ProtocolInv, EmptyInv
  <2>2. StagedInv'
    <3> SUFFICES ASSUME NEW o \in Writers, pc'[o] \in AfterWrite, Exists(staging'[o])
                 PROVE  staging'[o].rows = Result(o)'
      BY DEF StagedInv
    <3>1. o # w
      BY DEF AfterWrite, CreateStaging
    <3>2. /\ pc[o] \in AfterWrite /\ Exists(staging[o]) /\ staging'[o] = staging[o]
          /\ exp'[o] = exp[o] /\ read'[o] = read[o]
      BY <3>1 DEF CreateStaging
    <3> QED BY <2>0, <3>1, <3>2 DEF ProtocolInv, StagedInv, Result
  <2>3. MergedInv'
    BY <2>0 DEF ProtocolInv, MergedInv, AfterRead, AfterWrite
  <2>4. ClaimInv'
    BY <2>0 DEF ProtocolInv, ClaimInv, Claims, IsHead
  <2>5. HeldInv'
    BY <1>0, <2>0 DEF ProtocolInv, HeldInv, Holds, IsHead
  <2> QED BY <2>1, <2>2, <2>3, <2>4, <2>5 DEF ProtocolInv
<1> QED BY <1>1, <1>2, <1>3, <1>4, <1>5, <1>6, <1>7

\* WriteStaging keeps the inductive invariant.
LEMMA WriteStagingInv ==
    ASSUME IInv, TypeOK', NEW w \in Writers, WriteStaging(w)
    PROVE  IInv'
<1> USE DEF IInv, TypeOK, WriteStaging, Goto, Return, Abandon, locals, Spend
<1>0. Undisturbed' => Undisturbed
  BY DEF Undisturbed, Trouble, Refused
<1>w. \/ staging' = staging /\ nextVer' = nextVer /\ (Result(w) = {} \/ pc'[w] = "cleanup")
      \/ /\ Result(w) # {}
         /\ nextVer' = nextVer + 1
         /\ staging'[w].ver = nextVer
         /\ staging'[w].rows = Result(w)
         /\ \A o \in Writers : o # w => staging'[o] = staging[o]
  BY DEF WriteStaging
<1>1. LocalsInv'
  BY DEF LocalsInv, AfterRead, AfterWrite
<1>2. BornInv'
  BY DEF BornInv
<1>3. FreshInv'
  <2>1. CASE staging' = staging /\ nextVer' = nextVer
    BY <2>1 DEF FreshInv, Allocated
  <2>2. CASE Result(w) # {} /\ nextVer' = nextVer + 1
    <3>1. /\ staging'[w].ver = nextVer
          /\ \A o \in Writers : o # w => staging'[o] = staging[o]
      BY <1>w, <2>2
    <3>2. UNCHANGED <<live, head, parked, base>>
      BY DEF WriteStaging
    <3>3. \A n \in Nat : n < nextVer => n < nextVer'
      BY <2>2 DEF TypeOK
    <3>4. nextVer < nextVer' /\ nextVer \in Nat
      BY <2>2 DEF TypeOK
    <3>5. /\ \A o \in Writers : base[o] \in Nat
          /\ \A o \in Writers : Exists(staging[o]) => staging[o].ver \in Nat
          /\ \A o \in Writers : Exists(parked[o]) => parked[o].ver \in Nat
          /\ Exists(live) => live.ver \in Nat
          /\ Exists(head) => head.ver \in Nat
      BY DEF TypeOK, Table
    <3>6. FreshInv
      BY DEF IInv
    <3> HIDE DEF WriteStaging, IInv, TypeOK
    <3> QED BY <3>1, <3>2, <3>3, <3>4, <3>5, <3>6 DEF FreshInv, Allocated
  <2> QED BY <1>w, <2>1, <2>2
<1>4. PrivateInv'
  <2>1. CASE staging' = staging /\ nextVer' = nextVer
    BY <2>1 DEF PrivateInv
  <2>2. CASE Result(w) # {} /\ nextVer' = nextVer + 1
    <3>1. /\ staging'[w].ver = nextVer
          /\ \A o \in Writers : o # w => staging'[o] = staging[o]
      BY <1>w, <2>2
    <3>2. UNCHANGED <<live, head, parked, base>>
      BY DEF WriteStaging
    <3>3. /\ \A o \in Writers : base[o] # nextVer
          /\ \A o \in Writers : Exists(staging[o]) => staging[o].ver # nextVer
          /\ \A o \in Writers : Exists(parked[o]) => parked[o].ver # nextVer
          /\ Exists(live) => live.ver # nextVer
          /\ Exists(head) => head.ver # nextVer
      BY DEF FreshInv, Allocated, Table
    <3>4. PrivateInv
      BY DEF IInv
    <3> HIDE DEF WriteStaging, IInv, TypeOK
    <3> QED BY <3>1, <3>2, <3>3, <3>4 DEF PrivateInv
  <2> QED BY <1>w, <2>1, <2>2
<1>5. StagingCreatedInv'
  BY DEF StagingCreatedInv
<1>6. UnparkedInv'
  BY <1>0 DEF UnparkedInv, BeforeClaim
<1>7. ASSUME hazards' = {} PROVE ProtocolInv'
  <2>0. hazards = {}
    BY <1>7
  <2>1. EmptyInv'
    <3>1. head' = head /\ \A o \in Writers : o # w => staging'[o] = staging[o]
      BY <1>w DEF WriteStaging
    <3>2. \/ staging'[w] = staging[w]
          \/ staging'[w].ver = nextVer /\ staging'[w].rows # {}
      <4> HIDE DEF IInv, TypeOK, WriteStaging
      <4> QED BY <1>w
    <3>3. nextVer # 0
      BY DEF TypeOK
    <3> QED BY <2>0, <3>1, <3>2, <3>3 DEF ProtocolInv, EmptyInv
  <2>2. StagedInv'
    <3> SUFFICES ASSUME NEW o \in Writers, pc'[o] \in AfterWrite, Exists(staging'[o])
                 PROVE  staging'[o].rows = Result(o)'
      BY DEF StagedInv
    <3>1. exp' = exp /\ read' = read /\ Result(o)' = Result(o)
      BY DEF WriteStaging, Result
    <3>2. CASE o # w
      <4>1. pc'[o] = pc[o] /\ staging'[o] = staging[o]
        BY <1>w, <3>2 DEF WriteStaging
      <4> QED BY <2>0, <3>1, <4>1 DEF ProtocolInv, StagedInv
    <3>3. CASE o = w
      <4>1. CASE Result(w) = {}
        <5>1. staging'[w] = staging[w] /\ pc[w] = "write"
          BY <4>1, <3>3 DEF WriteStaging, AfterWrite
        <5> QED BY <3>1, <3>3, <4>1, <5>1 DEF StagingCreatedInv
      <4>2. CASE Result(w) # {}
        BY <3>1, <3>3, <4>2, <1>w DEF WriteStaging, AfterWrite
      <4> QED BY <4>1, <4>2
    <3> QED BY <3>2, <3>3
  <2>3. MergedInv'
    BY <2>0 DEF ProtocolInv, MergedInv, AfterRead, AfterWrite
  <2>4. ClaimInv'
    BY <2>0 DEF ProtocolInv, ClaimInv, Claims, IsHead
  <2>5. HeldInv'
    BY <1>0, <2>0 DEF ProtocolInv, HeldInv, Holds, IsHead
  <2> QED BY <2>1, <2>2, <2>3, <2>4, <2>5 DEF ProtocolInv
<1> QED BY <1>1, <1>2, <1>3, <1>4, <1>5, <1>6, <1>7

\* PreCleanParked keeps the inductive invariant.
LEMMA PreCleanParkedInv ==
    ASSUME IInv, TypeOK', NEW w \in Writers, PreCleanParked(w)
    PROVE  IInv'
<1> USE DEF IInv, TypeOK, PreCleanParked, Goto, Return, Abandon, locals, Spend
<1>0. Undisturbed' => Undisturbed
  BY DEF Undisturbed, Trouble, Refused
<1>1. LocalsInv'
  BY DEF LocalsInv, AfterRead, AfterWrite
<1>2. BornInv'
  BY DEF BornInv
<1>3. FreshInv'
  BY DEF FreshInv, Allocated
<1>4. PrivateInv'
  BY DEF PrivateInv
<1>5. StagingCreatedInv'
  BY DEF StagingCreatedInv
<1>6. UnparkedInv'
  BY <1>0 DEF UnparkedInv, BeforeClaim
<1>7. ASSUME hazards' = {} PROVE ProtocolInv'
  <2>0. hazards = {}
    BY <1>7
  <2>1. EmptyInv'
    BY <2>0 DEF ProtocolInv, EmptyInv
  <2>2. StagedInv'
    BY <2>0 DEF ProtocolInv, StagedInv, AfterWrite, Result
  <2>3. MergedInv'
    BY <2>0 DEF ProtocolInv, MergedInv, AfterRead, AfterWrite
  <2>4. ClaimInv'
    BY <2>0 DEF ProtocolInv, ClaimInv, Claims, IsHead
  <2>5. HeldInv'
    <3> SUFFICES ASSUME Undisturbed', Exists(head)'
                 PROVE  (IsHead(live) \/ \E o \in Writers : Holds(o))'
      BY DEF HeldInv
    <3>1. UNCHANGED <<live, head>>
      BY DEF PreCleanParked
    <3>2. CASE IsHead(live)
      BY <3>1, <3>2 DEF IsHead
    <3>3. ASSUME NEW o \in Writers, Holds(o) PROVE Holds(o)'
      <4>1. o # w
        BY <1>0, <3>3 DEF UnparkedInv, BeforeClaim, Holds, IsHead, PreCleanParked
      <4>2. pc'[o] = pc[o] /\ parked'[o] = parked[o]
        BY <4>1 DEF PreCleanParked
      <4> QED BY <3>1, <3>3, <4>2 DEF Holds, IsHead
    <3> QED BY <1>0, <2>0, <3>1, <3>2, <3>3 DEF ProtocolInv, HeldInv
  <2> QED BY <2>1, <2>2, <2>3, <2>4, <2>5 DEF ProtocolInv
<1> QED BY <1>1, <1>2, <1>3, <1>4, <1>5, <1>6, <1>7

\* SwapProbe keeps the inductive invariant.
LEMMA SwapProbeInv ==
    ASSUME IInv, TypeOK', NEW w \in Writers, SwapProbe(w)
    PROVE  IInv'
<1> USE DEF IInv, TypeOK, SwapProbe, Goto, Return, Abandon, locals, Spend
<1>0. Undisturbed' => Undisturbed
  BY DEF Undisturbed, Trouble, Refused
<1>1. LocalsInv'
  BY DEF LocalsInv, AfterRead, AfterWrite
<1>2. BornInv'
  BY DEF BornInv
<1>3. FreshInv'
  BY DEF FreshInv, Allocated
<1>4. PrivateInv'
  BY DEF PrivateInv
<1>5. StagingCreatedInv'
  BY DEF StagingCreatedInv
<1>6. UnparkedInv'
  BY <1>0 DEF UnparkedInv, BeforeClaim
<1>7. ASSUME hazards' = {} PROVE ProtocolInv'
  <2>0. hazards = {}
    BY <1>7
  <2>1. EmptyInv'
    BY <2>0 DEF ProtocolInv, EmptyInv
  <2>2. StagedInv'
    BY <2>0 DEF ProtocolInv, StagedInv, AfterWrite, Result
  <2>3. MergedInv'
    BY <2>0 DEF ProtocolInv, MergedInv, AfterRead, AfterWrite
  <2>4. ClaimInv'
    BY <2>0 DEF ProtocolInv, ClaimInv, Claims, IsHead
  <2>5. HeldInv'
    BY <1>0, <2>0 DEF ProtocolInv, HeldInv, Holds, IsHead
  <2> QED BY <2>1, <2>2, <2>3, <2>4, <2>5 DEF ProtocolInv
<1> QED BY <1>1, <1>2, <1>3, <1>4, <1>5, <1>6, <1>7

\* Park keeps the inductive invariant.
LEMMA ParkInv ==
    ASSUME IInv, TypeOK', NEW w \in Writers, Park(w)
    PROVE  IInv'
<1> USE DEF IInv, TypeOK, Park, Refused, CanRename, AfterPark, Goto, Return, Abandon, locals, Spend
<1>0. Undisturbed' => Undisturbed
  BY DEF Undisturbed, Trouble, Refused
<1>1. LocalsInv'
  BY DEF LocalsInv, AfterRead, AfterWrite
<1>2. BornInv'
  BY DEF BornInv
<1>3. FreshInv'
  BY DEF FreshInv, Allocated
<1>4. PrivateInv'
  BY DEF PrivateInv
<1>5. StagingCreatedInv'
  BY DEF StagingCreatedInv
<1>6. UnparkedInv'
  BY <1>0 DEF UnparkedInv, BeforeClaim
<1>7. ASSUME hazards' = {} PROVE ProtocolInv'
  <2>0. hazards = {}
    BY <1>7
  <2>1. EmptyInv'
    BY <2>0 DEF ProtocolInv, EmptyInv
  <2>2. StagedInv'
    BY <2>0 DEF ProtocolInv, StagedInv, AfterWrite, Result
  <2>3. MergedInv'
    BY <2>0 DEF ProtocolInv, MergedInv, AfterRead, AfterWrite
  <2>4. ClaimInv'
    <3>1. CASE live' = live /\ parked' = parked
      <4>1. \A o \in Writers : Claims(o)' => Claims(o) /\ o # w
        BY <3>1 DEF Claims, CanRename, Park
      <4>2. \A o \in Writers : o # w => pc'[o] = pc[o]
        BY DEF Park
      <4> QED BY <2>0, <3>1, <4>1, <4>2 DEF ProtocolInv, ClaimInv, IsHead
    <3>2. CASE Exists(live) /\ live' = NoTable /\ parked' = [parked EXCEPT ![w] = live]
      <4>1. \A o \in Writers : ~Claims(o)
        BY <2>0, <3>2 DEF ProtocolInv, ClaimInv
      <4>2. \A o \in Writers : Claims(o)' => o = w
        BY <4>1 DEF Claims
      <4>3. Exists(head) /\ IsHead(parked[w])'
        BY <2>0, <3>2 DEF ProtocolInv, ClaimInv, IsHead, BornInv
      <4>4. pc'[w] = "promote" => exp'[w] # "snapshot"
        BY DEF Park
      <4> QED BY <3>2, <4>2, <4>3, <4>4 DEF ClaimInv
    <3> QED BY <3>1, <3>2 DEF Park
  <2>5. HeldInv'
    BY <1>0, <2>0 DEF ProtocolInv, HeldInv, Holds, IsHead
  <2> QED BY <2>1, <2>2, <2>3, <2>4, <2>5 DEF ProtocolInv
<1> QED BY <1>1, <1>2, <1>3, <1>4, <1>5, <1>6, <1>7

\* ValidateParked keeps the inductive invariant.
LEMMA ValidateParkedInv ==
    ASSUME IInv, TypeOK', NEW w \in Writers, ValidateParked(w)
    PROVE  IInv'
<1> USE DEF IInv, TypeOK, ValidateParked, Refused, Goto, Return, Abandon, locals, Spend
<1>0. Undisturbed' => Undisturbed
  BY DEF Undisturbed, Trouble, Refused
<1>1. LocalsInv'
  BY DEF LocalsInv, AfterRead, AfterWrite
<1>2. BornInv'
  BY DEF BornInv
<1>3. FreshInv'
  BY DEF FreshInv, Allocated
<1>4. PrivateInv'
  BY DEF PrivateInv
<1>5. StagingCreatedInv'
  BY DEF StagingCreatedInv
<1>6. UnparkedInv'
  BY <1>0 DEF UnparkedInv, BeforeClaim
<1>7. ASSUME hazards' = {} PROVE ProtocolInv'
  <2>0. hazards = {}
    BY <1>7
  <2>1. EmptyInv'
    BY <2>0 DEF ProtocolInv, EmptyInv
  <2>2. StagedInv'
    BY <2>0 DEF ProtocolInv, StagedInv, AfterWrite, Result
  <2>3. MergedInv'
    BY <2>0 DEF ProtocolInv, MergedInv, AfterRead, AfterWrite
  <2>4. ClaimInv'
    BY <2>0 DEF ProtocolInv, ClaimInv, Claims, IsHead
  <2>5. HeldInv'
    BY <1>0, <2>0 DEF ProtocolInv, HeldInv, Holds, IsHead
  <2> QED BY <2>1, <2>2, <2>3, <2>4, <2>5 DEF ProtocolInv
<1> QED BY <1>1, <1>2, <1>3, <1>4, <1>5, <1>6, <1>7

\* Rollback keeps the inductive invariant.
LEMMA RollbackInv ==
    ASSUME IInv, TypeOK', NEW w \in Writers, Rollback(w)
    PROVE  IInv'
<1> USE DEF IInv, TypeOK, Rollback, Refused, CanRename, Goto, Return, Abandon, locals, Spend
<1>0. Undisturbed' => Undisturbed
  BY DEF Undisturbed, Trouble, Refused
<1>1. LocalsInv'
  BY DEF LocalsInv, AfterRead, AfterWrite
<1>2. BornInv'
  BY DEF BornInv
<1>3. FreshInv'
  BY DEF FreshInv, Allocated
<1>4. PrivateInv'
  BY DEF PrivateInv
<1>5. StagingCreatedInv'
  BY DEF StagingCreatedInv
<1>6. UnparkedInv'
  BY <1>0 DEF UnparkedInv, BeforeClaim
<1>7. ASSUME hazards' = {} PROVE ProtocolInv'
  <2>0. hazards = {}
    BY <1>7
  <2>1. EmptyInv'
    BY <2>0 DEF ProtocolInv, EmptyInv
  <2>2. StagedInv'
    BY <2>0 DEF ProtocolInv, StagedInv, AfterWrite, Result
  <2>3. MergedInv'
    BY <2>0 DEF ProtocolInv, MergedInv, AfterRead, AfterWrite
  <2>4. ClaimInv'
    BY <2>0 DEF ProtocolInv, ClaimInv, Claims, IsHead
  <2>5. HeldInv'
    BY <1>0, <2>0 DEF ProtocolInv, HeldInv, Holds, IsHead
  <2> QED BY <2>1, <2>2, <2>3, <2>4, <2>5 DEF ProtocolInv
<1> QED BY <1>1, <1>2, <1>3, <1>4, <1>5, <1>6, <1>7

\* Without a hazard the promoted table holds what the head must hold.
LEMMA PromoteCommits ==
    ASSUME IInv, hazards = {}, NEW w \in Writers, pc[w] = "promote",
           Exists(staging[w]), PromoteHazards(w) = {}
    PROVE  /\ staging[w].rows = Intended(w).rows
           /\ \A o \in Writers : o # w => ~Claims(o)
           /\ staging[w].ver = NoVersion /\ Exists(head)
                  => head.ver = NoVersion /\ head.rows = {}
           /\ exp[w] = "snapshot" => head.ver = base[w] /\ head.rows = read[w].rows
<1> USE DEF IInv
<1>1. had[w] \/ ~Exists(head)
  BY DEF PromoteHazards
<1>2. exp[w] = "any" => Incoming(w) # {}
  BY DEF PromoteHazards
<1>3. \A o \in Writers : o # w => ~Claims(o)
  BY <1>1 DEF ProtocolInv, ClaimInv, Claims
<1>4. staging[w].rows = Result(w)
  BY DEF ProtocolInv, StagedInv, AfterWrite
<1>5. exp[w] = "snapshot" => had[w] /\ Exists(head) /\ head.ver = base[w] /\ head.rows = read[w].rows
  BY DEF ProtocolInv, ClaimInv, MergedInv, Claims, LocalsInv, AfterRead, AfterWrite
<1>6. exp[w] = "absent" => ~Exists(head)
  BY <1>1 DEF LocalsInv
<1>7. exp[w] \in {"any", "absent", "snapshot"}
  BY DEF TypeOK
<1>8. staging[w].rows = Intended(w).rows
  <2>1. CASE exp[w] = "snapshot"
    <3>1. Exists(head)
      BY <1>1, <1>5, <2>1
    <3> QED BY <1>4, <1>5, <2>1, <3>1 DEF Intended, Result
  <2>2. CASE exp[w] = "any" \/ ~Exists(head)
    <3>1. exp[w] # "snapshot"
      BY <1>1, <1>5, <2>2
    <3> QED BY <1>4, <2>2, <3>1 DEF Intended, Result
  <2> QED BY <1>6, <1>7, <2>1, <2>2
<1>9. ASSUME staging[w].ver = NoVersion, Exists(head)
      PROVE  head.ver = NoVersion /\ head.rows = {}
  <2>1. Result(w) = {}
    BY <1>4, <1>9 DEF ProtocolInv, EmptyInv
  <2>2. exp[w] = "snapshot"
    BY <1>2, <1>6, <1>7, <1>9, <2>1 DEF Result
  <2>3. head.rows = {}
    BY <1>5, <2>1, <2>2 DEF Result
  <2> QED BY <1>9, <2>3 DEF ProtocolInv, EmptyInv
<1> QED BY <1>3, <1>5, <1>8, <1>9

\* The promote rename keeps the inductive invariant.
LEMMA PromoteInv ==
    ASSUME IInv, TypeOK', NEW w \in Writers, Promote(w)
    PROVE  IInv'
<1> USE DEF IInv, TypeOK, Promote, Refused, CanRename, Goto, Return, locals, Spend
<1>0. Undisturbed' => Undisturbed
  BY DEF Undisturbed, Trouble
<1>e. CASE UNCHANGED <<live, staging, head, hazards>>
  <2>1. pc'[w] \in {"rollback", "cleanup"} /\ (pc'[w] = "rollback" <=> had[w])
    BY <1>e DEF TypeOK
  <2>2. UNCHANGED <<parked, nextVer, exp, base, read, had>>
    BY DEF Promote
  <2>3. \A o \in Writers : o # w => pc'[o] = pc[o]
    BY DEF Promote
  <2>4. LocalsInv' /\ UnparkedInv' /\ StagingCreatedInv'
    BY <1>0, <1>e, <2>1, <2>2, <2>3
       DEF LocalsInv, UnparkedInv, BeforeClaim, StagingCreatedInv, AfterRead, AfterWrite
  <2>5. BornInv' /\ FreshInv' /\ PrivateInv'
    BY <1>e, <2>2 DEF BornInv, FreshInv, Allocated, PrivateInv
  <2>6. ASSUME hazards' = {} PROVE ProtocolInv'
    <3>1. ProtocolInv
      BY <1>e, <2>6
    <3> HIDE DEF IInv, TypeOK, Promote
    <3>2. EmptyInv'
      BY <1>e, <3>1 DEF ProtocolInv, EmptyInv
    <3>2a. StagedInv'
      BY <1>e, <2>1, <2>2, <2>3, <3>1 DEF ProtocolInv, StagedInv, AfterWrite, Result
    <3>2b. MergedInv'
      BY <1>e, <2>1, <2>2, <2>3, <3>1 DEF ProtocolInv, MergedInv, AfterRead, AfterWrite
    <3>2c. pc[w] = "promote"
      BY DEF Promote
    <3>3. ClaimInv'
      <4>1. \A o \in Writers : Claims(o)' => Claims(o) /\ (o = w => pc'[o] = "rollback")
        BY <2>1, <2>2, <2>3, <3>2c DEF Claims
      <4> QED BY <1>e, <2>2, <2>3, <3>1, <4>1 DEF ProtocolInv, ClaimInv, IsHead
    <3>4. HeldInv'
      BY <1>0, <1>e, <2>1, <2>2, <2>3, <3>1 DEF ProtocolInv, HeldInv, Holds, IsHead
    <3> QED BY <3>2, <3>2a, <3>2b, <3>3, <3>4 DEF ProtocolInv
  <2> QED BY <2>4, <2>5, <2>6 DEF IInv
<1>c. CASE /\ Exists(staging[w]) /\ ~Exists(live) /\ live' = staging[w]
           /\ staging' = [staging EXCEPT ![w] = NoTable]
           /\ head' = Intended(w)
  <2> DEFINE new == Intended(w)
  <2>1. new.ver = staging[w].ver /\ Exists(new)
    BY <1>c, IntendedType DEF Intended
  <2>2. UNCHANGED <<parked, nextVer, exp, base, read, had>>
    BY DEF Promote
  <2>3. /\ \A o \in Writers : o # w => pc'[o] = pc[o] /\ staging'[o] = staging[o]
        /\ staging'[w] = NoTable
    BY <1>c DEF Promote
  <2>4. pc'[w] \in {"dropParked", "done", "rollback", "cleanup"}
        /\ (pc'[w] \in {"dropParked", "rollback"} => had[w])
    BY <1>c
  <2> HIDE DEF new, Promote, TypeOK, IInv
  <2>5. LocalsInv' /\ UnparkedInv' /\ StagingCreatedInv'
    BY <1>0, <2>2, <2>3, <2>4
       DEF IInv, LocalsInv, UnparkedInv, BeforeClaim, StagingCreatedInv, AfterRead, AfterWrite
  <2>6. BornInv' /\ FreshInv' /\ PrivateInv'
    BY <1>c, <2>1, <2>2, <2>3 DEF new, IInv, BornInv, FreshInv, Allocated, PrivateInv
  <2>7. ASSUME hazards' = {} PROVE ProtocolInv'
    <3>1. hazards = {} /\ PromoteHazards(w) = {} /\ pc[w] = "promote"
      BY <1>c, <2>7 DEF Promote
    <3>1a. pc'[w] \in {"dropParked", "done"}
      <4>1. "lost" \notin hazards'
        BY <2>7
      <4>2. IF had[w] THEN Goto(w, "dropParked") ELSE Goto(w, "done")
        BY <1>c, <4>1 DEF Promote
      <4> QED BY <4>2 DEF TypeOK
    <3>2. /\ staging[w].rows = new.rows
          /\ \A o \in Writers : o # w => ~Claims(o)
          /\ staging[w].ver = NoVersion /\ Exists(head)
                => head.ver = NoVersion /\ head.rows = {}
      BY <1>c, <3>1, PromoteCommits DEF new
    <3>3. ProtocolInv
      BY <3>1 DEF IInv
    <3>4. IsHead(live)'
      BY <1>c, <2>1, <3>2 DEF new, IsHead
    <3>5. EmptyInv'
      BY <1>c, <2>1, <2>3, <3>2, <3>3 DEF new, ProtocolInv, EmptyInv
    <3>6. StagedInv'
      BY <2>2, <2>3, <3>1a, <3>3 DEF ProtocolInv, StagedInv, AfterWrite, Result
    <3>7. MergedInv'
      <4> SUFFICES ASSUME NEW o \in Writers, exp'[o] = "snapshot",
                          pc'[o] \in AfterRead, base'[o] = head'.ver
                   PROVE  read'[o].rows = head'.rows
        BY DEF MergedInv
      <4>1. o # w /\ pc[o] = pc'[o]
        BY <2>3, <3>1a DEF AfterRead, AfterWrite
      <4>2. Exists(head)
        BY <2>2, <4>1 DEF IInv, LocalsInv, BornInv
      <4>3. staging[w].ver = NoVersion
        BY <1>c, <2>1, <2>2 DEF new, IInv, PrivateInv
      <4>4. head.ver = NoVersion /\ head.rows = {}
        BY <3>2, <4>2, <4>3
      <4>5. base[o] = head.ver
        BY <1>c, <2>1, <2>2, <4>3, <4>4 DEF new
      <4>6. read[o].rows = {}
        BY <2>2, <3>3, <4>1, <4>4, <4>5 DEF ProtocolInv, MergedInv
      <4>7. head'.rows = {}
        BY <1>c, <3>2, <3>3, <4>3 DEF new, ProtocolInv, EmptyInv
      <4> QED BY <2>2, <4>6, <4>7
    <3>8. ClaimInv'
      BY <2>2, <2>3, <3>1a, <3>2, <3>4 DEF ClaimInv, Claims
    <3>9. HeldInv'
      BY <3>4 DEF HeldInv
    <3> QED BY <3>5, <3>6, <3>7, <3>8, <3>9 DEF ProtocolInv
  <2> QED BY <2>5, <2>6, <2>7 DEF IInv
<1> QED BY <1>e, <1>c DEF Promote

\* DropParked keeps the inductive invariant.
LEMMA DropParkedInv ==
    ASSUME IInv, TypeOK', NEW w \in Writers, DropParked(w)
    PROVE  IInv'
<1> USE DEF IInv, TypeOK, DropParked, Goto, Return, Abandon, locals, Spend
<1>0. Undisturbed' => Undisturbed
  BY DEF Undisturbed, Trouble, Refused
<1>1. LocalsInv'
  BY DEF LocalsInv, AfterRead, AfterWrite
<1>2. BornInv'
  BY DEF BornInv
<1>3. FreshInv'
  BY DEF FreshInv, Allocated
<1>4. PrivateInv'
  BY DEF PrivateInv
<1>5. StagingCreatedInv'
  BY DEF StagingCreatedInv
<1>6. UnparkedInv'
  BY <1>0 DEF UnparkedInv, BeforeClaim
<1>7. ASSUME hazards' = {} PROVE ProtocolInv'
  <2>0. hazards = {}
    BY <1>7
  <2>1. EmptyInv'
    BY <2>0 DEF ProtocolInv, EmptyInv
  <2>2. StagedInv'
    BY <2>0 DEF ProtocolInv, StagedInv, AfterWrite, Result
  <2>3. MergedInv'
    BY <2>0 DEF ProtocolInv, MergedInv, AfterRead, AfterWrite
  <2>4. ClaimInv'
    BY <2>0 DEF ProtocolInv, ClaimInv, Claims, IsHead
  <2>5. HeldInv'
    BY <1>0, <2>0 DEF ProtocolInv, HeldInv, Holds, IsHead
  <2> QED BY <2>1, <2>2, <2>3, <2>4, <2>5 DEF ProtocolInv
<1> QED BY <1>1, <1>2, <1>3, <1>4, <1>5, <1>6, <1>7

\* Cleanup keeps the inductive invariant.
LEMMA CleanupInv ==
    ASSUME IInv, TypeOK', NEW w \in Writers, Cleanup(w)
    PROVE  IInv'
<1> USE DEF IInv, TypeOK, Cleanup, Goto, Return, Abandon, locals, Spend
<1>0. Undisturbed' => Undisturbed
  BY DEF Undisturbed, Trouble, Refused
<1>1. LocalsInv'
  BY DEF LocalsInv, AfterRead, AfterWrite
<1>2. BornInv'
  BY DEF BornInv
<1>3. FreshInv'
  BY DEF FreshInv, Allocated
<1>4. PrivateInv'
  BY DEF PrivateInv
<1>5. StagingCreatedInv'
  BY DEF StagingCreatedInv
<1>6. UnparkedInv'
  BY <1>0 DEF UnparkedInv, BeforeClaim
<1>7. ASSUME hazards' = {} PROVE ProtocolInv'
  <2>0. hazards = {}
    BY <1>7
  <2>1. EmptyInv'
    BY <2>0 DEF ProtocolInv, EmptyInv
  <2>2. StagedInv'
    BY <2>0 DEF ProtocolInv, StagedInv, AfterWrite, Result
  <2>3. MergedInv'
    BY <2>0 DEF ProtocolInv, MergedInv, AfterRead, AfterWrite
  <2>4. ClaimInv'
    BY <2>0 DEF ProtocolInv, ClaimInv, Claims, IsHead
  <2>5. HeldInv'
    BY <1>0, <2>0 DEF ProtocolInv, HeldInv, Holds, IsHead
  <2> QED BY <2>1, <2>2, <2>3, <2>4, <2>5 DEF ProtocolInv
<1> QED BY <1>1, <1>2, <1>3, <1>4, <1>5, <1>6, <1>7

\* Reprobe keeps the inductive invariant.
LEMMA ReprobeInv ==
    ASSUME IInv, TypeOK', NEW w \in Writers, Reprobe(w)
    PROVE  IInv'
<1> USE DEF IInv, TypeOK, Reprobe, Goto, Return, Abandon, locals, Spend
<1>0. Undisturbed' => Undisturbed
  BY DEF Undisturbed, Trouble, Refused
<1>1. LocalsInv'
  BY DEF LocalsInv, AfterRead, AfterWrite
<1>2. BornInv'
  BY DEF BornInv
<1>3. FreshInv'
  BY DEF FreshInv, Allocated
<1>4. PrivateInv'
  BY DEF PrivateInv
<1>5. StagingCreatedInv'
  BY DEF StagingCreatedInv
<1>6. UnparkedInv'
  BY <1>0 DEF UnparkedInv, BeforeClaim
<1>7. ASSUME hazards' = {} PROVE ProtocolInv'
  <2>0. hazards = {}
    BY <1>7
  <2>1. EmptyInv'
    BY <2>0 DEF ProtocolInv, EmptyInv
  <2>2. StagedInv'
    BY <2>0 DEF ProtocolInv, StagedInv, AfterWrite, Result
  <2>3. MergedInv'
    BY <2>0 DEF ProtocolInv, MergedInv, AfterRead, AfterWrite
  <2>4. ClaimInv'
    BY <2>0 DEF ProtocolInv, ClaimInv, Claims, IsHead
  <2>5. HeldInv'
    BY <1>0, <2>0 DEF ProtocolInv, HeldInv, Holds, IsHead
  <2> QED BY <2>1, <2>2, <2>3, <2>4, <2>5 DEF ProtocolInv
<1> QED BY <1>1, <1>2, <1>3, <1>4, <1>5, <1>6, <1>7

\* Crash keeps the inductive invariant.
LEMMA CrashInv ==
    ASSUME IInv, TypeOK', NEW w \in Writers, Crash(w)
    PROVE  IInv'
<1> USE DEF IInv, TypeOK, Crash, Running, Goto, Return, Abandon, locals, Spend
<1>0. Undisturbed' => Undisturbed
  BY DEF Undisturbed, Trouble, Refused
<1>1. LocalsInv'
  BY DEF LocalsInv, AfterRead, AfterWrite
<1>2. BornInv'
  BY DEF BornInv
<1>3. FreshInv'
  BY DEF FreshInv, Allocated
<1>4. PrivateInv'
  BY DEF PrivateInv
<1>5. StagingCreatedInv'
  BY DEF StagingCreatedInv
<1>6. UnparkedInv'
  BY <1>0 DEF UnparkedInv, BeforeClaim
<1>7. ASSUME hazards' = {} PROVE ProtocolInv'
  <2>0. hazards = {}
    BY <1>7
  <2>1. EmptyInv'
    BY <2>0 DEF ProtocolInv, EmptyInv
  <2>2. StagedInv'
    BY <2>0 DEF ProtocolInv, StagedInv, AfterWrite, Result
  <2>3. MergedInv'
    BY <2>0 DEF ProtocolInv, MergedInv, AfterRead, AfterWrite
  <2>4. ClaimInv'
    BY <2>0 DEF ProtocolInv, ClaimInv, Claims, IsHead
  <2>5. HeldInv'
    BY <1>0, <2>0 DEF ProtocolInv, HeldInv, Holds, IsHead
  <2> QED BY <2>1, <2>2, <2>3, <2>4, <2>5 DEF ProtocolInv
<1> QED BY <1>1, <1>2, <1>3, <1>4, <1>5, <1>6, <1>7

\* Retry keeps the inductive invariant.
LEMMA RetryInv ==
    ASSUME IInv, TypeOK', NEW w \in Writers, Retry(w)
    PROVE  IInv'
<1> USE DEF IInv, TypeOK, Retry, EntryPc, EntryExp, Goto, Return, Abandon, locals, Spend
<1>0. Undisturbed' => Undisturbed
  BY DEF Undisturbed, Trouble, Refused
<1>1. LocalsInv'
  BY DEF LocalsInv, AfterRead, AfterWrite
<1>2. BornInv'
  BY DEF BornInv
<1>3. FreshInv'
  BY DEF FreshInv, Allocated
<1>4. PrivateInv'
  BY DEF PrivateInv
<1>5. StagingCreatedInv'
  BY DEF StagingCreatedInv
<1>6. UnparkedInv'
  <2>1. ~Undisturbed'
    BY DEF Undisturbed, Trouble
  <2> QED BY <2>1 DEF UnparkedInv
<1>7. ASSUME hazards' = {} PROVE ProtocolInv'
  <2>0. hazards = {}
    BY <1>7
  <2>1. EmptyInv'
    BY <2>0 DEF ProtocolInv, EmptyInv
  <2>2. StagedInv'
    <3> SUFFICES ASSUME NEW o \in Writers, pc'[o] \in AfterWrite, Exists(staging'[o])
                 PROVE  staging'[o].rows = Result(o)'
      BY DEF StagedInv
    <3>1. o # w
      BY DEF AfterWrite, Retry, EntryPc
    <3>2. /\ pc[o] \in AfterWrite /\ Exists(staging[o]) /\ staging'[o] = staging[o]
          /\ exp'[o] = exp[o] /\ read'[o] = read[o]
      BY <3>1 DEF Retry, EntryPc
    <3> QED BY <2>0, <3>1, <3>2 DEF ProtocolInv, StagedInv, Result
  <2>3. MergedInv'
    BY <2>0 DEF ProtocolInv, MergedInv, AfterRead, AfterWrite
  <2>4. ClaimInv'
    BY <2>0 DEF ProtocolInv, ClaimInv, Claims, IsHead
  <2>5. HeldInv'
    <3>1. ~Undisturbed'
      BY DEF Undisturbed, Trouble
    <3> QED BY <3>1 DEF HeldInv
  <2> QED BY <2>1, <2>2, <2>3, <2>4, <2>5 DEF ProtocolInv
<1> QED BY <1>1, <1>2, <1>3, <1>4, <1>5, <1>6, <1>7

\* SweepStaging keeps the inductive invariant.
LEMMA SweepStagingInv ==
    ASSUME IInv, TypeOK', NEW w \in Writers, SweepStaging(w)
    PROVE  IInv'
<1> USE DEF IInv, TypeOK, SweepStaging, Goto, Return, Abandon, locals, Spend
<1>0. Undisturbed' => Undisturbed
  BY DEF Undisturbed, Trouble, Refused
<1>1. LocalsInv'
  BY DEF LocalsInv, AfterRead, AfterWrite
<1>2. BornInv'
  BY DEF BornInv
<1>3. FreshInv'
  BY DEF FreshInv, Allocated
<1>4. PrivateInv'
  BY DEF PrivateInv
<1>5. StagingCreatedInv'
  BY DEF StagingCreatedInv
<1>6. UnparkedInv'
  <2>1. ~Undisturbed'
    BY DEF Undisturbed, Trouble
  <2> QED BY <2>1 DEF UnparkedInv
<1>7. ASSUME hazards' = {} PROVE ProtocolInv'
  <2>0. hazards = {}
    BY <1>7
  <2>1. EmptyInv'
    BY <2>0 DEF ProtocolInv, EmptyInv
  <2>2. StagedInv'
    BY <2>0 DEF ProtocolInv, StagedInv, AfterWrite, Result
  <2>3. MergedInv'
    BY <2>0 DEF ProtocolInv, MergedInv, AfterRead, AfterWrite
  <2>4. ClaimInv'
    BY <2>0 DEF ProtocolInv, ClaimInv, Claims, IsHead
  <2>5. HeldInv'
    <3>1. ~Undisturbed'
      BY DEF Undisturbed, Trouble
    <3> QED BY <3>1 DEF HeldInv
  <2> QED BY <2>1, <2>2, <2>3, <2>4, <2>5 DEF ProtocolInv
<1> QED BY <1>1, <1>2, <1>3, <1>4, <1>5, <1>6, <1>7

\* SweepParked keeps the inductive invariant.
LEMMA SweepParkedInv ==
    ASSUME IInv, TypeOK', NEW w \in Writers, SweepParked(w)
    PROVE  IInv'
<1> USE DEF IInv, TypeOK, SweepParked, Goto, Return, Abandon, locals, Spend
<1>0. Undisturbed' => Undisturbed
  BY DEF Undisturbed, Trouble, Refused
<1>1. LocalsInv'
  BY DEF LocalsInv, AfterRead, AfterWrite
<1>2. BornInv'
  BY DEF BornInv
<1>3. FreshInv'
  BY DEF FreshInv, Allocated
<1>4. PrivateInv'
  BY DEF PrivateInv
<1>5. StagingCreatedInv'
  BY DEF StagingCreatedInv
<1>6. UnparkedInv'
  <2>1. ~Undisturbed'
    BY DEF Undisturbed, Trouble
  <2> QED BY <2>1 DEF UnparkedInv
<1>7. ASSUME hazards' = {} PROVE ProtocolInv'
  <2>0. hazards = {}
    BY <1>7
  <2>1. EmptyInv'
    BY <2>0 DEF ProtocolInv, EmptyInv
  <2>2. StagedInv'
    BY <2>0 DEF ProtocolInv, StagedInv, AfterWrite, Result
  <2>3. MergedInv'
    BY <2>0 DEF ProtocolInv, MergedInv, AfterRead, AfterWrite
  <2>4. ClaimInv'
    BY <2>0 DEF ProtocolInv, ClaimInv, Claims, IsHead
  <2>5. HeldInv'
    <3>1. ~Undisturbed'
      BY DEF Undisturbed, Trouble
    <3> QED BY <3>1 DEF HeldInv
  <2> QED BY <2>1, <2>2, <2>3, <2>4, <2>5 DEF ProtocolInv
<1> QED BY <1>1, <1>2, <1>3, <1>4, <1>5, <1>6, <1>7

\* An external commit keeps the inductive invariant: it needs the target name, so nobody claims.
LEMMA ExternalAppendInv ==
    ASSUME IInv, TypeOK', NEW a \in Appends, ExternalAppend(a)
    PROVE  IInv'
<1>1. Exists(live) /\ Exists(head)
  BY DEF IInv, BornInv, ExternalAppend
<1>2. /\ UNCHANGED <<staging, parked, pc, used, hazards, exp, base, read, had>>
      /\ nextVer' = nextVer + 1
  BY DEF ExternalAppend, locals
<1>3. /\ live' = [ver |-> nextVer, rows |-> live.rows \cup {a}, old |-> FALSE]
      /\ head' = [ver |-> nextVer, rows |-> head.rows \cup {a}, old |-> FALSE]
  BY DEF ExternalAppend
<1>4. live.rows \cup {a} \in SUBSET Rows /\ head.rows \cup {a} \in SUBSET Rows
  BY <1>1 DEF IInv, TypeOK, Table, Rows
<1>5. nextVer \in Nat /\ nextVer # 0
  BY DEF IInv, TypeOK
<1>6. /\ Exists(live') /\ live'.ver = nextVer /\ live'.rows = live.rows \cup {a}
      /\ Exists(head') /\ head'.ver = nextVer /\ head'.rows = head.rows \cup {a}
  BY <1>3, <1>4, <1>5, NewTableType
<1>7. /\ \A o \in Writers : base[o] \in Nat /\ base[o] < nextVer
      /\ \A o \in Writers : Exists(staging[o]) => staging[o].ver \in Nat /\ staging[o].ver < nextVer
      /\ \A o \in Writers : Exists(parked[o]) => parked[o].ver \in Nat /\ parked[o].ver < nextVer
  BY DEF IInv, TypeOK, Table, FreshInv, Allocated
<1>8. LocalsInv' /\ StagingCreatedInv' /\ UnparkedInv'
  BY <1>2 DEF IInv, LocalsInv, StagingCreatedInv, UnparkedInv, Undisturbed
<1>9. BornInv'
  BY <1>6 DEF BornInv
<1>10. FreshInv'
  BY <1>2, <1>5, <1>6, <1>7 DEF FreshInv, Allocated
<1>11. PrivateInv'
  BY <1>2, <1>5, <1>6, <1>7 DEF IInv, PrivateInv
<1>12. ASSUME hazards' = {} PROVE ProtocolInv'
  <2>1. ProtocolInv
    BY <1>2, <1>12 DEF IInv
  <2>2. EmptyInv'
    BY <1>2, <1>5, <1>6, <2>1 DEF ProtocolInv, EmptyInv
  <2>3. StagedInv'
    BY <1>2, <2>1 DEF ProtocolInv, StagedInv, Result
  <2>4. MergedInv'
    BY <1>2, <1>5, <1>6, <1>7 DEF MergedInv
  <2>5. IsHead(live)'
    BY <1>1, <1>6, <2>1 DEF ProtocolInv, ClaimInv, IsHead
  <2>6. ClaimInv'
    BY <1>1, <1>2, <2>1, <2>5 DEF ProtocolInv, ClaimInv, Claims
  <2>7. HeldInv'
    BY <2>5 DEF HeldInv
  <2> QED BY <2>2, <2>3, <2>4, <2>6, <2>7 DEF ProtocolInv
<1> QED BY <1>8, <1>9, <1>10, <1>11, <1>12 DEF IInv

\* Time keeps the inductive invariant.
LEMMA AgeInv ==
    ASSUME IInv, TypeOK', Age
    PROVE  IInv'
<1>1. UNCHANGED <<pc, nextVer, used, head, hazards, exp, base, read, had>>
  BY DEF Age, locals
<1>2. /\ Exists(live') <=> Exists(live)
      /\ Exists(live) => live'.ver = live.ver /\ live'.rows = live.rows
  BY AgedType DEF Age, IInv, TypeOK
<1>3. \A w \in Writers :
        /\ Exists(staging'[w]) <=> Exists(staging[w])
        /\ Exists(staging[w]) => /\ staging'[w].ver = staging[w].ver
                                 /\ staging'[w].rows = staging[w].rows
  BY AgedType DEF Age, IInv, TypeOK
<1>4. \A w \in Writers :
        /\ Exists(parked'[w]) <=> Exists(parked[w])
        /\ Exists(parked[w]) => /\ parked'[w].ver = parked[w].ver
                                /\ parked'[w].rows = parked[w].rows
  BY AgedType DEF Age, IInv, TypeOK
<1>5. LocalsInv' /\ UnparkedInv'
  BY <1>1, <1>4 DEF IInv, LocalsInv, UnparkedInv, Undisturbed
<1>6. BornInv'
  BY <1>1, <1>2, <1>4 DEF IInv, BornInv
<1>7. FreshInv' /\ StagingCreatedInv'
  BY <1>1, <1>2, <1>3, <1>4 DEF IInv, FreshInv, Allocated, StagingCreatedInv
<1>8. PrivateInv'
  BY <1>1, <1>2, <1>3, <1>4 DEF IInv, PrivateInv
<1>9. ASSUME hazards' = {} PROVE ProtocolInv'
  <2>1. ProtocolInv
    BY <1>1, <1>9 DEF IInv
  <2>2. EmptyInv' /\ MergedInv'
    BY <1>1, <1>3, <2>1 DEF ProtocolInv, EmptyInv, MergedInv
  <2>3. StagedInv'
    BY <1>1, <1>3, <2>1 DEF ProtocolInv, StagedInv, Result
  <2>4. ClaimInv'
    BY <1>1, <1>2, <1>4, <2>1 DEF ProtocolInv, ClaimInv, Claims, IsHead
  <2>5. HeldInv'
    BY <1>1, <1>2, <1>4, <2>1 DEF ProtocolInv, HeldInv, Holds, IsHead, Undisturbed
  <2> QED BY <2>2, <2>3, <2>4, <2>5 DEF ProtocolInv
<1> QED BY <1>5, <1>6, <1>7, <1>8, <1>9 DEF IInv

-----------------------------------------------------------------------------
\* The initial states satisfy the inductive invariant.
LEMMA InitInv == Init => IInv
<1> SUFFICES ASSUME Init PROVE IInv
  OBVIOUS
<1>1. TypeOK
  BY InitType
<1>2. /\ \A w \in Writers : /\ staging[w] = NoTable /\ parked[w] = NoTable
                            /\ read[w] = NoTable /\ base[w] = 0
                            /\ pc[w] \in {EntryPc(w), "done"} /\ exp[w] = EntryExp(w)
      /\ head = live /\ nextVer = 2
  BY DEF Init
<1>3. LocalsInv /\ BornInv /\ PrivateInv /\ StagingCreatedInv /\ UnparkedInv
  BY <1>2 DEF LocalsInv, BornInv, PrivateInv, StagingCreatedInv, UnparkedInv,
              EntryPc, EntryExp, AfterRead, AfterWrite
<1>4. Exists(live) => live.ver \in {0, 1} /\ (live.ver = 0 <=> live.rows = {})
  BY DEF Init, EmptyTable
<1>5. FreshInv
  BY <1>2, <1>4 DEF FreshInv, Allocated
<1>6. ProtocolInv
  <2>1. EmptyInv /\ StagedInv
    BY <1>2, <1>4 DEF EmptyInv, StagedInv
  <2>2. \A w \in Writers : pc[w] \in {"probe", "baseProbe", "create", "done"}
    BY <1>2 DEF EntryPc
  <2>3. MergedInv
    BY <1>2 DEF MergedInv, EntryPc, EntryExp, AfterRead, AfterWrite
  <2>4. ClaimInv /\ HeldInv
    BY <1>2, <2>2 DEF ClaimInv, HeldInv, Claims, IsHead
  <2> QED BY <2>1, <2>3, <2>4 DEF ProtocolInv
<1> QED BY <1>1, <1>3, <1>5, <1>6 DEF IInv

\* Every step, and stuttering, keeps the inductive invariant.
LEMMA NextInv == IInv /\ [Next]_vars => IInv'
<1> SUFFICES ASSUME IInv, [Next]_vars PROVE IInv'
  OBVIOUS
<1>1. CASE UNCHANGED vars
  <2>1. TypeOK' /\ LocalsInv' /\ BornInv'
    BY <1>1 DEF vars, IInv, TypeOK, LocalsInv, BornInv
  <2>2. FreshInv' /\ PrivateInv' /\ StagingCreatedInv' /\ UnparkedInv'
    BY <1>1 DEF vars, IInv, FreshInv, Allocated, PrivateInv, StagingCreatedInv,
                UnparkedInv, Undisturbed
  <2>3. hazards' = {} => EmptyInv' /\ StagedInv' /\ MergedInv'
    BY <1>1 DEF vars, IInv, ProtocolInv, EmptyInv, StagedInv, Result, MergedInv, IsHead
  <2>4. hazards' = {} => ClaimInv' /\ HeldInv'
    BY <1>1 DEF vars, IInv, ProtocolInv, ClaimInv, Claims, IsHead, HeldInv, Holds, Undisturbed
  <2> QED BY <2>1, <2>2, <2>3, <2>4 DEF IInv, ProtocolInv
<1>2. ASSUME NEW w \in Writers, Step(w) PROVE IInv'
  <2>1. TypeOK'
    BY <1>2, StepType DEF IInv
  <2> QED
    BY <1>2, <2>1, UpsertProbeInv, BaseProbeInv, BaseLoadInv, LoadProviderInv,
       CreateStagingInv, WriteStagingInv, PreCleanParkedInv, SwapProbeInv, ParkInv,
       ValidateParkedInv, RollbackInv, PromoteInv, DropParkedInv, CleanupInv, ReprobeInv DEF Step
<1>3. CASE Next /\ ~(\E w \in Writers : Step(w))
  <2>1. TypeOK'
    BY <1>3, EnvironmentType DEF IInv
  <2> QED
    BY <1>3, <2>1, CrashInv, RetryInv, SweepStagingInv, SweepParkedInv,
       ExternalAppendInv, AgeInv DEF Next
<1> QED BY <1>1, <1>2, <1>3

\* The inductive invariant holds in every reachable state.
THEOREM Invariance == Spec => []IInv
<1> QED BY InitInv, NextInv, PTL DEF Spec

\* Every variable of the overwrite protocol keeps its type.
THEOREM TypeCorrect == Spec => []TypeOK
<1>1. IInv => TypeOK
  BY DEF IInv
<1> QED BY <1>1, Invariance, PTL

\* For every number of concurrent upserts, compactions, refreshes and external
\* commits, and whatever requests fail, writers crash or tables are swept: the
\* table readers see is the last committed one, unless a writer filled the gap
\* under a parked table, a full overwrite was empty, or a promote's reply was
\* lost.
THEOREM SafeOverwriteTheorem == Spec => []SafeOverwrite
<1>1. IInv => SafeOverwrite
  BY DEF IInv, ProtocolInv, ClaimInv, SafeOverwrite, NoLostUpdate
<1> QED BY <1>1, Invariance, PTL

\* The committed table is always bound to the target name or to a parked name.
THEOREM RecoverableTheorem == Spec => []Recoverable
<1>1. IInv => Recoverable
  BY DEF IInv, ProtocolInv, HeldInv, Holds, Undisturbed, Recoverable
<1> QED BY <1>1, Invariance, PTL

\* A read-modify-write commits only over the version and the rows it read.
THEOREM CommitsOverBaseTheorem == Spec => CommitsOverBase
<1>1. IInv => \A w \in Writers :
        pc[w] = "promote" /\ exp[w] = "snapshot" /\ hazards = {}
            => head.ver = base[w] /\ head.rows = read[w].rows
  BY DEF IInv, ProtocolInv, ClaimInv, MergedInv, Claims, LocalsInv, AfterRead, AfterWrite
<1>2. IInv /\ [Next]_vars =>
        [\A w \in Writers :
            pc[w] = "promote" /\ pc'[w] = "dropParked" /\ exp[w] = "snapshot"
            /\ hazards = {}
                => head.ver = base[w] /\ head.rows = read[w].rows]_vars
  BY <1>1
<1> QED BY <1>2, Invariance, PTL DEF Spec, CommitsOverBase

-----------------------------------------------------------------------------
(* Nothing leaks.  Without trouble only a promote that fills the gap under *)
(* a parked table can make a rollback fail, so the claim of ClaimInv must  *)
(* hold whatever empty overwrites do to the versions: it is restated here  *)
(* for the names alone, under the weaker condition.                        *)

\* Where a writer has no staging table.
Unstaged == {"probe", "baseProbe", "baseLoad", "provider", "create", "dropParked", "reprobe",
             "done"}

\* A parked table belongs to a writer that will put it back or drop it, and one
\* writer at a time holds the target's.
ParkedTidy ==
    \A w \in Writers :
        /\ Exists(parked[w]) => Claims(w) \/ pc[w] = "dropParked"
        /\ Claims(w) => /\ Exists(parked[w]) /\ ~Exists(live)
                        /\ \A o \in Writers : Claims(o) => o = w
TidyInv ==
    Untroubled =>
        /\ \A w \in Writers : pc[w] \in Unstaged => ~Exists(staging[w])
        /\ "gap" \notin hazards => ParkedTidy

\* A step that spends trouble ends the untroubled part of a behaviour.
LEMMA NoTrouble ==
    ASSUME TypeOK, [Next]_vars, Untroubled'
    PROVE  Untroubled /\ \A k \in Trouble : ~Spend(k)
<1>1. \A k \in Trouble : used[k] \in Nat BY DEF TypeOK
<1>2. ASSUME NEW k \in Trouble PROVE ~Spend(k)
  BY <1>1 DEF Spend, Untroubled, TypeOK
<1>3. {"fault", "lost", "crash", "retry", "sweep"} = Trouble BY DEF Trouble
<1>4. used' = used
  BY <1>2, <1>3 DEF Next, Step, vars, UpsertProbe, BaseProbe, BaseLoad, LoadProvider, CreateStaging,
     WriteStaging,
     PreCleanParked, SwapProbe, Park, ValidateParked, Rollback, Promote, DropParked, Cleanup, Reprobe, Crash, Retry,
     SweepStaging, SweepParked, ExternalAppend, Age, Refused
<1> QED BY <1>2, <1>4 DEF Untroubled

\* A writer's step leaves the others where they are.
LEMMA OthersStay ==
    ASSUME TypeOK, NEW w \in Writers, Step(w)
    PROVE  \A o \in Writers \ {w} :
              /\ pc'[o] = pc[o] /\ had'[o] = had[o]
              /\ staging'[o] = staging[o] /\ parked'[o] = parked[o]
BY DEF TypeOK, Step, UpsertProbe, BaseProbe, BaseLoad, LoadProvider, CreateStaging, WriteStaging,
   PreCleanParked,
   SwapProbe, Park, ValidateParked, Rollback, Promote, DropParked, Cleanup, Reprobe, Goto, Return, Abandon, locals

\* No staging table is left behind.
LEMMA StagingTidy ==
    ASSUME TypeOK, TypeOK', NEW w \in Writers, Step(w), \A k \in Trouble : ~Spend(k),
           pc[w] \in Unstaged => ~Exists(staging[w]), pc'[w] \in Unstaged
    PROVE  ~Exists(staging'[w])
<1>1. {"fault", "lost"} \subseteq Trouble BY DEF Trouble
<1> USE <1>1 DEF TypeOK, Unstaged, Goto, Return, Abandon, locals, Refused
<1>2. CASE UpsertProbe(w) \/ BaseProbe(w) \/ BaseLoad(w) \/ LoadProvider(w)
  BY <1>2 DEF UpsertProbe, BaseProbe, BaseLoad, LoadProvider
<1>3. CASE CreateStaging(w) \/ WriteStaging(w) BY <1>3 DEF CreateStaging, WriteStaging
<1>4. CASE PreCleanParked(w) \/ SwapProbe(w) BY <1>4 DEF PreCleanParked, SwapProbe
<1>5. CASE Park(w) \/ ValidateParked(w) \/ Rollback(w) BY <1>5 DEF Park, AfterPark, ValidateParked, Rollback
<1>6. CASE Promote(w) BY <1>6 DEF Promote
<1>7. CASE DropParked(w) \/ Cleanup(w) \/ Reprobe(w) BY <1>7 DEF DropParked, Cleanup, Reprobe
<1> QED BY <1>2, <1>3, <1>4, <1>5, <1>6, <1>7 DEF Step

\* A step that neither claims nor frees a name.
LEMMA KeepsNames ==
    ASSUME ParkedTidy, TypeOK, NEW w \in Writers, Step(w), parked' = parked, live' = live, ~Claims(w), ~Claims(w)',
           pc[w] # "dropParked" \/ pc'[w] = "dropParked"
    PROVE  ParkedTidy'
<1>1. \A o \in Writers \ {w} : (Claims(o)' <=> Claims(o)) /\ pc'[o] = pc[o]
  BY OthersStay DEF Claims
<1> QED BY <1>1 DEF ParkedTidy

LEMMA ParkedStaysTidy ==
    ASSUME IInv, TypeOK', NEW w \in Writers, Step(w), \A k \in Trouble : ~Spend(k), ParkedTidy, "gap" \notin hazards'
    PROVE  ParkedTidy'
<1>1. {"fault", "lost"} \subseteq Trouble BY DEF Trouble
<1>2. TypeOK BY DEF IInv
<1>3. \A o \in Writers \ {w} : /\ Claims(o)' <=> Claims(o)
                               /\ pc'[o] = pc[o] /\ parked'[o] = parked[o]
  BY <1>2, OthersStay DEF Claims
<1> USE <1>1, <1>2 DEF TypeOK, Goto, Return, Abandon, locals, Refused
<1>4. CASE UpsertProbe(w) \/ BaseProbe(w) \/ BaseLoad(w) \/ LoadProvider(w) \/ CreateStaging(w) \/ WriteStaging(w)
  <2>1. parked' = parked /\ live' = live /\ ~Claims(w) /\ ~Claims(w)' /\ pc[w] # "dropParked"
    BY <1>4 DEF UpsertProbe, BaseProbe, BaseLoad, LoadProvider, CreateStaging, WriteStaging, Claims
  <2> QED BY <2>1, KeepsNames
<1>5. CASE PreCleanParked(w)
  <2>1. parked'[w] = NoTable /\ live' = live /\ ~Claims(w) /\ ~Claims(w)'
    BY <1>5 DEF PreCleanParked, Claims
  <2> QED BY <1>3, <2>1 DEF ParkedTidy
<1>6. CASE SwapProbe(w)
  <2>1. parked' = parked /\ live' = live /\ ~Claims(w) /\ ~Claims(w)' /\ pc[w] # "dropParked"
    BY <1>6 DEF SwapProbe, Claims
  <2> QED BY <2>1, KeepsNames
<1>7. CASE Park(w)
  <2>1. ~Claims(w) /\ pc[w] = "park" /\ had[w] BY <1>7 DEF Park, Claims, IInv, LocalsInv
  <2>2. CASE CanRename(live, parked[w])
    <3>1. Exists(live) /\ live' = NoTable /\ parked'[w] = live /\ pc'[w] \in {"validate", "promote"} /\ had'[w]
      BY <1>7, <2>1, <2>2 DEF Park, CanRename, AfterPark
    <3>2. \A o \in Writers : ~Claims(o) BY <3>1 DEF ParkedTidy
    <3>3. Claims(w)' BY <3>1 DEF Claims
    <3> QED BY <1>3, <3>1, <3>2, <3>3 DEF ParkedTidy
  <2>3. CASE ~CanRename(live, parked[w])
    <3>1. parked' = parked /\ live' = live /\ pc'[w] = "cleanup" BY <1>7, <2>3 DEF Park
    <3> QED BY <2>1, <3>1, KeepsNames DEF Claims
  <2> QED BY <2>2, <2>3
<1>8. CASE ValidateParked(w)
  <2>1. Claims(w) /\ parked' = parked /\ live' = live /\ pc'[w] \in {"promote", "rollback"} /\ had'[w]
    BY <1>8 DEF ValidateParked, Claims, IInv, LocalsInv
  <2>2. Claims(w)' BY <2>1 DEF Claims
  <2> QED BY <1>3, <2>1, <2>2 DEF ParkedTidy
<1>9. CASE Rollback(w)
  <2>1. Claims(w) /\ Exists(parked[w]) /\ ~Exists(live) BY <1>9 DEF Rollback, Claims, ParkedTidy
  <2>2. live' = parked[w] /\ parked'[w] = NoTable /\ pc'[w] = "cleanup"
    BY <1>9, <2>1 DEF Rollback, CanRename
  <2>3. \A o \in Writers : ~Claims(o)' BY <1>3, <2>1, <2>2 DEF ParkedTidy, Claims
  <2> QED BY <1>3, <2>1, <2>2, <2>3 DEF ParkedTidy
<1>10. CASE Promote(w)
  <2>1. parked' = parked /\ had' = had /\ pc[w] = "promote" BY <1>10 DEF Promote
  <2>2. CASE live' = live
    <3>1. pc'[w] = (IF had[w] THEN "rollback" ELSE "cleanup")
      BY <1>10, <2>2 DEF Promote, CanRename, IInv, TypeOK
    <3>2. Claims(w)' <=> Claims(w) BY <2>1, <3>1 DEF Claims
    <3> QED BY <1>3, <2>1, <2>2, <3>1, <3>2 DEF ParkedTidy
  <2>3. CASE live' # live
    <3>1. /\ ~Exists(live) /\ pc'[w] = (IF had[w] THEN "dropParked" ELSE "done")
          /\ hazards' = hazards \cup PromoteHazards(w)
      BY <1>10, <2>3 DEF Promote, CanRename
    <3>2. had[w] \/ ~Exists(head) BY <3>1 DEF PromoteHazards
    <3>3. \A o \in Writers : Claims(o) => o = w
      BY <2>1, <3>2 DEF ParkedTidy, Claims, IInv, BornInv
    <3>4. ~Claims(w)' BY <3>1 DEF Claims
    <3>5. Exists(parked[w]) => had[w] BY <2>1 DEF ParkedTidy, Claims
    <3> QED BY <1>3, <2>1, <3>1, <3>3, <3>4, <3>5 DEF ParkedTidy
  <2> QED BY <2>2, <2>3
<1>11. CASE DropParked(w)
  <2>1. parked'[w] = NoTable /\ live' = live /\ ~Claims(w) /\ ~Claims(w)'
    BY <1>11 DEF DropParked, Claims
  <2> QED BY <1>3, <2>1 DEF ParkedTidy
<1>12. CASE Cleanup(w) \/ Reprobe(w)
  <2>1. parked' = parked /\ live' = live /\ ~Claims(w) /\ ~Claims(w)' /\ pc[w] # "dropParked"
    BY <1>12 DEF Cleanup, Reprobe, Claims
  <2> QED BY <2>1, KeepsNames
<1> QED BY <1>4, <1>5, <1>6, <1>7, <1>8, <1>9, <1>10, <1>11, <1>12 DEF Step

LEMMA TidyNext ==
    ASSUME IInv, TypeOK', TidyInv, [Next]_vars
    PROVE  TidyInv'
<1> SUFFICES ASSUME Untroubled'
             PROVE  /\ \A w \in Writers : pc'[w] \in Unstaged => ~Exists(staging'[w])
                    /\ "gap" \notin hazards' => ParkedTidy'
  BY DEF TidyInv
<1>1. TypeOK BY DEF IInv
<1>2. Untroubled /\ \A k \in Trouble : ~Spend(k) BY <1>1, NoTrouble
<1>3. {"crash", "retry", "sweep"} \subseteq Trouble BY DEF Trouble
<1>4. ASSUME NEW w \in Writers, Step(w)
      PROVE  /\ \A o \in Writers : pc'[o] \in Unstaged => ~Exists(staging'[o])
             /\ "gap" \notin hazards' => ParkedTidy'
  <2>1. hazards \subseteq hazards'
    BY <1>4 DEF Step, UpsertProbe, BaseProbe, BaseLoad, LoadProvider, CreateStaging, WriteStaging,
       PreCleanParked,
       SwapProbe, Park, ValidateParked, Rollback, Promote, DropParked, Cleanup, Reprobe
  <2>2. ASSUME "gap" \notin hazards' PROVE ParkedTidy'
    BY <1>2, <1>4, <2>1, <2>2, ParkedStaysTidy DEF TidyInv
  <2>3. \A o \in Writers \ {w} : pc'[o] \in Unstaged => ~Exists(staging'[o])
    BY <1>1, <1>2, <1>4, OthersStay DEF TidyInv
  <2>4. pc'[w] \in Unstaged => ~Exists(staging'[w])
    BY <1>1, <1>2, <1>4, StagingTidy DEF TidyInv
  <2> QED BY <2>2, <2>3, <2>4
<1>5. ASSUME NEW a \in Appends, ExternalAppend(a)
      PROVE  /\ \A w \in Writers : pc'[w] \in Unstaged => ~Exists(staging'[w])
             /\ "gap" \notin hazards' => ParkedTidy'
  <2>1. UNCHANGED <<staging, parked, pc, had, hazards>> /\ Exists(live)
    BY <1>5 DEF ExternalAppend, locals
  <2>2. \A w \in Writers : Claims(w)' <=> Claims(w) BY <2>1 DEF Claims
  <2> QED BY <1>2, <2>1, <2>2 DEF TidyInv, ParkedTidy
<1>6. CASE Age
  <2>1. UNCHANGED <<pc, had, hazards>> BY <1>6 DEF Age, locals
  <2>2. \A t \in Table \cup {NoTable} : Exists(Aged(t)) <=> Exists(t)
    BY AgedType, NoTableAssumption DEF Aged
  <2>3. /\ Exists(live') <=> Exists(live)
        /\ \A w \in Writers : /\ Exists(staging'[w]) <=> Exists(staging[w])
                              /\ Exists(parked'[w]) <=> Exists(parked[w])
    BY <1>1, <1>6, <2>2 DEF Age, TypeOK
  <2>4. \A w \in Writers : Claims(w)' <=> Claims(w) BY <2>1 DEF Claims
  <2> QED BY <1>2, <2>1, <2>3, <2>4 DEF TidyInv, ParkedTidy
<1>7. CASE UNCHANGED vars
  <2>1. UNCHANGED <<live, staging, parked, pc, had, hazards>> BY <1>7 DEF vars
  <2> QED BY <1>2, <2>1 DEF TidyInv, ParkedTidy, Claims
<1> QED BY <1>2, <1>3, <1>4, <1>5, <1>6, <1>7 DEF Next, Crash, Retry, SweepStaging, SweepParked

\* Without faults, whatever writers meet, a call that returned has left no staging
\* table, and a parked one only if a writer filled the gap under it.
THEOREM NothingLeaksTheorem == Spec => []NothingLeaks
<1>1. Init => TidyInv
  BY DEF Init, TidyInv, ParkedTidy, Claims, EntryPc
<1>2. TidyInv => NothingLeaks
  BY DEF TidyInv, ParkedTidy, Claims, NothingLeaks, Unstaged
<1>3. IInv /\ TidyInv /\ [Next]_vars => IInv' /\ TidyInv'
  BY NextInv, TidyNext DEF IInv
<1> QED BY <1>1, <1>2, <1>3, InitInv, PTL DEF Spec
-----------------------------------------------------------------------------
(* The refinement: outside the holes every step is a step of AtomicTable   *)
(* or a stutter.  The abstract rows are those of the head, wherever the    *)
(* table is bound; the abstract status of a call follows from where it is, *)
(* because it has no outcome before it is decided.                         *)

Undecided == PCs \ {"rollback", "cleanup", "reprobe", "done", "crashed"}
Failures == {"conflict", "error", "unpromoted"}

\* What a call is about to return, and what kind of call it is.
CallInv ==
    /\ used["retry"] = 0 => \A w \in Writers :
          /\ pc[w] \in Undecided => outcome[w] = "pending"
          /\ pc[w] \in {"rollback", "cleanup", "reprobe"} => outcome[w] \in Failures
    /\ \A w \in Writers :
          /\ exp[w] = "any" <=> w \in Refreshes
          /\ pc[w] = "probe" => w \in Upserts

\* The abstract state.
Committed == IF Exists(head) THEN head.rows ELSE NoTable
Status == [w \in Writers |-> CallStatus(w)]
Mapped == ~Hole => CurrentRows = Committed

\* The rows a reader or a recovery finds are those that were committed last.
LEMMA CurrentIsCommitted == IInv => Mapped
<1> SUFFICES ASSUME IInv, ~Hole PROVE CurrentRows = Committed
  BY DEF Mapped
<1>1. hazards = {} /\ Undisturbed
  <2>1. used["retry"] \in Nat /\ used["sweep"] \in Nat
    BY DEF IInv, TypeOK, Trouble
  <2> QED BY <2>1 DEF Hole, Undisturbed
<1>2. ClaimInv /\ HeldInv /\ BornInv
  BY <1>1 DEF IInv, ProtocolInv
<1>3. CASE Exists(live)
  BY <1>2, <1>3 DEF ClaimInv, BornInv, IsHead, CurrentRows, Committed
<1>4. CASE ~Exists(live) /\ ~Exists(head)
  BY <1>2, <1>4 DEF BornInv, IsHead, CurrentRows, Committed
<1>5. CASE ~Exists(live) /\ Exists(head)
  <2>1. \E w \in Writers : IsHead(parked[w])
    BY <1>1, <1>2, <1>5 DEF HeldInv, Holds, IsHead
  <2>2. PICK v : v = CHOOSE w \in Writers : IsHead(parked[w])
    OBVIOUS
  <2>3. IsHead(parked[v])
    BY <2>1, <2>2
  <2>4. CurrentRows = parked[v].rows
    BY <1>5, <2>1, <2>2 DEF CurrentRows
  <2> QED BY <1>5, <2>3, <2>4 DEF IsHead, Committed
<1> QED BY <1>3, <1>4, <1>5

\* Nothing closes a hole.
LEMMA HolesStay == TypeOK /\ [Next]_vars /\ Hole => Hole'
<1> SUFFICES ASSUME TypeOK, [Next]_vars, Hole PROVE Hole'
  OBVIOUS
<1>1. hazards \subseteq hazards'
  BY DEF Next, Step, vars, UpsertProbe, BaseProbe, BaseLoad, LoadProvider, CreateStaging,
         WriteStaging, PreCleanParked, SwapProbe, Park, ValidateParked, Rollback, Promote,
         DropParked, Cleanup, Reprobe, Crash, Retry, SweepStaging, SweepParked, ExternalAppend, Age
<1>2. used' = used \/ \E k \in Trouble : used' = [used EXCEPT ![k] = @ + 1]
  <2> "fault" \in Trouble /\ "lost" \in Trouble /\ "crash" \in Trouble /\ "retry" \in Trouble
      /\ "sweep" \in Trouble
    BY DEF Trouble
  <2> QED
    BY DEF Next, Step, vars, UpsertProbe, BaseProbe, BaseLoad, LoadProvider, CreateStaging,
           WriteStaging, PreCleanParked, SwapProbe, Park, ValidateParked, Rollback, Promote,
           DropParked, Cleanup, Reprobe, Crash, Retry, SweepStaging, SweepParked, ExternalAppend, Age,
           Spend, Refused
<1>3. used["retry"] <= used'["retry"] /\ used["sweep"] <= used'["sweep"]
      /\ used["retry"] \in Nat /\ used["sweep"] \in Nat
  BY <1>2 DEF TypeOK, Trouble
<1>4. used'["retry"] \in Nat /\ used'["sweep"] \in Nat
  BY <1>2, <1>3 DEF TypeOK, Trouble
<1> QED BY <1>1, <1>3, <1>4 DEF Hole

\* What one call does does not change the status of another.
LEMMA OthersKeepStatus ==
    ASSUME NEW w \in Writers,
           \A o \in Writers : o # w => pc'[o] = pc[o] /\ outcome'[o] = outcome[o]
    PROVE  Status' = [Status EXCEPT ![w] = CallStatus(w)']
<1>1. \A o \in Writers : o # w => CallStatus(o)' = CallStatus(o)
  BY DEF CallStatus
<1> QED BY <1>1 DEF Status

-----------------------------------------------------------------------------

\* Every request, crash and retry keeps CallInv.
LEMMA CallNext == TypeOK /\ CallInv /\ [Next]_vars => CallInv'
<1> SUFFICES ASSUME TypeOK, CallInv, [Next]_vars PROVE CallInv'
  OBVIOUS
<1>0. /\ pc \in [Writers -> PCs] /\ exp \in [Writers -> {"any", "absent", "snapshot"}]
      /\ outcome \in [Writers -> {"pending", "ok", "conflict", "error", "unpromoted"}]
      /\ used \in [Trouble -> Nat] /\ Trouble = {"fault", "lost", "crash", "retry", "sweep"}
  BY DEF TypeOK, Trouble
<1>1. \A w \in Writers :
        /\ (exp[w] = "any" <=> w \in Refreshes)
        /\ (pc[w] = "probe" => w \in Upserts)
        /\ w \in Upserts => w \notin Refreshes
        /\ w \in Compactions => w \notin Refreshes
  BY KindsAssumption DEF CallInv, Writers
\* Who takes the step, and where it leads.
<1>2. ASSUME NEW w \in Writers, Step(w) \/ Crash(w)
      PROVE  /\ \A o \in Writers \ {w} : pc'[o] = pc[o] /\ outcome'[o] = outcome[o] /\ exp'[o] = exp[o]
             /\ used'["retry"] = used["retry"]
             /\ pc'[w] # "probe"
             /\ exp'[w] = exp[w] \/ (pc[w] = "probe" /\ exp'[w] \in {"absent", "snapshot"})
             /\ \/ pc'[w] \in {"done", "crashed"}
                \/ pc[w] \in Undecided /\ pc'[w] \in Undecided /\ outcome'[w] = outcome[w]
                \/ pc'[w] \in {"rollback", "cleanup"} /\ outcome'[w] \in Failures
                \/ pc[w] = "rollback" /\ pc'[w] = "cleanup" /\ outcome'[w] = outcome[w]
                \/ pc[w] = "cleanup" /\ pc'[w] = "reprobe" /\ outcome'[w] = outcome[w]
  <2> USE <1>0 DEF Goto, Return, Abandon, locals, PCs, Undecided, Failures, Spend
  <2>1. CASE UpsertProbe(w) BY <2>1 DEF UpsertProbe
  <2>2. CASE BaseProbe(w) BY <2>2 DEF BaseProbe
  <2>3. CASE BaseLoad(w) BY <2>3 DEF BaseLoad
  <2>4. CASE LoadProvider(w) BY <2>4 DEF LoadProvider
  <2>5. CASE CreateStaging(w) BY <2>5 DEF CreateStaging
  <2>6. CASE WriteStaging(w) BY <2>6 DEF WriteStaging
  <2>7. CASE PreCleanParked(w) BY <2>7 DEF PreCleanParked
  <2>8. CASE SwapProbe(w) BY <2>8 DEF SwapProbe
  <2>9. CASE Park(w) BY <2>9 DEF Park, Refused, AfterPark
  <2>10. CASE ValidateParked(w) BY <2>10 DEF ValidateParked, Refused
  <2>11. CASE Rollback(w) BY <2>11 DEF Rollback, Refused
  <2>12. CASE Promote(w) BY <2>12 DEF Promote, Refused
  <2>13. CASE DropParked(w) BY <2>13 DEF DropParked
  <2>14. CASE Cleanup(w) BY <2>14 DEF Cleanup
  <2>15. CASE Crash(w) BY <2>15 DEF Crash
  <2>16. CASE Reprobe(w) BY <2>16 DEF Reprobe
  <2> QED
    BY <1>2, <2>1, <2>2, <2>3, <2>4, <2>5, <2>6, <2>7, <2>8, <2>9, <2>10, <2>11, <2>12, <2>13,
       <2>14, <2>15, <2>16 DEF Step
<1>3. ASSUME NEW w \in Writers, Step(w) \/ Crash(w) PROVE CallInv'
  <2>1. ASSUME NEW o \in Writers, used'["retry"] = 0
        PROVE  /\ pc'[o] \in Undecided => outcome'[o] = "pending"
               /\ pc'[o] \in {"rollback", "cleanup", "reprobe"} => outcome'[o] \in Failures
    <3>1. /\ pc[o] \in Undecided => outcome[o] = "pending"
          /\ pc[o] \in {"rollback", "cleanup", "reprobe"} => outcome[o] \in Failures
      BY <1>2, <1>3, <2>1 DEF CallInv
    <3> QED BY <1>2, <1>3, <3>1 DEF Undecided
  <2>2. ASSUME NEW o \in Writers
        PROVE  (exp'[o] = "any" <=> o \in Refreshes) /\ (pc'[o] = "probe" => o \in Upserts)
    BY <1>1, <1>2, <1>3
  <2> QED BY <2>1, <2>2 DEF CallInv
<1>4. ASSUME NEW w \in Writers, Retry(w) PROVE CallInv'
  <2>1. used'["retry"] # 0
    BY <1>0, <1>4 DEF Retry, Spend
  <2>2. /\ exp' = [exp EXCEPT ![w] = EntryExp(w)] /\ pc' = [pc EXCEPT ![w] = EntryPc(w)]
    BY <1>4 DEF Retry, Goto
  <2>3. (EntryExp(w) = "any" <=> w \in Refreshes) /\ (EntryPc(w) = "probe" => w \in Upserts)
    BY <1>1 DEF EntryExp, EntryPc, Writers
  <2> QED BY <1>0, <1>1, <2>1, <2>2, <2>3 DEF CallInv
<1>5. CASE \/ \E w \in Writers : SweepStaging(w) \/ SweepParked(w)
           \/ \E a \in Appends : ExternalAppend(a)
           \/ Age
           \/ UNCHANGED vars
  <2>1. UNCHANGED <<pc, exp, outcome>> /\ used'["retry"] = used["retry"]
    BY <1>0, <1>5 DEF SweepStaging, SweepParked, ExternalAppend, Age, vars, locals, Spend
  <2> QED BY <2>1 DEF CallInv
<1> QED BY <1>3, <1>4, <1>5 DEF Next

\* What a request or a crash does to the committed rows and to the status of its call.
LEMMA StepAnswers ==
    ASSUME TypeOK, CallInv, NEW w \in Writers, Step(w) \/ Crash(w), ~Hole, ~Hole'
    PROVE  \/ head' = head /\ CallStatus(w)' = CallStatus(w)
           \/ head' = head /\ CallStatus(w) = "pending" /\ CallStatus(w)' = "failed"
           \/ head' = head /\ CallStatus(w) = "committed" /\ CallStatus(w)' = "ok"
           \/ head' = head /\ CallStatus(w) \in {"pending", "committed"} /\ CallStatus(w)' = "unknown"
           \/ /\ head' = Intended(w) /\ Exists(staging[w])
              /\ CallStatus(w) = "pending" /\ CallStatus(w)' \in {"committed", "ok"}
<1>0. /\ pc \in [Writers -> PCs]
      /\ outcome \in [Writers -> {"pending", "ok", "conflict", "error", "unpromoted"}]
      /\ used \in [Trouble -> Nat] /\ Trouble = {"fault", "lost", "crash", "retry", "sweep"}
  BY DEF TypeOK, Trouble
<1>1. used["retry"] = 0 /\ hazards' = {}
  BY <1>0 DEF Hole
<1>2. /\ pc[w] \in Undecided => outcome[w] = "pending"
      /\ pc[w] \in {"rollback", "cleanup", "reprobe"} => outcome[w] \in Failures
  BY <1>1 DEF CallInv
<1> USE <1>0, <1>2 DEF Goto, Return, Abandon, locals, PCs, Undecided, Failures, Spend, CallStatus
<1>3. CASE UpsertProbe(w) BY <1>3 DEF UpsertProbe
<1>4. CASE BaseProbe(w) BY <1>4 DEF BaseProbe
<1>5. CASE BaseLoad(w) BY <1>5 DEF BaseLoad
<1>6. CASE LoadProvider(w) BY <1>6 DEF LoadProvider
<1>7. CASE CreateStaging(w) BY <1>7 DEF CreateStaging
<1>8. CASE WriteStaging(w) BY <1>8 DEF WriteStaging
<1>9. CASE PreCleanParked(w) BY <1>9 DEF PreCleanParked
<1>10. CASE SwapProbe(w) BY <1>10 DEF SwapProbe
<1>11. CASE Park(w) BY <1>11 DEF Park, Refused, AfterPark
<1>12. CASE ValidateParked(w) BY <1>12 DEF ValidateParked, Refused
<1>13. CASE Rollback(w) BY <1>13 DEF Rollback, Refused
<1>14. CASE Promote(w)
  <2>1. CASE UNCHANGED head /\ outcome' = [outcome EXCEPT ![w] = "unpromoted"]
    BY <1>14, <2>1 DEF Promote
  <2>2. CASE /\ head' = Intended(w) /\ Exists(staging[w]) /\ pc[w] = "promote"
             /\ IF had[w] THEN Goto(w, "dropParked") /\ UNCHANGED outcome ELSE Return(w, "ok")
    BY <2>2
  <2> QED BY <1>1, <1>14, <2>1, <2>2 DEF Promote, CanRename
<1>15. CASE DropParked(w) BY <1>15 DEF DropParked
<1>16. CASE Cleanup(w) BY <1>16 DEF Cleanup
<1>17. CASE Crash(w) BY <1>17 DEF Crash, Running
<1>18. CASE Reprobe(w) BY <1>18 DEF Reprobe
<1> QED
  BY <1>3, <1>4, <1>5, <1>6, <1>7, <1>8, <1>9, <1>10, <1>11, <1>12, <1>13, <1>14, <1>15, <1>16, <1>17,
     <1>18
  DEF Step

\* The promote commits what the atomic call would.
LEMMA IntendedIsAtomic ==
    ASSUME TypeOK, CallInv, NEW w \in Writers, Exists(staging[w])
    PROVE  Intended(w).rows =
             IF w \in Upserts \cup Compactions
               THEN (IF Committed = NoTable THEN {} ELSE Committed) \cup Incoming(w)
               ELSE Incoming(w)
<1>1. exp[w] = "any" <=> w \notin Upserts \cup Compactions
  BY KindsAssumption DEF CallInv, Writers
<1>2. CASE exp[w] = "any" \/ ~Exists(head)
  BY <1>1, <1>2 DEF Intended, Committed
<1>3. CASE exp[w] # "any" /\ Exists(head)
  <2>1. head.rows # NoTable
    BY <1>3, NoTableAssumption DEF TypeOK, Table
  <2> QED BY <1>1, <1>3, <2>1 DEF Intended, Committed
<1> QED BY <1>2, <1>3

\* Every step of the protocol outside the holes is one of the atomic table.
LEMMA StepRefines ==
    ASSUME IInv, TypeOK', CallInv, Mapped, Mapped', [Next]_vars
    PROVE  [Atomic!Next]_(Atomic!vars)
<1>0. TypeOK /\ TypeOK'
  BY DEF IInv
<1>1. CASE Hole'
  BY <1>1 DEF Atomic!Next
<1>2. CASE ~Hole'
  <2>1. ~Hole
    BY <1>0, <1>2, HolesStay
  <2>2. CurrentRows = Committed /\ CurrentRows' = Committed'
    BY <1>2, <2>1 DEF Mapped
  <2>3. Hole' = Hole
    BY <1>2, <2>1 DEF Hole
  <2>4. Atomic!AllCalls = Writers
    BY DEF Atomic!AllCalls, Writers
  <2>5. ASSUME head' = head, Status' = Status PROVE UNCHANGED Atomic!vars
    BY <2>2, <2>3, <2>5 DEF Atomic!vars, Committed, Status
  <2>6. ASSUME NEW w \in Writers, Step(w) \/ Crash(w) PROVE [Atomic!Next]_(Atomic!vars)
    <3>1. Status' = [Status EXCEPT ![w] = CallStatus(w)']
      <4>1. \A o \in Writers : o # w => pc'[o] = pc[o] /\ outcome'[o] = outcome[o]
        BY <1>0, <2>6 DEF TypeOK, Step, UpsertProbe, BaseProbe, BaseLoad, LoadProvider, CreateStaging,
           WriteStaging, PreCleanParked, SwapProbe, Park, ValidateParked, Rollback, Promote,
           DropParked, Cleanup, Reprobe, Crash, Goto, Return, Abandon
      <4> QED BY <4>1, OthersKeepStatus
    <3>2. Status[w] = CallStatus(w)
      BY DEF Status
    <3>3. CASE head' = head /\ CallStatus(w)' = CallStatus(w)
      <4>1. Status' = Status
        BY <3>1, <3>2, <3>3 DEF Status
      <4> QED BY <2>5, <3>3, <4>1
    <3>4. CASE head' = head /\ CallStatus(w) = "pending" /\ CallStatus(w)' = "failed"
      <4>1. Atomic!Fail(w)
        BY <2>2, <3>1, <3>2, <3>4 DEF Atomic!Fail, Status, Committed
      <4> QED BY <2>1, <2>3, <2>4, <4>1 DEF Atomic!Next
    <3>5. CASE head' = head /\ CallStatus(w) = "committed" /\ CallStatus(w)' = "ok"
      <4>1. Atomic!Succeed(w)
        BY <2>2, <3>1, <3>2, <3>5 DEF Atomic!Succeed, Status, Committed
      <4> QED BY <2>1, <2>3, <2>4, <4>1 DEF Atomic!Next
    <3>6. CASE head' = head /\ CallStatus(w) \in {"pending", "committed"} /\ CallStatus(w)' = "unknown"
      <4>1. Atomic!Vanish(w)
        BY <2>2, <3>1, <3>2, <3>6 DEF Atomic!Vanish, Status, Committed
      <4> QED BY <2>1, <2>3, <2>4, <4>1 DEF Atomic!Next
    <3>7. CASE /\ head' = Intended(w) /\ Exists(staging[w])
               /\ CallStatus(w) = "pending" /\ CallStatus(w)' \in {"committed", "ok"}
      <4>1. Committed' = Intended(w).rows
        BY <1>0, <3>7, IntendedType DEF Committed
      <4>2. CurrentRows' = Atomic!After(w)
        BY <1>0, <2>2, <3>7, <4>1, IntendedIsAtomic DEF Atomic!After, Atomic!Present
      <4>3. Atomic!Commit(w)
        BY <3>1, <3>2, <3>7, <4>2 DEF Atomic!Commit, Status
      <4> QED BY <2>1, <2>3, <2>4, <4>3 DEF Atomic!Next
    <3> QED BY <1>0, <1>2, <2>1, <2>6, <3>3, <3>4, <3>5, <3>6, <3>7, StepAnswers
  <2>7. ASSUME NEW a \in Appends, ExternalAppend(a) PROVE [Atomic!Next]_(Atomic!vars)
    <3>1. /\ Exists(live) /\ pc' = pc /\ outcome' = outcome
          /\ head' = [ver |-> nextVer, rows |-> head.rows \cup {a}, old |-> FALSE]
      BY <2>7 DEF ExternalAppend
    <3>2. Exists(head) /\ head \in Table /\ head.rows \subseteq Rows
      BY <1>0, <3>1 DEF IInv, BornInv, TypeOK, Table
    <3>3. Committed = head.rows /\ Committed' = head.rows \cup {a}
      <4>1. head' # NoTable
        BY <1>0, <3>1, <3>2, NewTableType DEF TypeOK, Rows
      <4> QED BY <3>1, <3>2, <4>1 DEF Committed
    <3>4. Status' = Status
      BY <3>1 DEF Status, CallStatus
    <3>5. Atomic!Append(a)
      BY <2>2, <3>2, <3>3, <3>4, NoTableAssumption DEF Atomic!Append, Status
    <3> QED BY <2>1, <2>3, <3>5 DEF Atomic!Next
  <2>8. CASE UNCHANGED <<head, pc, outcome>>
    <3>1. Status' = Status
      BY <2>8 DEF Status, CallStatus
    <3> QED BY <2>5, <2>8, <3>1
  <2>9. ASSUME NEW w \in Writers PROVE ~Retry(w) /\ ~SweepStaging(w) /\ ~SweepParked(w)
    <3>1. ASSUME Retry(w) \/ SweepStaging(w) \/ SweepParked(w) PROVE FALSE
      BY <1>0, <1>2, <3>1 DEF TypeOK, Trouble, Retry, SweepStaging, SweepParked, Spend, Hole
    <3> QED BY <3>1
  <2> QED BY <2>6, <2>7, <2>8, <2>9 DEF Next, Age, vars
<1> QED BY <1>1, <1>2

\* For every set of upserts, compactions, refreshes and external commits and
\* every limit on trouble: the blue-green overwrite, many requests with no
\* lock, implements an overwrite in one step.  Each call takes effect at its
\* promote rename, on top of everything committed before, or not at all, and
\* returns which; until one of the holes is hit, a token is used twice or a
\* sweep drops a table.
THEOREM OverwriteImplementsAtomic == Spec => ImplementsAtomic
<1>1. Init => CallInv
  BY KindsAssumption DEF Init, CallInv, EntryPc, EntryExp, Undecided, Writers
<1>2. Init => Atomic!Init
  <2> SUFFICES ASSUME Init PROVE Atomic!Init
    OBVIOUS
  <2>1. PICK made \in Calls : pc = [w \in Writers |-> IF w \in made THEN EntryPc(w) ELSE "done"]
    BY DEF Init
  <2>2. outcome = [w \in Writers |-> "pending"]
    BY DEF Init
  <2>3. \A w \in Writers : CallStatus(w) \in {"pending", "unused"}
    BY <2>1, <2>2 DEF CallStatus, EntryPc
  <2>4. Hole = FALSE
    BY DEF Init, Hole, Trouble
  <2>5. CurrentRows \in {NoTable, {}, {Seed}}
    <3>1. \A w \in Writers : ~IsHead(parked[w])
      BY DEF Init, IsHead
    <3> QED BY <3>1 DEF Init, CurrentRows, EmptyTable
  <2>6. Atomic!AllCalls = Writers
    BY DEF Atomic!AllCalls, Writers
  <2> QED BY <2>3, <2>4, <2>5, <2>6 DEF Atomic!Init
<1>3. IInv /\ CallInv /\ [Next]_vars => IInv' /\ CallInv'
  BY NextInv, CallNext DEF IInv
<1>4. IInv /\ IInv' /\ CallInv /\ Mapped /\ Mapped' /\ [Next]_vars => [Atomic!Next]_(Atomic!vars)
  BY StepRefines DEF IInv
<1> QED
  BY <1>1, <1>2, <1>3, <1>4, InitInv, CurrentIsCommitted, PTL DEF Spec, ImplementsAtomic, Atomic!Spec
=============================================================================
