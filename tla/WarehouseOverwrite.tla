------------------------- MODULE WarehouseOverwrite -------------------------
(***************************************************************************)
(* The blue-green overwrite of one warehouse table                         *)
(* (crates/dataglot-federation/src/materialize.rs) and its callers: the EL *)
(* upsert (ingest.rs), compaction and the orphan sweep (maintenance.rs,    *)
(* iceberg.rs) and the data-product refresh (materialization.rs).          *)
(*                                                                         *)
(* A writer is one call of one of the callers, with the token that names   *)
(* its staging and parked tables.  Every action is one catalog request of  *)
(* a writer: between two requests any other writer, an external engine or  *)
(* the sweep may move.  Rows are abstracted to the set of writes whose     *)
(* effect a table holds.                                                   *)
(***************************************************************************)
EXTENDS Integers, FiniteSets

CONSTANTS
    Upserts,        \* calls of upsert_into_table
    Compactions,    \* calls of compact_table
    Refreshes,      \* calls of refresh_product
    Calls,          \* the sets of calls that meet; the other calls are not made
    EmptyBatches,   \* upserts and refreshes whose input has no row
    Appends,        \* commits of external engines on the same table
    Seed,           \* the row of the table before the first modelled call
    NoTable,        \* a name that is bound to no table
    Limit,          \* how often each kind of trouble may happen
    MaxKinds        \* how many kinds of trouble may happen together

Writers == Upserts \cup Compactions \cup Refreshes
Rows == Writers \cup Appends \cup {Seed}

\* An iceberg table that was created but never committed to has no snapshot.
NoVersion == 0
Versions == Nat
Table == [ver : Versions, rows : SUBSET Rows, old : BOOLEAN]
EmptyTable == [ver |-> NoVersion, rows |-> {}, old |-> FALSE]

Trouble == {"fault", "lost", "crash", "retry", "sweep"}

ASSUME KindsAssumption ==
    /\ Upserts \cap Compactions = {}
    /\ Upserts \cap Refreshes = {}
    /\ Compactions \cap Refreshes = {}
    /\ Appends \cap Writers = {}
    /\ Seed \notin Writers \cup Appends
    /\ EmptyBatches \subseteq Upserts \cup Refreshes
    /\ Calls \subseteq SUBSET Writers
ASSUME NoTableAssumption == NoTable \notin Table /\ \A R \in SUBSET Rows : R # NoTable
ASSUME LimitAssumption == Limit \in [Trouble -> Nat] /\ MaxKinds \in Nat

VARIABLES
    live,       \* the table bound to the target name
    staging,    \* staging[w]: the table bound to w's staging name
    parked,     \* parked[w]: the table bound to w's parked name
    pc,         \* the next catalog request of each writer
    exp,        \* the variant of ExpectedVersion
    base,       \* the payload of ExpectedVersion::Snapshot
    read,       \* the table behind the provider the writer merges from
    had,        \* the local target_exists of blue_green_promote
    outcome,    \* what the call returned
    nextVer,    \* iceberg snapshot ids are fresh; allocated in order here
    appended,   \* the external commits that happened
    used,       \* how often each kind of trouble happened
    head,       \* history: the last committed version and the rows it must hold
    hazards     \* history: the holes of the protocol that were hit so far

vars == <<live, staging, parked, pc, exp, base, read, had, outcome, nextVer,
          appended, used, head, hazards>>

\* What a writer keeps in its own stack frame.
locals == <<exp, base, read, had>>

-----------------------------------------------------------------------------
Exists(t) == t # NoTable

PCs == {"probe", "baseProbe", "baseLoad", "provider", "create", "write",
        "preClean", "swapProbe", "park", "validate", "rollback", "promote",
        "dropParked", "cleanup", "reprobe", "done", "crashed"}
Running(w) == pc[w] \notin {"done", "crashed"}

\* The first request of each caller and the guard it starts with.
EntryPc(w) == IF w \in Upserts THEN "probe"
              ELSE IF w \in Compactions THEN "baseProbe" ELSE "create"
EntryExp(w) == IF w \in Upserts THEN "absent"
               ELSE IF w \in Compactions THEN "snapshot" ELSE "any"

\* The rows a call brings: a compaction brings none, an upsert or refresh its batch.
Incoming(w) == IF w \in Compactions \cup EmptyBatches THEN {} ELSE {w}

\* The rows a call streams into staging: merge_sql keeps the current rows.
Result(w) == IF exp[w] = "snapshot" THEN read[w].rows \cup Incoming(w)
             ELSE Incoming(w)

Goto(w, l) == pc' = [pc EXCEPT ![w] = l]
Return(w, o) == /\ Goto(w, "done")
                /\ outcome' = [outcome EXCEPT ![w] = o]
\* Mutant: the error is returned before the staging table is dropped.
Abandon_KeepsStaging(w, o) == Return(w, o)
\* Give up: the staging table still has to be dropped.
Abandon(w, o) == /\ Goto(w, "cleanup")
                 /\ outcome' = [outcome EXCEPT ![w] = o]

Together(k) == Cardinality({i \in Trouble : used[i] > 0} \cup {k}) <= MaxKinds
Spend(k) == /\ used[k] < Limit[k] /\ Together(k)
            /\ used' = [used EXCEPT ![k] = @ + 1]

-----------------------------------------------------------------------------
(* The read phase: what the callers do before they overwrite.               *)

\* upsert_into_table decides first load by existence.
UpsertProbe(w) ==
    /\ pc[w] = "probe"
    /\ \/ /\ Exists(live)
          /\ exp' = [exp EXCEPT ![w] = "snapshot"]
          /\ Goto(w, "baseProbe")
          /\ UNCHANGED <<outcome, used>>
       \/ /\ ~Exists(live)
          /\ exp' = [exp EXCEPT ![w] = "absent"]
          /\ Goto(w, "create")
          /\ UNCHANGED <<outcome, used>>
       \/ /\ Spend("fault")
          /\ Return(w, "error")
          /\ UNCHANGED exp
    /\ UNCHANGED <<live, staging, parked, base, read, had, nextVer, appended,
                   head, hazards>>

\* current_snapshot_id, first request: a missing table has no version.
BaseProbe(w) ==
    /\ pc[w] = "baseProbe"
    /\ \/ /\ Exists(live)
          /\ Goto(w, "baseLoad")
          /\ UNCHANGED <<outcome, used, base>>
       \/ /\ ~Exists(live)
          /\ base' = [base EXCEPT ![w] = NoVersion]
          /\ Goto(w, "provider")
          /\ UNCHANGED <<outcome, used>>
       \/ /\ Spend("fault")
          /\ Return(w, "error")
          /\ UNCHANGED base
    /\ UNCHANGED <<live, staging, parked, exp, read, had, nextVer, appended,
                   head, hazards>>

\* current_snapshot_id, second request.
BaseLoad(w) ==
    /\ pc[w] = "baseLoad"
    /\ \/ /\ Exists(live)
          /\ base' = [base EXCEPT ![w] = live.ver]
          /\ Goto(w, "provider")
          /\ UNCHANGED <<outcome, used>>
       \/ /\ ~Exists(live)
          /\ Return(w, "error")
          /\ UNCHANGED <<base, used>>
       \/ /\ Spend("fault")
          /\ Return(w, "error")
          /\ UNCHANGED base
    /\ UNCHANGED <<live, staging, parked, exp, read, had, nextVer, appended,
                   head, hazards>>

\* table_provider pins the snapshot the merge or the compaction reads.
LoadProvider(w) ==
    /\ pc[w] = "provider"
    /\ \/ /\ Exists(live)
          /\ read' = [read EXCEPT ![w] = live]
          /\ Goto(w, "create")
          /\ UNCHANGED <<outcome, used>>
       \/ /\ ~Exists(live)
          /\ Return(w, "error")
          /\ UNCHANGED <<read, used>>
       \/ /\ Spend("fault")
          /\ Return(w, "error")
          /\ UNCHANGED read
    /\ UNCHANGED <<live, staging, parked, exp, base, had, nextVer, appended,
                   head, hazards>>

-----------------------------------------------------------------------------
(* overwrite_table_stream_checked: staging.                                 *)

\* Clear a leftover of the same token and create the staging table: a probe, a
\* drop and a create of a name that no other writer uses.  A failed create
\* leaves the leftover, nothing, or the table whose reply was lost, and the
\* error is returned without a cleanup.
CreateStaging(w) ==
    /\ pc[w] = "create"
    /\ \/ /\ staging' = [staging EXCEPT ![w] = EmptyTable]
          /\ Goto(w, "write")
          /\ UNCHANGED <<outcome, used>>
       \/ /\ Spend("fault")
          /\ \E t \in {NoTable, staging[w], EmptyTable} : staging' = [staging EXCEPT ![w] = t]
          /\ Return(w, "error")
    /\ UNCHANGED <<live, parked, nextVer, appended, head, hazards>>
    /\ UNCHANGED locals

\* Stream the result and commit it; no row means no commit and no snapshot.
WriteStaging(w) ==
    /\ pc[w] = "write"
    /\ \/ /\ Result(w) = {}
          /\ Goto(w, "preClean")
          /\ UNCHANGED <<staging, nextVer, outcome, used>>
       \/ /\ Result(w) # {}
          /\ staging' = [staging EXCEPT ![w] =
                            [ver |-> nextVer, rows |-> Result(w), old |-> FALSE]]
          /\ nextVer' = nextVer + 1
          /\ Goto(w, "preClean")
          /\ UNCHANGED <<outcome, used>>
       \/ /\ Spend("fault")
          /\ Abandon(w, "error")
          /\ UNCHANGED <<staging, nextVer>>
    /\ UNCHANGED <<live, parked, appended, head, hazards>>
    /\ UNCHANGED locals

-----------------------------------------------------------------------------
(* blue_green_promote.                                                      *)

\* Drop a parked table of the same token; a failed probe or drop is ignored.
PreCleanParked(w) ==
    /\ pc[w] = "preClean"
    /\ \/ /\ parked' = [parked EXCEPT ![w] = NoTable]
          /\ UNCHANGED used
       \/ /\ Spend("fault")
          /\ UNCHANGED parked
    /\ Goto(w, "swapProbe")
    /\ UNCHANGED <<live, staging, outcome, nextVer, appended, head, hazards>>
    /\ UNCHANGED locals

\* Probe the target and make the checks that need no claim.
SwapProbe(w) ==
    /\ pc[w] = "swapProbe"
    /\ \/ /\ exp[w] = "absent" /\ Exists(live)
          /\ Abandon(w, "conflict")
          /\ UNCHANGED <<used, had>>
       \/ /\ exp[w] = "snapshot" /\ ~Exists(live)
          /\ Abandon(w, "conflict")
          /\ UNCHANGED <<used, had>>
       \/ /\ exp[w] # "absent" /\ Exists(live)
          /\ had' = [had EXCEPT ![w] = TRUE]
          /\ Goto(w, "park")
          /\ UNCHANGED <<outcome, used>>
       \/ /\ exp[w] # "snapshot" /\ ~Exists(live)
          /\ had' = [had EXCEPT ![w] = FALSE]
          /\ Goto(w, "promote")
          /\ UNCHANGED <<outcome, used>>
       \/ /\ Spend("fault")
          /\ Abandon(w, "error")
          /\ UNCHANGED had
    /\ UNCHANGED <<live, staging, parked, exp, base, read, nextVer, appended,
                   head, hazards>>

\* rename_table: the source must exist and the destination must not.
CanRename(from, to) == Exists(from) /\ ~Exists(to)

\* A request that fails without effect: the catalog refuses it, or a fault.
Refused(possible) == \/ ~possible /\ UNCHANGED used
                     \/ Spend("fault")

\* Mutant: no validation of the claimed table.
AfterPark_NoValidation(w) == "promote"
\* Only ExpectedVersion::Snapshot has something to validate.
AfterPark(w) == IF exp[w] = "snapshot" THEN "validate" ELSE "promote"

\* The park rename claims the live table.
Park(w) ==
    /\ pc[w] = "park"
    /\ \/ /\ CanRename(live, parked[w])
          /\ live' = NoTable
          /\ parked' = [parked EXCEPT ![w] = live]
          /\ \/ Goto(w, AfterPark(w)) /\ UNCHANGED <<outcome, used>>
             \/ Spend("lost") /\ Abandon(w, "error")
       \/ /\ Refused(CanRename(live, parked[w]))
          /\ Abandon(w, "error")
          /\ UNCHANGED <<live, parked>>
    /\ UNCHANGED <<staging, nextVer, appended, head, hazards>>
    /\ UNCHANGED locals

\* Mutant: the contents are compared instead of the snapshot ids.
VersionMatches_SameRows(w) == parked[w].rows = read[w].rows
VersionMatches(w) == parked[w].ver = base[w]

\* validate_parked_version: the claimed table must be at the caller's base.
ValidateParked(w) ==
    /\ pc[w] = "validate"
    /\ \/ /\ Exists(parked[w])
          /\ VersionMatches(w)
          /\ Goto(w, "promote")
          /\ UNCHANGED <<outcome, used>>
       \/ /\ Exists(parked[w])
          /\ ~VersionMatches(w)
          /\ Goto(w, "rollback")
          /\ outcome' = [outcome EXCEPT ![w] = "conflict"]
          /\ UNCHANGED used
       \/ /\ Refused(Exists(parked[w]))
          /\ Goto(w, "rollback")
          /\ outcome' = [outcome EXCEPT ![w] = "error"]
    /\ UNCHANGED <<live, staging, parked, nextVer, appended, head, hazards>>
    /\ UNCHANGED locals

\* Rename the parked table back; a failure is only logged.
Rollback(w) ==
    /\ pc[w] = "rollback"
    /\ \/ /\ CanRename(parked[w], live)
          /\ live' = parked[w]
          /\ parked' = [parked EXCEPT ![w] = NoTable]
          /\ UNCHANGED used \/ Spend("lost")
       \/ /\ Refused(CanRename(parked[w], live))
          /\ UNCHANGED <<live, parked>>
    /\ Goto(w, "cleanup")
    /\ UNCHANGED <<staging, outcome, nextVer, appended, head, hazards>>
    /\ UNCHANGED locals

\* History: the rows the table must hold once w's staging table is promoted.
Intended(w) ==
    [ver  |-> staging[w].ver,
     rows |-> IF exp[w] = "any" \/ ~Exists(head) THEN Incoming(w)
              ELSE head.rows \cup Incoming(w),
     old  |-> FALSE]

\* History: the ways in which a promote can step outside the protocol.
\*   gap:   the writer saw no table, yet one exists under a parked name;
\*   empty: a full overwrite leaves a table without a version again;
\*   lost:  the promote happened and its writer does not know.
PromoteHazards(w) ==
    (IF ~had[w] /\ Exists(head) THEN {"gap"} ELSE {})
        \cup (IF exp[w] = "any" /\ Incoming(w) = {} THEN {"empty"} ELSE {})

\* Mutant: a failed promote goes on to drop the parked table.
AfterPromoteFailure_Drops(w) == IF had[w] THEN "dropParked" ELSE "cleanup"
AfterPromoteFailure(w) == IF had[w] THEN "rollback" ELSE "cleanup"

\* The promote rename is the commit point.
Promote(w) ==
    /\ pc[w] = "promote"
    /\ \/ /\ CanRename(staging[w], live)
          /\ live' = staging[w]
          /\ staging' = [staging EXCEPT ![w] = NoTable]
          /\ head' = Intended(w)
          /\ \/ /\ IF had[w] THEN Goto(w, "dropParked") /\ UNCHANGED outcome
                   ELSE Return(w, "ok")
                /\ hazards' = hazards \cup PromoteHazards(w)
                /\ UNCHANGED used
             \/ /\ Spend("lost")
                /\ Goto(w, AfterPromoteFailure(w))
                /\ outcome' = [outcome EXCEPT ![w] = "unpromoted"]
                /\ hazards' = hazards \cup PromoteHazards(w) \cup {"lost"}
       \/ /\ Refused(CanRename(staging[w], live))
          /\ Goto(w, AfterPromoteFailure(w))
          /\ outcome' = [outcome EXCEPT ![w] = "unpromoted"]
          /\ UNCHANGED <<live, staging, head, hazards>>
    /\ UNCHANGED <<parked, nextVer, appended>>
    /\ UNCHANGED locals

\* Mutant: a failed drop fails the call, which has taken effect.
DropParked_Strict(w) ==
    /\ pc[w] = "dropParked"
    /\ \/ parked' = [parked EXCEPT ![w] = NoTable] /\ Return(w, "ok") /\ UNCHANGED used
       \/ Spend("fault") /\ Return(w, "error") /\ UNCHANGED parked
    /\ UNCHANGED <<live, staging, nextVer, appended, head, hazards>>
    /\ UNCHANGED locals
\* Drop the replaced table, best effort.
DropParked(w) ==
    /\ pc[w] = "dropParked"
    /\ \/ parked' = [parked EXCEPT ![w] = NoTable] /\ UNCHANGED used
       \/ Spend("fault") /\ UNCHANGED parked
    /\ Return(w, "ok")
    /\ UNCHANGED <<live, staging, nextVer, appended, head, hazards>>
    /\ UNCHANGED locals

\* best_effort_drop of staging on every failing path, then the error is
\* returned; a first load that was not promoted probes the target again.
Cleanup(w) ==
    /\ pc[w] = "cleanup"
    /\ \/ staging' = [staging EXCEPT ![w] = NoTable] /\ UNCHANGED used
       \/ Spend("fault") /\ UNCHANGED staging
    /\ \/ outcome[w] # "unpromoted" /\ Return(w, outcome[w])
       \/ outcome[w] = "unpromoted" /\ exp[w] # "absent" /\ Return(w, "error")
       \/ /\ outcome[w] = "unpromoted" /\ exp[w] = "absent"
          /\ Goto(w, "reprobe") /\ UNCHANGED outcome
    /\ UNCHANGED <<live, parked, nextVer, appended, head, hazards>>
    /\ UNCHANGED locals

\* A failed first load whose target exists by now is a conflict; a probe that
\* fails counts as a missing table.
Reprobe(w) ==
    /\ pc[w] = "reprobe"
    /\ \/ Return(w, IF Exists(live) THEN "conflict" ELSE "error") /\ UNCHANGED used
       \/ Return(w, "error") /\ Spend("fault")
    /\ UNCHANGED <<live, staging, parked, nextVer, appended, head, hazards>>
    /\ UNCHANGED locals

-----------------------------------------------------------------------------
(* The environment.                                                         *)

\* The process dies, or the future is dropped, between two requests.
Crash(w) ==
    /\ Running(w)
    /\ Spend("crash")
    /\ Goto(w, "crashed")
    /\ UNCHANGED <<live, staging, parked, outcome, nextVer, appended, head, hazards>>
    /\ UNCHANGED locals

\* The caller tries again after a crash, with the same token.
Retry(w) ==
    /\ pc[w] = "crashed"
    /\ Spend("retry")
    /\ Goto(w, EntryPc(w))
    /\ exp' = [exp EXCEPT ![w] = EntryExp(w)]
    /\ base' = [base EXCEPT ![w] = NoVersion]
    /\ read' = [read EXCEPT ![w] = NoTable]
    /\ had' = [had EXCEPT ![w] = FALSE]
    /\ UNCHANGED <<live, staging, parked, outcome, nextVer, appended, head, hazards>>

\* Another engine appends to the table it finds under the target name.
ExternalAppend(a) ==
    /\ a \notin appended
    /\ Exists(live)
    /\ live' = [ver |-> nextVer, rows |-> live.rows \cup {a}, old |-> FALSE]
    /\ head' = [ver |-> nextVer, rows |-> head.rows \cup {a}, old |-> FALSE]
    /\ nextVer' = nextVer + 1
    /\ appended' = appended \cup {a}
    /\ UNCHANGED <<staging, parked, pc, outcome, used, hazards>>
    /\ UNCHANGED locals

\* min_age passes.  No write lasts that long: the operator's part of the
\* contract of sweep_orphan_maintenance_tables.
Aged(t) == IF Exists(t) THEN [t EXCEPT !.old = TRUE] ELSE t
Age ==
    /\ used["sweep"] < Limit["sweep"]
    /\ \A w \in Writers : ~Running(w) \/ pc[w] = EntryPc(w)
    /\ live' = Aged(live)
    /\ staging' = [w \in Writers |-> Aged(staging[w])]
    /\ parked' = [w \in Writers |-> Aged(parked[w])]
    /\ UNCHANGED <<pc, outcome, nextVer, appended, used, head, hazards>>
    /\ UNCHANGED locals

\* The sweep drops a maintenance table whose metadata is older than min_age.
SweepStaging(w) ==
    /\ Exists(staging[w]) /\ staging[w].old
    /\ Spend("sweep")
    /\ staging' = [staging EXCEPT ![w] = NoTable]
    /\ UNCHANGED <<live, parked, pc, outcome, nextVer, appended, head, hazards>>
    /\ UNCHANGED locals

SweepParked(w) ==
    /\ Exists(parked[w]) /\ parked[w].old
    /\ Spend("sweep")
    /\ parked' = [parked EXCEPT ![w] = NoTable]
    /\ UNCHANGED <<live, staging, pc, outcome, nextVer, appended, head, hazards>>
    /\ UNCHANGED locals

-----------------------------------------------------------------------------
Init ==
    /\ live \in {NoTable, EmptyTable, [ver |-> 1, rows |-> {Seed}, old |-> FALSE]}
    /\ staging = [w \in Writers |-> NoTable]
    /\ parked = [w \in Writers |-> NoTable]
    /\ \E made \in Calls : pc = [w \in Writers |-> IF w \in made THEN EntryPc(w) ELSE "done"]
    /\ exp = [w \in Writers |-> EntryExp(w)]
    /\ base = [w \in Writers |-> NoVersion]
    /\ read = [w \in Writers |-> NoTable]
    /\ had = [w \in Writers |-> FALSE]
    /\ outcome = [w \in Writers |-> "pending"]
    /\ nextVer = 2
    /\ appended = {}
    /\ used = [k \in Trouble |-> 0]
    /\ head = live
    /\ hazards = {}

\* The requests a writer makes.
Step(w) ==
    \/ UpsertProbe(w) \/ BaseProbe(w) \/ BaseLoad(w) \/ LoadProvider(w)
    \/ CreateStaging(w) \/ WriteStaging(w)
    \/ PreCleanParked(w) \/ SwapProbe(w) \/ Park(w) \/ ValidateParked(w)
    \/ Rollback(w) \/ Promote(w) \/ DropParked(w) \/ Cleanup(w) \/ Reprobe(w)

Next ==
    \/ \E w \in Writers : Step(w) \/ Crash(w) \/ Retry(w)
                            \/ SweepStaging(w) \/ SweepParked(w)
    \/ \E a \in Appends : ExternalAppend(a)
    \/ Age

Spec == Init /\ [][Next]_vars

-----------------------------------------------------------------------------
TypeOK ==
    /\ live \in Table \cup {NoTable}
    /\ staging \in [Writers -> Table \cup {NoTable}]
    /\ parked \in [Writers -> Table \cup {NoTable}]
    /\ pc \in [Writers -> PCs]
    /\ exp \in [Writers -> {"any", "absent", "snapshot"}]
    /\ base \in [Writers -> Versions]
    /\ read \in [Writers -> Table \cup {NoTable}]
    /\ had \in [Writers -> BOOLEAN]
    /\ outcome \in [Writers -> {"pending", "ok", "conflict", "error", "unpromoted"}]
    /\ nextVer \in Nat \ {0, 1}
    /\ appended \subseteq Appends
    /\ used \in [Trouble -> Nat]
    /\ head \in Table \cup {NoTable}
    /\ hazards \subseteq {"gap", "empty", "lost"}

\* t is the committed version and holds what it must hold.
IsHead(t) == Exists(t) /\ t.ver = head.ver /\ t.rows = head.rows

\* What the target name shows is the last committed version, with every row of
\* the writes that committed before it: no overwrite ever clobbers or reverts
\* a commit (overwrite_table_checked: "detected rather than silently clobbered").
NoLostUpdate == Exists(live) => IsHead(live)

\* The protocol loses no update unless one of its three holes was hit: a promote
\* by a writer that saw no table while one was parked, a full overwrite with an
\* empty result (the version guard cannot tell two empty tables apart), or a
\* promote whose reply was lost.  Crashes, failed requests, retries and sweeps
\* do not matter.
SafeOverwrite == hazards = {} => NoLostUpdate

\* While the target name is unbound the committed table is under some parked
\* name, whatever request failed and wherever a writer crashed (no sweep ran
\* and no token was used twice).
Recoverable ==
    hazards = {} /\ used["sweep"] = 0 /\ used["retry"] = 0 /\ Exists(head)
        => IsHead(live) \/ \E w \in Writers : IsHead(parked[w])

\* A writer under ExpectedVersion::Snapshot commits only over the version it
\* captured as its base, and that version holds exactly the rows it merged.
CommitsOverBase ==
    [][\A w \in Writers :
          pc[w] = "promote" /\ pc'[w] = "dropParked" /\ exp[w] = "snapshot"
          /\ hazards = {}
              => head.ver = base[w] /\ head.rows = read[w].rows]_vars

Untroubled == \A k \in Trouble : used[k] = 0

\* "On any failure staging is dropped so nothing leaks": without faults a call
\* that returned left no staging table, and no parked one unless a writer
\* filled the gap under it.
NothingLeaks ==
    Untroubled => \A w \in Writers : pc[w] = "done" =>
        /\ ~Exists(staging[w])
        /\ Exists(parked[w]) => "gap" \in hazards

\* As NoLostUpdate, for behaviours in which no writer filled the gap under a
\* parked table (compact_table: a writer that commits after the base version was
\* captured makes the swap fail, its data is never reverted).
NoRevert == "gap" \notin hazards => NoLostUpdate

\* "Readers see the prior table until the final promote": the target name is
\* bound from the first commit on.
ReadersAlwaysSeeTable == Exists(head) => Exists(live)

\* The sweep drops leftovers only, "never a user table": without any crash or
\* fault the committed table survives under the target name or a parked one.
SweepSparesUserTable ==
    hazards = {} /\ Exists(head)
        => IsHead(live) \/ \E w \in Writers : IsHead(parked[w])
=============================================================================
