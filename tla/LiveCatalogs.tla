---------------------------- MODULE LiveCatalogs ----------------------------
(***************************************************************************)
(* Runtime catalog DDL and the live registry that new sessions read:       *)
(*   - StoreCatalogAdmin (server/catalog_admin.rs): CREATE, ALTER, DROP;   *)
(*   - the meta store (catalog/redb_store.rs; embedded.rs and service.rs   *)
(*     keep the same contract) and its bounded change feed;                *)
(*   - build_catalogs_and_cache, spawn_registry_refresh and                *)
(*     build_effective_snapshot (server/server.rs): boot and refresh.      *)
(*                                                                         *)
(* A source config is a value; its binding is the summary stored next to   *)
(* it, so a whole entry has both from the same statement.  A provider is   *)
(* the config it was built from.                                           *)
(***************************************************************************)
EXTENDS Naturals, Sequences, Functions

CONSTANTS
    Clients,        \* sessions that run catalog DDL
    Orgs, BootOrg,
    Names, Configs, None,
    FileCatalogs,   \* [Names -> Configs or None]: the catalogs of the config file
    AtomicUpdate,   \* the store reads and writes an entry in one transaction
    Capacity,       \* CHANGE_CHANNEL_CAPACITY
    MaxStatements, MaxPeerWrites, MaxFaults, MaxRestarts

Optional == Configs \cup {None}
ASSUME ConstantsAssumption ==
    /\ BootOrg \in Orgs /\ None \notin Configs
    /\ FileCatalogs \in [Names -> Optional]
    /\ AtomicUpdate \in BOOLEAN /\ Capacity \in Nat \ {0}
    /\ MaxStatements \in Nat /\ MaxPeerWrites \in Nat
    /\ MaxFaults \in Nat /\ MaxRestarts \in Nat

VARIABLES
    store,      \* [Orgs -> [Names -> Entry]], durable
    pc, stmt, got,  \* per client: step, statement, the entry it has read
    phase,      \* "down": the boot failed; "deaf": the change feed is lost until a restart
    subscribed, \* the refresh task listens to the change feed
    feed,       \* changes the refresh task has not received yet
    refresh,    \* what the refresh task is building
    registry,   \* LiveCatalogRegistry; an org without an entry has no catalogs
    issued, peers, faults, restarts,
    acked,      \* history: the outcome of the last successful statement
    ever,       \* history: every source config stored so far
    overlapped, \* history: two statements ran on one catalog at a time
    behind      \* history: orgs whose last change did not reach the registry

vars == <<store, pc, stmt, got, phase, subscribed, feed, refresh, registry, issued,
          peers, faults, restarts, acked, ever, overlapped, behind>>
client == <<pc, stmt, got>>
budgets == <<issued, peers, faults, restarts>>
task == <<phase, subscribed, refresh, registry>>

Entry == [binding : Optional, config : Optional]
Absent == [binding |-> None, config |-> None]
Whole(cfg) == [binding |-> cfg, config |-> cfg]
Exists(e) == e.binding # None

Verbs == {"create", "replace", "if_not_exists", "alter", "drop"}
\* What is left of a statement once its verb has chosen the steps.
Statements == [org : Orgs, name : Names, cfg : Configs]
Steps == {"idle", "build", "upsert_get", "upsert_put", "upsert_emit", "set_get",
          "set_put", "set_emit", "delete", "delete_emit"}
NoStatement == [org |-> None]
NoCatalogs == [n \in Names |-> None]
Idle == [busy |-> FALSE, failed |-> FALSE, org |-> BootOrg, configs |-> NoCatalogs]

\* merge_effective_catalogs: the store first, then the file, which only the
\* boot org has.
Effective(org, configs) ==
    [n \in Names |-> IF configs[n] # None THEN configs[n]
                     ELSE IF org = BootOrg THEN FileCatalogs[n] ELSE None]

\* list_source_configs.
SourceConfigs(org) == [n \in Names |-> store[org][n].config]

\* Some of the clients runs a statement on this catalog.
Busy(cs, org, n) ==
    \E o \in cs : pc[o] # "idle" /\ stmt[o].org = org /\ stmt[o].name = n

-----------------------------------------------------------------------------
Fault == faults < MaxFaults /\ faults' = faults + 1

\* A broadcast that keeps the newest Capacity changes: a receiver that lags
\* silently skips the older ones.
Send(org) ==
    LET full == Len(feed) = Capacity IN
    \/ /\ ~subscribed
       /\ behind' = behind \cup {org}
       /\ UNCHANGED feed
    \/ /\ subscribed
       /\ feed' = Append(IF full THEN Tail(feed) ELSE feed, org)
       /\ behind' = IF full THEN behind \cup ({Head(feed)} \ Range(feed')) ELSE behind

Goto(c, step) == pc' = [pc EXCEPT ![c] = step] /\ UNCHANGED <<stmt, got>>
\* The statement returns and its locals are gone.
Done(c) == /\ pc' = [pc EXCEPT ![c] = "idle"]
           /\ stmt' = [stmt EXCEPT ![c] = NoStatement]
           /\ got' = [got EXCEPT ![c] = Absent]
Put(c, e) == store' = [store EXCEPT ![stmt[c].org][stmt[c].name] = e]
Stored(c) == store[stmt[c].org][stmt[c].name]
Read(c, step) == /\ pc' = [pc EXCEPT ![c] = step]
                 /\ got' = [got EXCEPT ![c] = Stored(c)]
                 /\ UNCHANGED stmt
\* The entry an update starts from: the one it has read, unless the read and the
\* write are one transaction.
Base(c) == IF AtomicUpdate THEN Stored(c) ELSE got[c]

Ack(c, cfg) == acked' = [acked EXCEPT ![stmt[c].org][stmt[c].name] = cfg]

\* A statement fails and leaves what its earlier steps did.
Fail(c) == Fault /\ Done(c) /\ UNCHANGED <<store, feed, acked>>

-----------------------------------------------------------------------------
(* StoreCatalogAdmin::apply                                                 *)

Refused(verb, s) ==
    LET there == Exists(store[s.org][s.name]) IN
    CASE verb \in {"create", "if_not_exists"} -> there
      [] verb = "alter" -> ~there
      [] OTHER -> FALSE

Begin(c, verb, s) ==
    /\ pc[c] = "idle" /\ phase # "down"
    /\ issued < MaxStatements
    /\ issued' = issued + 1
    /\ \/ Refused(verb, s) /\ UNCHANGED client
       \/ /\ ~Refused(verb, s)
          /\ pc' = [pc EXCEPT ![c] = IF verb = "drop" THEN "delete" ELSE "build"]
          /\ stmt' = [stmt EXCEPT ![c] = s]
          /\ UNCHANGED got
    /\ overlapped' = (overlapped \/ Busy(Clients \ {c}, s.org, s.name))
    /\ UNCHANGED <<store, feed, task, peers, faults, restarts, acked, ever, behind>>

\* The source is resolved and built before anything is stored.
Build(c) ==
    /\ pc[c] = "build"
    /\ \/ Goto(c, "upsert_get") /\ UNCHANGED <<faults, store, feed, acked>>
       \/ Fail(c)
    /\ UNCHANGED <<task, issued, peers, restarts, ever, overlapped, behind>>

UpsertGet(c) ==
    /\ pc[c] = "upsert_get"
    /\ \/ /\ Read(c, "upsert_put")
          /\ UNCHANGED <<faults, store, feed, acked>>
       \/ Fail(c)
    /\ UNCHANGED <<task, issued, peers, restarts, ever, overlapped, behind>>

\* Only the binding moves; a source config that is there stays.
UpsertPut(c) ==
    /\ pc[c] = "upsert_put"
    /\ \/ /\ Put(c, [binding |-> stmt[c].cfg, config |-> Base(c).config])
          /\ Goto(c, "upsert_emit")
          /\ UNCHANGED <<faults, feed, acked>>
       \/ Fail(c)
    /\ UNCHANGED <<task, issued, peers, restarts, ever, overlapped, behind>>

UpsertEmit(c) ==
    /\ pc[c] = "upsert_emit"
    /\ Send(stmt[c].org)
    /\ Goto(c, "set_get")
    /\ UNCHANGED <<store, task, budgets, acked, ever, overlapped>>

\* Without a binding set_source_config does nothing and reports success.
SetGet(c) ==
    /\ pc[c] = "set_get"
    /\ \/ /\ Exists(Stored(c))
          /\ Read(c, "set_put")
          /\ UNCHANGED <<faults, store, feed, acked>>
       \/ /\ ~Exists(Stored(c))
          /\ Done(c)
          /\ Ack(c, stmt[c].cfg)
          /\ UNCHANGED <<faults, store, feed>>
       \/ Fail(c)
    /\ UNCHANGED <<task, issued, peers, restarts, ever, overlapped, behind>>

SetPut(c) ==
    /\ pc[c] = "set_put"
    /\ \/ /\ Exists(Base(c))
          /\ Put(c, [Base(c) EXCEPT !.config = stmt[c].cfg])
          /\ Goto(c, "set_emit")
          /\ ever' = [ever EXCEPT ![stmt[c].org][stmt[c].name] = @ \cup {stmt[c].cfg}]
          /\ UNCHANGED <<faults, feed, acked>>
       \/ /\ ~Exists(Base(c))
          /\ Done(c)
          /\ Ack(c, stmt[c].cfg)
          /\ UNCHANGED <<faults, feed, store, ever>>
       \/ Fail(c) /\ UNCHANGED ever
    /\ UNCHANGED <<task, issued, peers, restarts, overlapped, behind>>

\* Mutant: the second write of a CREATE does not fire a change.
SetEmit_Silent(c) ==
    /\ pc[c] = "set_emit"
    /\ Ack(c, stmt[c].cfg)
    /\ Done(c)
    /\ UNCHANGED <<store, feed, task, budgets, ever, overlapped, behind>>
SetEmit(c) ==
    /\ pc[c] = "set_emit"
    /\ Send(stmt[c].org)
    /\ Ack(c, stmt[c].cfg)
    /\ Done(c)
    /\ UNCHANGED <<store, task, budgets, ever, overlapped>>

\* Mutant: DROP clears the source config only.
Removed_KeepsBinding(e) == [e EXCEPT !.config = None]
\* delete_binding removes the binding and the source config.
Removed(e) == Absent

Delete(c) ==
    /\ pc[c] = "delete"
    /\ \/ /\ Exists(Stored(c))
          /\ Put(c, Removed(Stored(c)))
          /\ Goto(c, "delete_emit")
          /\ UNCHANGED <<faults, feed, acked>>
       \/ /\ ~Exists(Stored(c))
          /\ Done(c)
          /\ UNCHANGED <<faults, store, feed, acked>>
       \/ Fail(c)
    /\ UNCHANGED <<task, issued, peers, restarts, ever, overlapped, behind>>

DeleteEmit(c) ==
    /\ pc[c] = "delete_emit"
    /\ Send(stmt[c].org)
    /\ Ack(c, None)
    /\ Done(c)
    /\ UNCHANGED <<store, task, budgets, ever, overlapped>>

-----------------------------------------------------------------------------
(* spawn_registry_refresh                                                   *)

Subscribe ==
    /\ phase = "up" /\ ~subscribed
    /\ subscribed' = TRUE
    /\ UNCHANGED <<store, client, phase, feed, refresh, registry, budgets, acked, ever, overlapped, behind>>

\* The subscription fails or its stream ends: the task returns, once it has built the
\* snapshot it is at, and live updates are off until a restart.
FeedLost ==
    /\ phase = "up" /\ ~refresh.busy
    /\ Fault
    /\ phase' = "deaf" /\ subscribed' = FALSE /\ feed' = <<>>
    /\ behind' = behind \cup Range(feed)
    /\ UNCHANGED <<store, client, refresh, registry, issued, peers, restarts, acked, ever, overlapped>>

\* Mutant: the file backs every org.
Listed_WithFile(org, configs, failed) ==
    refresh' = [busy |-> TRUE, failed |-> failed, org |-> org,
                configs |-> Effective(BootOrg, configs)]
Listed(org, configs, failed) ==
    refresh' = [busy |-> TRUE, failed |-> failed, org |-> org,
                configs |-> Effective(org, configs)]
\* The next change is received and the configs of its org are listed; a failed
\* listing goes on with no configs at all.
RefreshList ==
    /\ subscribed /\ ~refresh.busy /\ feed # <<>>
    /\ feed' = Tail(feed)
    /\ \/ /\ Listed(Head(feed), SourceConfigs(Head(feed)), FALSE)
          /\ behind' = behind \ {Head(feed)}
          /\ UNCHANGED faults
       \/ /\ Listed(Head(feed), NoCatalogs, TRUE)
          /\ behind' = behind \cup {Head(feed)}
          /\ Fault
    /\ UNCHANGED <<store, client, phase, subscribed, registry, issued, peers, restarts,
                   acked, ever, overlapped>>

\* A source that cannot be built is left out of the snapshot.
RefreshSkip(n) ==
    /\ refresh.busy /\ refresh.configs[n] # None
    /\ Fault
    /\ refresh' = [refresh EXCEPT !.configs[n] = None]
    /\ behind' = behind \cup {refresh.org}
    /\ UNCHANGED <<store, client, phase, subscribed, feed, registry, issued, peers,
                   restarts, acked, ever, overlapped>>

\* Every provider is built; the snapshot of the org is swapped.
RefreshSwap ==
    /\ refresh.busy
    /\ registry' = [registry EXCEPT ![refresh.org] = refresh.configs]
    /\ refresh' = Idle
    /\ UNCHANGED <<store, client, phase, subscribed, feed, budgets, acked, ever, overlapped, behind>>

-----------------------------------------------------------------------------
\* Another instance that shares the store finishes an ALTER.
PeerWrite(org, n, cfg) ==
    /\ peers < MaxPeerWrites
    /\ peers' = peers + 1
    /\ Exists(store[org][n])
    /\ store' = [store EXCEPT ![org][n] = Whole(cfg)]
    /\ Send(org)
    /\ acked' = [acked EXCEPT ![org][n] = cfg]
    /\ ever' = [ever EXCEPT ![org][n] = @ \cup {cfg}]
    /\ overlapped' = (overlapped \/ Busy(Clients, org, n))
    /\ UNCHANGED <<client, task, issued, faults, restarts>>

\* The boot sequence reconciles the file into the store of the boot org, name by name
\* and best effort: "failed" writes nothing, "half" writes the binding only.
SeedOutcomes == {"done", "half", "failed"}
AllDone == [n \in Names |-> "done"]
Seeded(s, how) ==
    [s EXCEPT ![BootOrg] = [n \in Names |->
        IF FileCatalogs[n] = None \/ how[n] = "failed" THEN @[n]
        ELSE [binding |-> FileCatalogs[n],
              config |-> IF how[n] = "half" THEN @[n].config ELSE FileCatalogs[n]]]]

\* The registry starts with the snapshot of the boot org alone: what the store lists,
\* or the file when the listing fails, without the catalogs that cannot be reached.
BootRegistry(s, listed, skipped) ==
    [org \in Orgs |->
        IF org = BootOrg
        THEN LET stored == [n \in Names |-> IF listed THEN s[BootOrg][n].config ELSE None]
             IN  [n \in Names |-> IF n \in skipped THEN None ELSE Effective(BootOrg, stored)[n]]
        ELSE NoCatalogs]

\* The process ends, and nothing is left of it but the store.
ProcessGone ==
    /\ pc' = [c \in Clients |-> "idle"]
    /\ stmt' = [c \in Clients |-> NoStatement]
    /\ got' = [c \in Clients |-> Absent]
    /\ feed' = <<>> /\ subscribed' = FALSE /\ refresh' = Idle
    /\ overlapped' = (overlapped \/ \E c \in Clients : pc[c] # "idle")
    /\ UNCHANGED <<issued, peers, ever>>

Seed(how) ==
    /\ store' = Seeded(store, how)
    /\ acked' = [acked EXCEPT ![BootOrg] = [n \in Names |->
                    IF FileCatalogs[n] # None /\ how[n] = "done" THEN FileCatalogs[n] ELSE @[n]]]

Boot(how, listed, skipped) ==
    /\ phase' = "up"
    /\ Seed(how)
    /\ registry' = BootRegistry(store', listed, skipped)
    /\ behind' = (Orgs \ {BootOrg}) \cup {o \in {BootOrg} : ~listed \/ skipped # {}}

\* A catalog cannot be reached and tolerate_unreachable_catalogs is off, or the
\* invalidation stream does not start: boot returns an error after the seeding.
BootFails(how) ==
    /\ phase' = "down"
    /\ Seed(how)
    /\ registry' = [org \in Orgs |-> NoCatalogs]
    /\ behind' = Orgs

\* The process ends at any point and boots again from the store.
Restart ==
    /\ restarts < MaxRestarts
    /\ restarts' = restarts + 1
    /\ ProcessGone
    /\ \/ Boot(AllDone, TRUE, {}) /\ UNCHANGED faults
       \/ /\ Fault
          /\ \E how \in [Names -> SeedOutcomes] :
                \/ \E listed \in BOOLEAN, skipped \in SUBSET Names : Boot(how, listed, skipped)
                \/ BootFails(how)

Init ==
    /\ store = Seeded([org \in Orgs |-> [n \in Names |-> Absent]], AllDone)
    /\ registry = BootRegistry(store, TRUE, {})
    /\ pc = [c \in Clients |-> "idle"]
    /\ stmt = [c \in Clients |-> NoStatement]
    /\ got = [c \in Clients |-> Absent]
    /\ phase = "up" /\ subscribed = FALSE /\ feed = <<>> /\ refresh = Idle
    /\ issued = 0 /\ peers = 0 /\ faults = 0 /\ restarts = 0
    /\ acked = [org \in Orgs |-> [n \in Names |-> store[org][n].config]]
    /\ ever = [org \in Orgs |-> [n \in Names |-> {}]]
    /\ overlapped = FALSE /\ behind = {}

ClientStep(c) ==
    \/ Build(c) \/ UpsertGet(c) \/ UpsertPut(c) \/ UpsertEmit(c) \/ SetGet(c)
    \/ SetPut(c) \/ SetEmit(c) \/ Delete(c) \/ DeleteEmit(c)
TaskStep == Subscribe \/ FeedLost \/ RefreshList \/ RefreshSwap

Next ==
    \/ \E c \in Clients : ClientStep(c) \/ \E verb \in Verbs, s \in Statements : Begin(c, verb, s)
    \/ TaskStep
    \/ \E n \in Names : RefreshSkip(n)
    \/ \E org \in Orgs, n \in Names, cfg \in Configs : PeerWrite(org, n, cfg)
    \/ Restart
Spec == Init /\ [][Next]_vars

-----------------------------------------------------------------------------
\* Every variable has its type; the feed holds at most Capacity changes.
TypeOK ==
    /\ store \in [Orgs -> [Names -> Entry]]
    /\ pc \in [Clients -> Steps] /\ stmt \in [Clients -> Statements \cup {NoStatement}]
    /\ got \in [Clients -> Entry]
    /\ phase \in {"up", "down", "deaf"}
    /\ subscribed \in BOOLEAN /\ feed \in Seq(Orgs) /\ Len(feed) <= Capacity
    /\ refresh \in [busy : BOOLEAN, failed : BOOLEAN, org : Orgs, configs : [Names -> Optional]]
    /\ registry \in [Orgs -> [Names -> Optional]]
    /\ issued \in Nat /\ peers \in Nat /\ faults \in Nat /\ restarts \in Nat
    /\ acked \in [Orgs -> [Names -> Optional]] /\ overlapped \in BOOLEAN
    /\ ever \in [Orgs -> [Names -> SUBSET Configs]] /\ behind \subseteq Orgs

ClientsIdle == \A c \in Clients : pc[c] = "idle"
Quiescent == ClientsIdle /\ subscribed /\ feed = <<>> /\ ~refresh.busy
Fresh(org) == registry[org] = Effective(org, SourceConfigs(org))

\* "A NEW session reflects out-of-band store changes": once every statement has
\* finished and every change is handled by a task that still has its feed, the
\* registry has the catalogs of the store for every org, unless its last change was
\* missed: skipped by a lagging receiver, sent before the task subscribed, listed or
\* built in vain, or made before the restart in an org other than the boot org; the
\* boot org also misses what boot could not list or reach.
RegistryConverges == Quiescent => \A org \in Orgs \ behind : Fresh(org)

\* Without overlapping statements and failures the store has, for each catalog,
\* the whole entry of the last successful statement and nothing after a DROP,
\* also after a restart.
SerialEffect ==
    ClientsIdle /\ ~overlapped /\ faults = 0
        => \A org \in Orgs, n \in Names :
              store[org][n] = IF acked[org][n] = None THEN Absent
                              ELSE Whole(acked[org][n])

\* "A boot file catalog never leaks into another tenant's snapshot", whatever fails:
\* a tenant is served only what was once stored for it.
NoTenantLeak ==
    \A org \in Orgs \ {BootOrg}, n \in Names :
        registry[org][n] # None => registry[org][n] \in ever[org][n]

\* "You never end up with a half-registered catalog": when no statement runs,
\* binding and source config of every entry come from the same statement.
NoHalfRegistered ==
    ClientsIdle => \A org \in Orgs, n \in Names :
                      store[org][n].binding = store[org][n].config

\* "A no-op if the name has no binding": the second write of a CREATE or ALTER
\* never creates an entry.
SetConfigNeverCreates ==
    [][\A c \in Clients : pc[c] = "set_put" /\ pc'[c] = "set_emit"
            => Exists(Stored(c))]_vars

\* "list_source_configs failed; keeping the current snapshot": a refresh whose
\* listing failed changes no snapshot.
FailedListKeepsSnapshot ==
    [][refresh.failed => registry' = registry]_<<registry, refresh>>

\* "The meta store is the single source of truth for catalogs": once quiet, new
\* sessions see no catalog that is not in the store.
StoreIsTruth ==
    Quiescent => \A org \in Orgs, n \in Names :
                    registry[org][n] # None => Exists(store[org][n])
=============================================================================
