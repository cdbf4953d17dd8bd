# Dataglot: TLA+ models and proofs

Dataglot is a federated SQL gateway in Rust: clients speak the PostgreSQL wire protocol (and Flight SQL), DataFusion
plans their queries over catalogs of remote sources, policy enforcers rewrite the plans, a warehouse connector writes
Iceberg tables, background jobs refresh and compact them, and Ballista can run a query on a cluster. This directory
holds TLA+ models of the parts of it that are concurrent or that fail halfway, the TLC configurations that check them,
and TLAPS proofs about seventeen of them. All paths below are relative to the repository root; a module's header says which
files it models and `PROJECT.json` maps every definition to its lines.

## 1. Inventory

| part | state it keeps | operations | what is hard | what makes it correct |
|---|---|---|---|---|
| Warehouse overwrite (`dataglot-federation/src/materialize.rs`, `iceberg.rs`; callers `ingest.rs`, `maintenance.rs`, `materialization.rs` of the server) | names bound in the Iceberg catalog: target, staging, parked | upsert, compaction, refresh, orphan sweep | several catalog requests per overwrite with no lock; external engines commit too; requests fail, replies get lost, processes die | no committed row is lost; the committed table stays reachable; nothing leaks |
| Scheduler lease (`dataglot-ballista/src/ha.rs`, `scheduler.rs`) | one object with etag and expiry; each scheduler's term | claim, steal, heartbeat, step down | clocks differ, requests are slow or lost | a healthy leader keeps the lease, two never serve for long, a vacancy ends |
| Catalog DDL and live registry (`catalog_admin.rs`, `server.rs`, `redb_store.rs`) | meta store entries, change feed, registry per org | CREATE / ALTER / DROP CATALOG, refresh, boot | two writes per statement, bounded feed, other instances | the store has whole entries; the registry follows it; tenants stay apart |
| Catalog provider cache (`cache.rs`, `subscribe.rs`) | warm map, in-flight cells | get, evict, invalidation task | concurrent gets and evicts, stream loss | only stale in known ways; gets return |
| Query lifecycle (`handler.rs`, `query_registry.rs`, `observer.rs`) | cancel slots and flags, live view, history ring | start, plan, stream, cancel, complete | cancels from other tasks, futures dropped at an await | every query completes once and truthfully; a cancel stops its query only |
| Connection admission (`rate_limit.rs`, `session_registry.rs`, `server.rs`) | token buckets, permits, counts, gauge, sessions | admit, identify, release | many tasks at a ceiling; failure at any point of the handshake | no slot leaks or is released twice; the views agree |
| Server lifecycle and refresh scheduler (`server.rs`, `materialization.rs`, `materialization_registry.rs`) | background tasks, sibling servers, job status | boot, accept, broadcast, drain, refresh, retry | failed start-up steps, shutdown racing ticks and backoff | a clean exit, jobs that keep refreshing |
| Distributed query driver (`cancel_on_drop.rs`) | driver task, channel, job id | submit, drive, cancel, fetch metrics | a consumer that leaves at any point; lost answers | no truncated result looks complete; abandoned jobs are cancelled |
| Masks and row filters (`policy_admin.rs`, `dataglot-policy/src/store.rs`, boot replay in `server.rs`) | live rules, stored policies | CREATE / DROP MASK, ROW FILTER, boot | rule change and write are separate, crash between | live = what a restart gives; a server can boot |
| Grants (`grant_admin.rs`, `dataglot-policy/src/grant.rs`) | stored and published grants | GRANT, REVOKE, role membership | reload and publish without a lock | success means enforced |
| Users and roles (`user_admin.rs`) | stored users and roles | CREATE / ALTER / DROP USER, ROLE | look-ups before an await, write after it | a login runs for the organisation of its user |
| Derived products (`view_admin.rs`, `apply_view_ddl` of `handler.rs`) | stored views, registry per org, tables of each session | CREATE / REPLACE / DROP VIEW, connect, startup swap, boot | store, registry and session change one after another; rollback by a DROP | new sessions see what is stored; nobody sees another tenant's view; a failed CREATE leaves nothing |
| Governance webhook (`webhook.rs`, `governance/datahub.rs`, `tags.rs`) | tags, policies and certifications of the rule store | one event type each | retries, late copies, restarts | what was acknowledged is enforced |
| Policy decisions (`dataglot-policy`: `lib.rs`, `mask.rs`, `filter.rs`, `tag_enforcer.rs`, `whitelist.rs`, `access_deny.rs`, `grant.rs`), mask propagation (`lineage.rs`, `propagation.rs`) | rules, grants, the plan under way | analyzer rule, one policy pass per optimizer pass, rule changes in between | names in three spellings, aliases, subqueries, tenants' rules over the operator's, rules that change between passes | no masked value is shown, no row filter is missing, nothing refused is read, tenants do not affect one another |
| Federated plans (`federation_dedup_guard.rs`, `federation_mark_join_guard.rs`, `federation_pushdown.rs`, `rls_isolation.rs`, `session.rs`) | the plan that becomes SQL | guards, isolation of row filters, physical rules | an unparser that moves or loses filters and DISTINCT | the source's answer is what the plan asks for |
| HTTP sources (`rest/`, `odata/`) | one scan's request, cursor and rows | pushdown verdict, paging, decoding | filter, limit and pages interact; null differs between SQL and OData | exactly the rows SQL asks for |
| OAuth token cache (`rest/oauth2.rs`) | one token with its expiry | bearer, fetch | no lock during the fetch, slow answers | a token handed out is accepted |
| Meta stores (`embedded.rs`, `redb_store.rs`, `service.rs`) | entries, the document in memory, its file, the feed | puts and deletes of every kind of object | failed writes, crashes, two sessions | acknowledged means stored, read and announced |
| Lineage emission, secrets, authentication, SQL connectors, Ballista wiring, parsers, configuration, CLI | see `PROJECT.json` | - | - | not modelled: section 8 |

How they interact. A session passes ConnectionAdmission, then each statement goes through QueryLifecycle; DDL reaches
LiveCatalogs, Views, PolicyRules, GrantRefresh or UserRouting. They share the meta store, each with keys of its own:
the modules model it by the part they use, one step per call, and MetaStores shows what a call is on each backend (one
transaction, but for the bindings of redb, which LiveCatalogs therefore splits in two). A query is planned by
PolicyPipeline against the rules that PolicyRules, GovernanceFeed and GrantRefresh put in force; what is federated of it
becomes SQL in FederatedPlan or requests in HttpScan, which takes its token from TokenCache.
LiveCatalogs publishes the registry that new sessions read; CatalogCache follows the same change feed. ServerLifecycle
starts and stops the background tasks; the body of a refresh attempt is WarehouseOverwrite. A distributed query is one
row source of QueryLifecycle and one DistributedQuery. The couplings are one-way, so each module has what it needs
from the others as an environment action (a stream that never yields, an attempt that never ends, a peer that writes).

## 2. Modules

Every module has the state of the code as VARIABLES, one action per step between two awaits, locks or requests, and
*history* variables, named so, that no action's guard reads: the properties use them to say in which known holes of
the code a promise does not hold. Names ending in `_Something` after the name of another operator are mutants, each a
plausible bug that the property named in `PROJECT.json` catches.

* **WarehouseOverwrite**. `live`, `staging[w]`, `parked[w]` are the tables bound to the three names; a table is a
  snapshot id and the set of writes whose rows it holds. `pc`, `exp`, `base`, `read`, `had` are a call's locals
  (`ExpectedVersion`, captured snapshot, pinned provider, `target_exists`). `UpsertProbe` .. `Reprobe` are the catalog
  requests of `upsert_into_table`, `current_snapshot_id`, `table_provider`, `overwrite_table_stream_checked`,
  `blue_green_promote` and `validate_parked_version`, in order, each with its failure. `Crash`, `Retry`, `ExternalAppend`,
  `Age`, `SweepStaging`, `SweepParked` are the environment. `head` is the history of what was committed. `CreateStaging`
  is three requests in one step (probe, drop and create of a name that only this call and the sweep use); what a failure of
  any of them, or a create whose reply is lost, leaves behind is in it.
* **SchedulerLease**. The lease object, and per scheduler its place in `run_scheduler_ha`, the request under way and its
  term. A request is sent in one action and takes effect, with the reply, in a later one; time passes in `Tick`, and
  never past a deadline of an action that must happen (`Overdue`).
* **LiveCatalogs**. A statement's reads and writes (`UpsertGet`, `UpsertPut`, `SetGet`, `SetPut`, `Delete`) and the
  sends on the change feed between them, the refresh task (`RefreshList`, `RefreshSkip`, `RefreshSwap`), boot
  (`Restart`, `Subscribe`), another instance (`PeerWrite`). A boot may fail to seed the store, to list it or to reach a
  catalog; it goes on with what it has, as the code does. `FeedLost` is a subscription that fails or a stream that ends:
  the refresh task is over and statements go on without it (`phase = "deaf"`).
* **CatalogCache**. One key of the two maps; `Probe`, `Enter`, `TakeCell`, `StartBuild`, `BuildDone`, `Hoist`, `Clear` are
  the map operations of `get`, `EvictWarm` and `EvictCell` those of `evict`, plus the stream, which drops its oldest
  change for a slow reader, closes and reconnects. A provider is the time its builder ran: the server's only builder captures
  the catalog's config at boot, so the module says when the builder is run again and not that it then follows the store.
* **QueryLifecycle**. A connection's task from `Start` over `Attach`, `Planned` or `PlanFails` to its row streams; the
  wrapper around the rows is in one of the points of `CancelFlag::cancelled` (`Arm`, `ReadFlag`, `Park`, `Wake`);
  completion is the two critical sections of `complete`; cancels come from the dashboard and from CancelRequests, which
  are `CancelRequest`, the await of `manager.cancel`, and `SlotCancel`, `cancel_current` after it, with any step of the
  connection between the two; `PlanCancelled` is the planning future seeing the first half. The rows of COPY, mixed and
  metadata answers have no wrapper (`RawEnds`, `RawFails`).
* **ConnectionAdmission**. A connection's task through the checks of `admit_at`, the gauge, the registry and the identity
  ceiling, and back through the guards in drop order. Tokens are counted in `Minute`-ths, exactly.
* **ServerLifecycle**. The start-up steps of `run` with their failures, the broadcast, the drain with its timeout, the
  siblings; and per job the tick, the attempt, the backoff and the status. Tasks without a handle in `BackgroundTasks`
  (connections, the health poller, the registry refresh) are not part of it.
* **DistributedQuery**. The driver's `select!`, its two-slot channel, `cancel_abandoned_job`, the fetch of the metrics;
  Ballista's scheduler and stream are external and modelled from how `cancel_on_drop.rs` uses them.
* **PolicyRules**. A CREATE or DROP as look-up, rule change and write, by any number of sessions of an organisation and
  with any number of names on a target; `crossed` is the history of the targets on which two of them met. `Crash` and
  `Boot` with the replay in name order.
* **GrantRefresh**. A statement as write, list of organisations, one listing per organisation, publish.
* **UserRouting**. `get_user`, `find_user`, the password's protection, the write; roles; and the organisation of a session
  as login and startup observer settle it (`SessionOrg`): the configured identity's, else the stored user's, else the boot
  organisation, under password or trust authentication, with or without a key for the stored passwords.
* **AtomicTable** is the abstract table: a call commits in one step on top of what is there, or fails, and says which.
  **WarehouseRefinement** maps the names and places of WarehouseOverwrite to it; `ImplementsAtomic` is the abstract
  specification as a property of the detailed one. The promote is the step that commits; park, rollback, crash and
  clean-up are stutters. After one of the three holes (`hole`) nothing is promised.
* **Views**. Store, registry and session tables with the awaits between them; `Register` and `OnRegisterError` are the
  end of `apply_view_ddl`; `Connect` and `Startup` fill and swap a session's views; `Restart` replays the store. A
  statement that a store failure or a cancel ends at its write (`StoreFails`) may leave that write on its way (`loose`):
  redb commits it in a blocking task, Postgres after a lost reply; it takes effect later (`Land`) or never.
* **Governance**, **GovernanceFeed**. What an event does to the rule store; a platform that sends one event at a time and
  retries, over a network that loses and delays, to a server that keeps the result in memory only.
* **RuleResolution**. Which mask, row filter, tag policy, whitelist, denial or grant decides about a reference, for an
  identity. **PlanRewrite**: what each enforcer makes of a plan tree. **Lineage**: the column lineage of a plan, the graph
  of products, and the masks that descend it. These are pure operators. **RuleStore** is the store's two lists of masks and
  row filters, in the order the rules were registered, and what CREATE and DROP do to them (`UpsertAt`, `Retain`, `Publish`
  with its rollback). **PolicyPipeline** has the rest of the state: analyzer, then passes that each read the enforcer current
  at that moment, while rules (`StoreNext`) and grants change. Its properties do not use
  the enforcers' lookups: they read what the finished plan shows, scans and guards (`Shown`, `Guarded`, `ReadRefs`,
  `Names`, `Origins`). A product that is not materialised is a view: an alias over its own plan in the query's.
* **FederatedPlan**. Guards, isolation, physical rules, execution, one step each. `Rows` is what a plan means, `Sql` what
  the SQL made of it means; the unparser (DataFusion) is external and does what the comments of the guards and of
  `rls_isolation.rs` say of it, with and without the DISTINCT bug of DataFusion 53.
* **HttpScan**. The verdict on each filter, the request, one action per page, the failure at any page. A filter is the
  sequence of its nodes, arguments first, so that its value is a recursive function of the place (`Value`); `Sql` and
  `Service` are its two meanings.
* **Retain**. The elements of a sequence at given positions, in their order: `Vec::retain`, and the rows that pass a filter.
* **TokenCache**. A token is the time at which it stops being accepted; the cache knows only arrival plus stated lifetime.
* **MetaStores**. A session's operation on one of three backends: mutex, memory, temporary file and rename; a redb read
  and commit; a Postgres statement. `want` is the history of what was acknowledged.
* **Edges** puts SchedulerLease, ConnectionAdmission, MetaStores and TokenCache side by side with their constants and variables, for
  MCEdges to check and EdgesProofs to prove about; **Admin** does so for GrantRefresh, UserRouting, Views and
  GovernanceFeed (MCAdmin, AdminProofs) and **Server** for ServerLifecycle and DistributedQuery (MCServer, ServerProofs).
* **MC\*** give TLC definitions for constants that a `.cfg` cannot write down. **MCServer**, **MCAdmin** and **MCEdges** hold
  several components that share no state: a behaviour belongs to one of them (`moving`), the others stand still, so each
  is checked exactly as alone.
* **WarehouseOverwriteProofs** (and the refinement), **PolicyRulesProofs**, **LiveCatalogsProofs**,
  **QueryLifecycleProofs**, **ServerProofs** (lifecycle and distributed query), **AdminProofs** (grants, users, views, events
  and the provider cache), **EdgesProofs** (lease, admission, tokens and stores) and **ReadPathProofs** (rule lookups and HTTP scans) hold
  the theorems.

## 3. Runs

| run | states | what it shows |
|---|---|---|
| `wh` | 3.2 M | any two of an upsert, a compaction and a refresh, an external commit, and up to three (`MaxKinds`) of a failed request, a lost reply, a crash, a retry with the same token and a sweep. `SafeOverwrite`: a lost update needs one of three named holes. `Recoverable`: the committed table is always under some name. `CommitsOverBase`: a read-modify-write commits only over the snapshot and the rows it read. `NothingLeaks`: without faults a call leaves no maintenance table. `ImplementsAtomic`: the refinement of AtomicTable |
| `wh_gap` | violation | `NoLostUpdate` without the holes excluded: see section 6 |
| `edges` | 3.6 M | six components. Lease: a leader whose requests are answered keeps it (`HealthyLeaderKeepsLease`); two serve together for at most a heartbeat interval, two requests and the skew, and a vacancy ends within a lease and the time to notice (`LeadershipBounded`). Admission: every slot is held by exactly one live connection and the gauge, the session list and the counts agree (`NoSlotLeaks`); `RateBounded`. `TokenUsable`, `ScanExact`, `StoreKeepsWord`, `FederationSound` as named in their modules |
| `store_gap` | violation | `OnlyUpsertCreates` on redb: see section 6 |
| `live_catalogs` | 1.3 M | two sessions, another instance, one failure (of a statement, a refresh, the feed or the boot), a restart, a feed of two. The store has the whole entry of the last successful statement where statements did not overlap; the registry converges to the store but for orgs whose last change was missed or, for the boot organisation, that boot could not list or reach; no tenant sees the boot file's catalogs |
| `cache` | 0.2 M | three callers, a failed or dropped build, a change of the key and two of others, a stream that lags and one that closes. Exactly three ways to serve an old provider (its change still queued, the change dropped by the stream or made while it was down, a get that straddled the evict putting it back); every get returns |
| `query` | 1.0 M | two connections, all statement kinds, cancels in two halves, late stats. The live view shows exactly the running queries, a truthful history, no cancel of the wrong query but of one that begins between the halves, no lost wake-up |
| `server` | 0.1 M | two components. Two jobs, one sibling, a background task of each kind, every start-up step may fail: quiet exit, shutdown completes though attempts may never end, jobs keep refreshing. One distributed query with every fault at every point: no truncated result looks complete, and `QueryEnds`: an abandoned job is cancelled and a reader sees the end |
| `policy` | 2.4 M | two sessions of one organisation and one of another, two names, a mask and a row filter, refused rules, failing store calls (of which the write may have taken effect) and crashes. `LiveMatchesStore` and `StoredIsEnforced` but on targets where a write failed or statements crossed; `CanBoot` |
| `admin` | 1.6 M | four components: grants, users and roles, views, governance events (`about` in `PROJECT.json`) |
| `view_gap` | violation | `CreateViewAtomic`: see section 6 |
| `decisions` | 0.1 M | one query of each shape (aliases over tables, joins and views, subqueries with and without columns of the outer query, aggregates, unions, products and views) by each session under each configuration, while one tenant creates and drops a mask and a filter and grants change: `MasksHold` (named and derived), `FiltersHold`, `ReadsAllowed`, `TenantIsolation` |

**Bounds and why they are enough.** The protocols compare at most two parties at a time: two writers for one claim
(and an external commit as a third), two schedulers for one lease, two sessions for one name, two connections for one
registry, two callers for one token. Every kind of trouble may happen at least once, at any point (in `wh` any three of
the five kinds in one behaviour); for every safety property that section 5 lists as proved, the proof removes the bounds.
`HistoryCap`, `StatsCap`, `Capacity`, `Slots`, `MaxPages` and the ceilings of admission are small so that the limit itself
is reached. `MaxTime` of the lease (15, with three faults and two exits) covers a full term, its loss and the successor's
term: the parameters (lease 6, heartbeat 2, delay 1, skew 1) satisfy the premise of `HealthyLeaderKeepsLease`. The three
connections come from one or two addresses as one or two users, one attempt of each kind up to renaming. Tokens: lifetimes
below, between and above timeout and margin, over eight units of time. Stores: three operations of two sessions on one
binding and one other object, enough for a read, a delete and a write back. Scans: tables of up to four rows with nulls,
duplicates and values too wide for two bits, every filter form and every pair of two, limits of none, zero and two, pages
of one and two rows. Federated plans: every join type over every pair of legs, under a DISTINCT, a filter or a second
join of every type. Views: three statements of two sessions on one name, in two organisations; policies: two sessions that meet on
a name or a target, and one that must not notice; the feeds of LiveCatalogs and CatalogCache hold two changes and one, so
that they overflow; events: three; the pipeline: two rules and two passes,
since a third pass sees what the second does. CatalogCache's `MaxCells` is one more than the gets need. Symmetry is used
only in runs without a liveness property, over sets whose elements no definition names. `TypeOK` of the modules whose run
does not list it is there to read the state by. Deadlock is not checked where a bound or a finished system really stops.

## 4. Fairness

Only what tokio and the code guarantee. A task that can go on is polled: weak fairness of `GetStep` per caller in
CatalogCache, `WrapperStep` and `CompletionStep` per connection in QueryLifecycle, `Boot`, `Shutdown`, `JobStep` and
`SiblingStep` in ServerLifecycle, `Driver`, `Canceller` and `Reader` in DistributedQuery. A timer that was set fires:
`Tick` of a job, the drain timeout inside `Shutdown`. A cancel that set a flag goes on to notify, since both are in one
function without an await: `RequestNotify`, `DashboardNotify`. The invalidation loop retries for ever: `EvictWarm`,
`EvictCell`, `Reconnect`. Environments get fairness only where a property needs it and says so: builders end (part of
`GetStep`), requests to a sibling end (`RequestsEnd`, needed by `ShutdownCompletes`), the scheduler answers (`Ballista`,
`Fetched`), and `AttemptsEnd` is a hypothesis inside `KeepsRefreshing`. No fault is fair, a row source need never yield, a
job on the cluster need never end, and a refresh attempt need never end for `ShutdownCompletes`.

## 5. Proofs

**WarehouseOverwriteProofs**, for every set of upserts, compactions, refreshes and external commits
and any limits on trouble: `TypeCorrect`, `SafeOverwriteTheorem`, `RecoverableTheorem`, `CommitsOverBaseTheorem`, `NothingLeaksTheorem`,
`OverwriteImplementsAtomic`. Assumptions: the kinds of call are disjoint (`KindsAssumption`), `NoTable` is neither a table
nor a set of rows, limits are numbers. None of the properties is
inductive. The invariant `IInv` adds what the protocol knows at each point:
`LocalsInv` (locals agree with the control point), `FreshInv` and `PrivateInv` (a staging table's snapshot id is seen
nowhere else, so a promote makes a new version), `EmptyInv` (no id means no rows, outside the holes), `StagedInv` and
`MergedInv` (a staged result is the base's rows and the batch, while the base is the head), `ClaimInv` (at most one
writer holds the head parked, and then the target name is free: the parking rename is the lock), `UnparkedInv` and
`HeldInv` (the head is under a name that nobody is about to drop, for `Recoverable`). The parts that the three holes
break are conditional on `hazards = {}`; one lemma per action carries each part over. `NothingLeaksTheorem` has an invariant
of its own on top, `TidyInv`: without trouble a staging table exists only where its writer will still promote or drop it,
and, while no writer filled the gap, every parked table belongs to the one writer that will put it back or drop it. The
claim of `ClaimInv` is restated there because empty overwrites, one of the three holes, do not matter for names.

`OverwriteImplementsAtomic` is the refinement (`ImplementsAtomic`). Outside the holes `CurrentRows` is the rows of `head`,
wherever the table is bound (`Mapped`: under the target name by `ClaimInv`, else under a parked one by `HeldInv`, and
nowhere before the first commit by `BornInv`). `CallInv` adds what makes the status of a call a function of where it is:
no outcome before it is decided, a failing one on the way back. Then a request either leaves head and status alone (a
stutter), or fails, vanishes, succeeds, or is the promote, whose intended rows are those of the atomic commit
(`StepAnswers`, `IntendedIsAtomic`); nothing closes a hole (`HolesStay`). It is the safety part that is proved, which is all
AtomicTable states.

**PolicyRulesProofs**, for any organisations, sessions, names, targets and bodies:
`TypeCorrect`; `AlwaysCanBoot`, from `Accepted` (a CREATE at its write has been accepted by the enforcer); and
`LiveAlwaysMatchesStore` (`LiveMatchesStore`) and `StoredAlwaysEnforced` (`StoredIsEnforced`), whatever store call fails and
whenever the process crashes. No hypothesis says how many sessions an organisation has or how many names a target: the
properties except the targets that were `crossed`, which section 6 shows to be necessary, and the proof is that a crossing
spoils those targets and no other. `SerialInv`: statements past their read that share a name or a target have crossed
(`Clash`), what is stored under a statement's name is on its own target or on a crossed one (`NameIsOwn`: a write takes no
policy away from a target that is thought clean), no other name has its target (`TargetIsOwn`), between its two halves its
rule is in force (`Halfway`), and a target that nobody is writing, that is not crossed and whose last write did not fail,
or failed in a CREATE that took effect, has in force what a restart would replay (`Settled`).

**LiveCatalogsProofs**, for any sessions, organisations, names, feed capacity and number of failures and restarts:
`TypeCorrect` and three properties, each with its own invariant on top of the types.
`TenantsStayApart` (`NoTenantLeak`) from `TenantInv`: not only a tenant's snapshot but every place it is made from (the
store, the entry a statement has read and will write back, the snapshot being built) holds only what was once stored for
that tenant. `RegistryFollowsStore` (`RegistryConverges`) from `ConvergeInv`: an org that is not behind, with no change in
the feed and none written and not yet announced, has what the store says in its registry, or in the snapshot that is about
to replace it; this is where a feed that drops its oldest change, a refresh that overlaps a write and a boot that could
not seed, list or reach something have to be right.
`StatementsAreSerial` (`SerialEffect`) from `SerialInv`: while statements on a catalog have not overlapped and nothing has
failed, an idle catalog's entry is the acknowledged one, and a busy catalog's is what its one statement's progress says
(`Expected`), with what the statement read still true (`Steady`).

**QueryLifecycleProofs**, for any connections, statement kinds, number of queries, cancels and reports and any size of the
ring: `TypeCorrect`, `LiveViewIsExact`, `OnlyTheTargetAborts`, `HistoryIsTrue`. One invariant for all: `Work` says how runs are
divided among connections (`Numbered`, `OneOwner`, what a connection's place says of its run: `Stages`, `Unborn`), `Promises`
says what rests on that: who is in the live view (`Watched`), that a set flag belongs to a run a cancel was aimed at
or that overtook it between its halves (`FlagsAimed`: the reason a late cancel hits nobody else), what the entries were told (`Marked`, `Told`), and that the ring
holds each settled run once and truthfully (`Records`, with `Unseen`: rows that fail after their success was recorded are
those of statements without a wrapper). Even `TypeOK` needs it: that the ring holds
each run once rests on `Records`, and that on `OneOwner`.

**ServerProofs**: `ExitIsQuiet` (`QuietExit`), for any jobs, tasks, siblings and attempts. The exit waits only for
the tasks whose handles it holds, so the invariant follows the handles from the boot on (`AllHeld`, `Spawned`), keeps ended
tasks ended (`DrainedInv`, `SiblingsInv`), and pins a job that retried after the broadcast (`NoSecondBackoff`). `EndIsComplete` (`EndMeansComplete`), for any number of
batches and slots: a closed, empty channel is all the reader sees, so `QueryInv` follows each batch from the stream to the
reader (`Conserved`: none is missing unless the reader has left) and says why the driver closed the channel (`ClosedWhy`: the
last batch of a completed job, an error in the channel, or a reader that left).

**AdminProofs**, on the components of Admin and on CatalogCache, each theorem about a component's own specification.
Grants: `SuccessMeansEnforced` (`SuccessIsEnforced`), for any organisations, grants and sessions, with a store that lists
every organisation that owns anything (`Backend = "redb"`; Postgres lists only those with policies, section 6). `GrantInv`:
what a reload that nothing overtook has loaded so far is exactly the stored grants of the organisations it has visited
(`Exact`).
Users: `LoginAlwaysFindsOwner` (`LoginFindsOwner`), for any configuration, of a session that a stored user's password lets in
and whose name the configuration gives no organisation. `UserInv`: unless statements raced, what a statement looked up is still so
when it writes (`StillRead`), hence a name has one owner (`OneOwner`); that `find_user` finds it rests on the order in which
it goes through the organisations (`LeastExists`, from the library's well-foundedness of the numbers).
Views: `NewSessionsAlwaysSeeStored` (`NewSessionsSeeStored`) and the action property `FailedCreateIsUndone`
(`FailedCreateLeavesNothing`), for one catalog list or one per session. `ViewInv`: statements on one view are alone or have
`raced` (`Alone`), what a statement found is what the store had before its write (`Written`), and registry and store agree
wherever nobody is at work and no statement was cut off at its write (`Synced`); a write that nobody waits for any more
races every statement on its view (`LooseInv`), so `Written` need not speak of it. `ViewsStayIsolatedUnlessMissed` (`IsolatedUnlessMissed`) where each session has its own
catalog list (`Shared = FALSE`; the shared list of the distributed path is section 6): a session that has not said who it is
has views of the boot organisation only, which the registry still has or which it `missed` (`Isolated`).
Events: `AckedAlwaysEnforced` (`AckedIsEnforced`), from `FeedConstants` (the configuration is one that builds, as
`InMemoryRuleStore::new` requires). `FeedInv`: a number is an event and its copies (`Numbered`); while no late copy was applied,
everything acknowledged holds or was overridden (`AllHold`), or all of it but what the event under way speaks of, which is
then applied (`Applied`); an answer on its way says truly which, because applying an event twice is applying it once
(`EventEffect`) and a refused one would be refused again (`Refused`).
Provider cache: `WarmEntryFresh` (`FreshUnlessPutBack`), for any callers, capacity of the stream, versions, cells and faults
(`CacheBounds`). A provider reaches the warm map last, so `Clean` speaks of builds, cells and waiters too: once the last change is
applied none of them has an older one, but those of gets that straddled the evict; and `Apart` says that after the evict no
straddler shares a cell with a caller that came later, which is what evicting the in-flight cell is for.

**EdgesProofs** is about the components of Edges; the assumptions on their constants are hypotheses of the theorems
(`Timing`, `AdmissionBounds`, `StoreConstants`, `TokenAssumption`), each theorem says of a component's own specification what the property of
Edges says while that component moves, and TLC evaluates the same formulas in the run `edges` (`EdgeConstants`).
Lease: `LeaseTypeCorrect`, `LeaderKeepsLease`, `LeadershipIsBounded`, for any schedulers, clocks within the skew, and any
lease, interval and delay with a delay of at most an interval and an interval shorter than the lease. `LeaseInv` turns the story in
`ha.rs` into inequalities: nothing due is overdue (`Timely`), a payload is stamped at most a request before it arrives
(`Stamped`), an etag that matches means the payload that was read (`Etags`), a leader gives up in time (`Patience`), it
holds the lease it wrote or was robbed of it no earlier than its expiry (`Hands`), the lease is only stolen expired
(`Expired`), and what each of the two bounds needs (`Healthy`, `Vacancy`).
Admission: `SlotsNeverLeak` (`NoSlotLeaks`) from `AdmissionInv`, which makes each counter the cardinality of the set of
connections in the places that hold it (`GlobalCounted`, `IpCounted`, `UserCounted`, `GaugeCounted`, `SessionsListed`); the
set of connections need not be finite, only finitely many have arrived (`FinitelyMany`). `RateIsBounded` (`RateBounded`)
from `RateInv`: per address no pass is later than the bucket's stamp (`Behind`), what is left and what has passed since any
time fit in the burst and the refill since then (`Left`), hence every stretch is paid for (`Paid`); passes are counted once
(`Once`).
Stores: `StoresKeepTheirWord` (`StoreKeepsWord`) from `StoreInv`, for any sessions, keys and faults: the mutex covers memory
and file (`Mutex`), the temporary file is the memory (`InFile`), and outside the keys in doubt the disk is what was
committed (`OnDisk`), the memory is ahead of it by the operation under way only (`InMemory`), and the subscriber is behind by
the announcements under way only (`InView`).
Tokens: `TokensUsable` (`TokenUsable`), for any callers and lifetimes, from `TokenAssumption` (the margin is at least the
request timeout: both are 30 s in the code). A request is no older than the timeout (`Punctual`), a token on its way expires
its stated lifetime after it was sent for at the earliest (`IssuedWithin`), and so the cache's idea of the expiry is late by
at most the timeout (`NearlyRight`).

**ReadPathProofs** is about what a query reads. It begins with lemmas about `Retain`: keeping positions enumerates them in
order (`NthIsUnique`), keeping all is the identity (`RetainAll`), keeping twice is keeping both (`RetainTwice`).
Rules: `TenantsStayIsolated` (`TenantIsolation`), for any organisations, masks, filters and references, from
`ReferencesAreSequences` alone. It is a theorem of `StoreSpec`, the store by itself; PolicyPipeline starts the store by
`StoreInit` and changes it by `StoreNext` only. A step changes one list, by a replacement in place, an append or a `retain`, and
when all that it changes belongs to others, old and new list have the same rules in force for the identity, in the same
order, at other positions (`Alike`, by an order-preserving map of the positions); every choice the lookups make depends on
that order only, which is where a tie between equally ranked rules could have leaked.
`LookupsFindWhatNames` and `FiltersFoundAreDue` tie the lookups of RuleResolution to the independent reading that
PolicyPipeline's properties use (`Names`, `Due`): for a reference of one to three parts and any defaults, a mask lookup
finds nothing if and only if no mask in force names the completed reference; a denial or whitelist counts if and only if it
names the table with no more parts than the reference; the filters applied are the due ones, provided that none in force is
written with more parts than the scan. The provisos are the limits of the code that section 6 gives (row filters, denials
and whitelists complete no name).
Scans: `ScansAreExact` (`ScanExact`), for any table, filters, limit, page size, page cap and width, from `ScansAreScans` (what
a scan is; TLC evaluates it in the run `edges`). `ServiceIsSql` is the heart: for every filter that translates, the
service's value agrees with SQL's, exactly on a service that compares null as SQL does, and on when it is true on an OData 4
service if nothing is negated (`Agrees`, which is what AND and OR preserve and NOT does not). The invariant `ScanInv`: the
request is what the plan asks (`Asked`), and what was produced so far is the decoded answer up to the cursor, cut at the
limit once that was reached (`Fetching`, `Decodes`). At the end, filtering what the source did not filter, or filtering
again what it did, and cutting, is what SQL asks (`InvIsExact`, from `PushedIsSql`, `RetainTwice` and `NoFilterLost`).
Where these need an induction over data (the value of a filter, the n-th kept position), the proof takes a least
counterexample, which exists by the library's well-foundedness of the numbers (`LeastExists`).

Each inductive invariant but `ScanInv`, which speaks of sequences over all integers, was checked by TLC on the instance of its
run (the lease's on a second one too) before it was proved.

Only model-checked: every liveness property (fairness and ENABLED are outside the prover's reach); `MasksHold`, `FiltersHold`
and `ReadsAllowed`, which walk plan trees with RECURSIVE operators, as the enforcers do: what those return for every tree is
out of reach, and what they find at one node is `LookupsFindWhatNames` and `FiltersFoundAreDue`; and `FederationSound`, for the same
reason and because it is about the shapes of plans in `Queries` and not about every tree (section 6, last item). Every
other property that a passing run checks is a theorem.

## 6. Where the code and its documentation disagree

The runs `wh_gap`, `view_gap` and `store_gap` are kept as violations. The others were found the same way; each is stated as a
property of the module named, which is false under the constants or schedule given, or is a hole named by a history
variable of a property that holds.

* **Upsert in the park window** (`ingest.rs:106`, `NoLostUpdate`). `upsert_into_table` decides "first load" by
  `table_exists`, which is false while another writer has the live table parked; it then promotes its batch as the
  whole table. The comment at `ingest.rs:114` says a concurrent commit fails cleanly and loses no data.
* **Empty snapshots compare equal** (`materialize.rs:357`, `NoRevert`, a compaction, a refresh with an empty batch and an
  append). A compaction that captured `None` passes validation after a refresh emptied the table and brings the old rows
  back.
* **Readers in the park window** (`ReadersAlwaysSeeTable`, one compaction). `materialize.rs:16`: "readers see the prior
  table until the final promote"; between the two renames there is none.
* **Sweep of a parked live table** (`iceberg.rs:338`, `SweepSparesUserTable`, one compaction, one sweep). The age of a
  parked table is that of its last data commit, so an old table is swept as soon as it is parked.
* **Lost reply of a promote, retry with the token of a crash**: the hole `"lost"` of `SafeOverwrite`, and the premise of
  `Recoverable`.
* **Two schedulers serve** (`scheduler.rs:557`, `NoSplitBrain`, heartbeat 2, lease 3): the old leader steps down only at
  its next heartbeat; `SplitBrainBounded` says how long.
* **Catalogs** (LiveCatalogs): a failure between the two writes leaves half an entry (`NoHalfRegistered`);
  `set_source_config` of the redb store revives an entry that was dropped between its read and its write
  (`SetConfigNeverCreates`); a refresh whose listing failed still swaps in the file's catalogs
  (`FailedListKeepsSnapshot`); a dropped catalog that the config file declares comes back (`StoreIsTruth`); a change is
  missed for good when the receiver lags (`redb_store.rs:795`), when a peer wrote before the task subscribed, and for
  tenants after a reboot (`behind`). A boot that cannot seed the store, list it or reach a catalog warns and goes on with
  the file's catalogs or without the catalog (`server.rs:3208`, `3231`, `3310`), until the next change of that organisation;
  and a refresh task whose subscription fails, or whose stream ends, is gone until a restart (`phase = "deaf"`).
* **Provider cache**: a second build by a late caller (`BuiltOnce`, `cache.rs:17`); an evict during a get leaves the old
  provider warm (`EvictForcesRebuild`, `cache.rs:159`); a change missed while the stream was down or lagged
  (`redb_store.rs:794`, `embedded.rs:768` skip it without a word) stays unseen (`FreshAfterReconnect`, `cache.rs:12`). And
  what the server builds again is built from the config it captured at boot (`server.rs:3245`, `3257`): the evict and the
  rebuild renew the secret and the connection, not the configuration.
* **Queries**: a CancelRequest during planning leaves the query in the live view for ever (`cut` in `LiveViewExact`;
  `observer.rs:101` "Fires exactly once"); a CancelRequest awaits `manager.cancel` before it fires the slot
  (`handler.rs:374`), so a query that begins in between is the one it aborts (`overtaken` in `AbortsOnlyTheTarget`); rows of
  COPY, mixed and metadata answers that fail after `complete` leave a success in the history (`spoiled`; `copy.rs:129`,
  `handler.rs:1697`, `1960`); COPY TO STDOUT completes before its rows are sent (`CompletesWhenDrained`,
  `observer.rs:91`) and cannot be cancelled while they are (`CancelRequestStops`, `docs/compatibility.md:44`); stats that
  arrive between the two critical sections of `complete` are dropped (third disjunct of `Report`,
  `query_registry.rs:237`).
* **Rate limit** (`rate_limit.rs:160`, `RateAlwaysBounded`): tasks that lock a bucket in another order than they read the
  clock move its last refill back and are credited twice; `RateBounded` excludes it by `rewound`.
* **Shutdown**: the drain timeout cuts an attempt in the middle of its overwrite (`AttemptsComplete`,
  `materialization.rs:312`); a job may begin a refresh after the broadcast (`NoRefreshAfterBroadcast`,
  `materialization.rs:264`); an abort is not awaited (`server.rs:394`), so the poll a task is in may outlast `run`; without `RequestsEnd` a request of a sibling keeps `run` from returning
  (`server.rs:2242`); a boot that fails late leaves tasks running (`FailedBootAborts`, `server.rs:2145`).
* **Distributed queries**: a lost answer to the submission, a late id, a failed CancelJob or an exit leave the job
  running (`hit` in `NoOrphanJob`, a part of `QueryEnds`; `docs/compatibility.md:46`); without fairness of `Fetched`, `ReaderFinishes` is false:
  the consumer of a finished query waits for the metrics call, which has no timeout (`cancel_on_drop.rs:224`).
* **Policies** (`crossed` and `torn` in `LiveMatchesStore` and `StoredIsEnforced`): two names on one column: the second
  replaces the first in force, a restart may bring the other back, and a DROP of one leaves the other stored and not in
  force. Two sessions of one organisation that create one name at once: both rules in force, one stored. Both last until a
  restart and concern no other target. A failed write after the rule change leaves its target apart from the store until a
  retry or a restart.
* **Grants**: an older reload published after a newer one (`behind` in `SuccessIsEnforced`, `grant_admin.rs:18`);
  with `Backend = "postgres"` the organisations are read from `db_policy` only (`service.rs:1130`), so grants of an
  organisation without policies are never enforced.
* **Users**: two organisations that create one name at once both succeed and one of them can never log in
  (`raced` in `LoginFindsOwner`; `store.rs:382`); an ALTER that read the user before a DROP brings it back
  (`AlterGet`, then `PutUser`; `user_admin.rs:161`). CREATE USER does not look at the configuration: where that names an
  organisation for the login it wins over the stored owner's (`profile` in `LoginFindsOwner`; `server.rs:2547`); a stored
  user without a password gives its organisation to a configured identity of the same name that has none, which then logs
  in with the configured password; and a login during which the store cannot be read falls back to the configured password
  and the boot organisation.
* **CREATE OR REPLACE VIEW** (`handler.rs:1422`, run `view_gap`). The registration fails in a session that has the view
  already, and the rollback is a DROP: the view that was stored before is gone for everybody. `handler.rs:1415` says
  "`CREATE VIEW` is atomic."
* **Views** (Views): the startup swap removes what the registry holds now, so a boot-organisation view dropped between
  connect and startup stays in a tenant's session (`ViewsStayIsolated`, `missed`; `server.rs:2615` "so views stay
  tenant-isolated"); on the distributed path all sessions share the catalog list, so they see each other's views
  (`Shared = TRUE`; `server.rs:1517` against `1491`); views over views and over unreachable sources do not plan at boot,
  and a configured product hides a stored one of its name (`skipped`); DROP VIEW of a product that only the config file
  has answers "not found" and unregisters it all the same. A statement that is cancelled, or whose reply is lost, at its
  write fails although the write may still take effect (`handler.rs:374`, `redb_store.rs:255`): store and registry then differ
  until the next statement on the view or the next boot (`skipped`, `loose` in `NewSessionsSeeStored`).
* **redb bindings** (`redb_store.rs:426`, run `store_gap`, also `SetConfigNeverCreates` of LiveCatalogs): read and write are
  two transactions, so `set_source_config` brings back a binding that was deleted in between. `store.rs:300`: "A no-op if
  the name has no binding in that org."
* **Embedded store** (MetaStores, `doubt`): a change whose persist failed was reported as an error, is served from memory
  and saved by the next write of anything. A subscriber that lags gets no error and does not know to list again
  (`embedded.rs:768`).
* **Postgres**: `list_orgs` knows only organisations with a policy (`service.rs:1118`), which decides whose grants and
  views a boot loads.
* **Mask propagation** (`PropagationCurrent`; `propagation.rs:19` "recomputed whenever the enforcer is rebuilt"): the graph
  is walked once, at start-up; a mask created later does not descend, and a derived mask applies to all groups. A mask that
  the configuration itself puts on a product's column, for one group only, keeps the source's mask from descending to it for
  everybody (`MaskedByHand`; `propagation.rs:98`). Lineage has no edge through a subquery, and a product whose query does not
  plan is skipped.
* **EXPLAIN of policies** (`ExplainReportsMasks`; `mutable.rs:113`, `docs/configuration.md:510`): the published enforcer
  has no `explain` of its own and answers with the default, which is empty.
* **Policy lookups** (limits named by the properties of PolicyPipeline): the enforcers complete a name with the server's
  default catalog and schema although a connection may have set its own (`OwnDefaults`, `server.rs:2650`); row filters,
  denials, whitelists and tag rules complete no name; of two equal aliases the map keeps the last (`AliasClash`); an alias is
  resolved only directly over a table (`mask.rs:35`), so in `SELECT y.a FROM (t JOIN u ..) AS y`, and under an alias over a
  view for the rules on the view itself, column a is neither masked nor checked against the whitelist (`Renamed`), although
  `whitelist.rs:17` calls its rewrite safe by construction; a column of the enclosing query in the output of a subquery is
  not looked at (`Correlated`); tag
  policies ignore the organisation of a policy; a mask of the same table, column and organisation replaces another
  whatever its groups, though the enforcer would take both (`SameScope`), and one that differs in its groups only is taken for
  the same rule sent again and dropped (`UpsertAt`, `store.rs:385`). The comment of `mask.rs` that aggregates see the original values is not what its code does.
* **Webhook** (`late` in `AckedIsEnforced`): an event has an id that nobody remembers, so a late copy of an assignment
  brings back a removed tag; the vocabulary of tags is fixed at boot, and events do not survive a restart.
* **HTTP scans** (limits named by `ScanExact`): an integer wider than its column wraps (`as i32`, `as i16`) although
  `rest/decode.rs:13` and `odata/decode.rs:11` say an undecodable value is an error; OData filters are Exact, but OData 4
  compares null as a value, so `ne` and `not` keep rows that SQL drops; a result cut off at the page cap (16 and 10000)
  looks complete but for a WARN. A pushed equality replaces a parameter of the same name in the configured URL
  (`rest/connector.rs:475`), so the filtered scan may show rows that the plain one does not; HttpScan has no such URL. A token endpoint that states no lifetime is taken to mean one hour, and a 401 does not
  empty the cache.
* **Federated plans**: `session.rs:452` and `federation_dedup_guard.rs` guard against DataFusion 53 and say that the guard retires with
  54, which the workspace already builds with: with `Unparsers = {{}}` it refuses queries that would be right. A join leg
  whose filter is under a bare SubqueryAlias, or whose columns have two qualifiers, is left as it is by
  `barrier_for_join_leg`; what the unparser makes of it cannot be read in this repository, so such legs are not in
  `Queries`.

## 7. Plan

Done: all that section 2 lists. Left, in this order:

1. The identity registers of a connection and the group cache; the schema migration under the advisory lock; lineage
   events, whose START and COMPLETE are sent by independent tasks and may arrive swapped (`lineage.rs:555` of the server).
2. The Ballista monitor and the catalog snapshot that an executor works with.

## 8. Not modelled, and why

Half of the implementation's lines have no state of their own: `config.rs` (10 700 lines of structures, defaults and
validation of one file at boot), unit tests inside the source files, the SQL connectors (drivers, type tables, dialects),
the codec (one field after another), statement parsers, static `pg_catalog` tables, the shell and the clients. A model of
them would be a copy. Cryptography, directories, object stores, Iceberg, Ballista, DataFusion and the databases are
external: each call is one step with the failures the code handles. Logging, metrics values and endpoint formatting are
left out, as is what a mask computes (`mask_kinds.rs`) and the audit record. In Lineage the grouping keys of an aggregate are plain columns (a
computed key is a transformation in the code and would have to be told from an aggregate). Durations are abstracted to "the timer fires",
except in SchedulerLease, TokenCache and the token bucket, where the arithmetic is the point. Liveness under fairness and
every module with a RECURSIVE operator (Lineage and what extends it, FederatedPlan) are outside the prover's
reach and only model-checked. `PROJECT.json` lists every part with its status.
