------------------------------- MODULE Views -------------------------------
(***************************************************************************)
(* Derived products as views: CREATE [OR REPLACE] VIEW and DROP VIEW       *)
(* (apply_view_ddl of dataglot-pgwire, StoreViewAdmin of dataglot-server). *)
(*                                                                         *)
(* A view lives in three places: the meta store, the registry per          *)
(* organisation that new sessions are filled from, and the tables of each  *)
(* session.  A statement awaits the store between its steps, and nothing   *)
(* is locked across an await.  A connection is filled with the views of    *)
(* the boot organisation and swaps them for its own once its startup       *)
(* message has said who it is.                                             *)
(*                                                                         *)
(* A body is the source it selects from, or stands for a query over other  *)
(* views, which a session that has those can plan.                         *)
(***************************************************************************)
EXTENDS Naturals

CONSTANTS
    Orgs,
    BootOrg,
    Names,       \* view names
    Sources,     \* bodies over a catalog
    OverViews,   \* bodies over other views
    ReadOnly,    \* the names whose schema takes no table
    Configured,  \* name -> body of the config file's live products, or None
    Sessions,
    Shared,      \* sessions share one catalog list (the distributed path)
    Backend,     \* the meta store: "redb", "file" or "postgres"
    Faults,      \* what may fail or be cancelled: "get", "put", "delete", "crash"
    MaxStatements,  \* bound: statements begun
    None

Bodies == Sources \cup OverViews

ViewConstants ==
    /\ BootOrg \in Orgs
    /\ Sources \cap OverViews = {}
    /\ ReadOnly \subseteq Names
    /\ Configured \in [Names -> Bodies \cup {None}]
    /\ Shared \in BOOLEAN
    /\ Backend \in {"redb", "file", "postgres"}
    /\ None \notin Orgs \cup Bodies

VARIABLES
    stored,     \* organisation, name -> stored body
    live,       \* organisation, name -> body in the registry
    tables,     \* session, name -> the view the session resolves: [org, body]
    org,        \* session -> organisation, None before its startup message
    pc,         \* session -> where it is
    begun,      \* statements begun so far
    stmt,       \* session -> its statement, with what it found in the store
    loose,      \* the writes on their way whose statement has ended
    skipped,    \* history: the views the registry was not given as they are
                \* stored, by the last boot or by a statement cut off
    raced,      \* history: the views two statements worked on at once
    missed      \* history: the sessions that connected before a view of the
                \* boot organisation was dropped and started after it
vars == <<stored, live, tables, org, pc, begun, stmt, loose, skipped, raced, missed>>
history == <<skipped, raced, missed>>

NoViews == [n \in Names |-> None]
Statements ==
    [op : {"create", "replace"}, name : Names, body : Bodies, found : {None}]
        \cup [op : {"drop"}, name : Names, body : {None}, found : {None}]

Init ==
    /\ stored = [o \in Orgs |-> NoViews]
    /\ live = [o \in Orgs |-> IF o = BootOrg
                                 THEN [n \in Names |-> IF Configured[n] \in Sources THEN Configured[n] ELSE None]
                                 ELSE NoViews]
    /\ tables = [s \in Sessions |-> NoViews]
    /\ org = [s \in Sessions |-> None]
    /\ pc = [s \in Sessions |-> "closed"]
    /\ begun = 0
    /\ stmt = [s \in Sessions |-> None]
    /\ loose = {}
    /\ skipped = {<<BootOrg, n>> : n \in {n \in Names : Configured[n] # None}}
    /\ raced = {} /\ missed = {}

-----------------------------------------------------------------------------
(* Sessions and their tables.                                              *)

\* What session s resolves becomes f; with a shared catalog list, for all.
SetTables(s, f) ==
    tables' = IF Shared THEN [t \in Sessions |-> f] ELSE [tables EXCEPT ![s] = f]

\* register_org_views: an organisation's views beside what is there already.
WithViews(f, o) ==
    [n \in Names |-> IF f[n] = None /\ live[o][n] # None /\ n \notin ReadOnly
                        THEN [org |-> o, body |-> live[o][n]] ELSE f[n]]

\* Mutant: the boot organisation's views stay beside the resolved one's.
WithoutBootViews_Kept(f) == f
\* The startup observer takes out the views the boot organisation has now.
WithoutBootViews(f) == [n \in Names |-> IF live[BootOrg][n] # None THEN None ELSE f[n]]

\* create_session.
Connect(s) ==
    /\ pc[s] = "closed"
    /\ SetTables(s, WithViews(IF Shared THEN tables[s] ELSE NoViews, BootOrg))
    /\ pc' = [pc EXCEPT ![s] = "starting"]
    /\ missed' = missed \ {s}
    /\ UNCHANGED <<begun, stored, live, org, stmt, loose, skipped, raced>>

Startup(s, o) ==
    /\ pc[s] = "starting"
    /\ org' = [org EXCEPT ![s] = o]
    /\ IF o = BootOrg THEN UNCHANGED tables
       ELSE SetTables(s, WithViews(WithoutBootViews(tables[s]), o))
    /\ pc' = [pc EXCEPT ![s] = "idle"]
    /\ UNCHANGED <<begun, stored, live, stmt, loose, history>>

\* A session ends between two statements: a connection that closes during one
\* is noticed when it has ended, at its end or where a cancel request drops it.
Disconnect(s) ==
    /\ pc[s] \in {"starting", "idle"}
    /\ pc' = [pc EXCEPT ![s] = "closed"]
    /\ org' = [org EXCEPT ![s] = None]
    /\ IF Shared THEN UNCHANGED tables ELSE tables' = [tables EXCEPT ![s] = NoViews]
    /\ UNCHANGED <<begun, stored, live, stmt, loose, history>>

-----------------------------------------------------------------------------
(* Statements.                                                             *)

Goes(s, at) == pc' = [pc EXCEPT ![s] = at] /\ UNCHANGED stmt
Ends(s) ==
    /\ pc' = [pc EXCEPT ![s] = "idle"]
    /\ stmt' = [stmt EXCEPT ![s] = None]
At(s) == stored[org[s]][stmt[s].name]
Store(s, body) == stored' = [stored EXCEPT ![org[s]][stmt[s].name] = body]
SetLive(s, body) == live' = [live EXCEPT ![org[s]][stmt[s].name] = body]
Busy(t) == pc[t] \notin {"closed", "starting", "idle"}

\* A body that the session cannot plan ends the statement before this.
Begin(s) ==
    /\ pc[s] = "idle" /\ begun < MaxStatements
    /\ begun' = begun + 1
    /\ \E st \in Statements :
          /\ stmt' = [stmt EXCEPT ![s] = st]
          /\ raced' = IF \/ \E t \in Sessions \ {s} : Busy(t) /\ org[t] = org[s] /\ stmt[t].name = st.name
                         \/ \E w \in loose : w.org = org[s] /\ w.name = st.name
                         THEN raced \cup {<<org[s], st.name>>} ELSE raced
    /\ pc' = [pc EXCEPT ![s] = "get"]
    /\ UNCHANGED <<stored, live, tables, org, loose, skipped, missed>>

\* get_derived_product: CREATE wants the name free; DROP deletes in any case.
Get(s) ==
    /\ pc[s] = "get"
    /\ IF stmt[s].op = "create" /\ At(s) # None THEN Ends(s)
       ELSE /\ pc' = [pc EXCEPT ![s] = IF stmt[s].op = "drop" THEN "delete" ELSE "put"]
            /\ stmt' = [stmt EXCEPT ![s].found = At(s)]
    /\ UNCHANGED <<begun, stored, live, tables, org, loose, history>>

PutDerivedProduct(s) ==
    /\ pc[s] = "put"
    /\ Store(s, stmt[s].body)
    /\ Goes(s, "register")
    /\ UNCHANGED <<begun, live, tables, org, loose, history>>

\* The write the statement asks the store for, where it is.
Asked(s) == [org |-> org[s], name |-> stmt[s].name, body |-> IF pc[s] = "put" THEN stmt[s].body ELSE None]

\* The store fails the read, the write, or the delete of a DROP or rollback, or
\* a cancel request drops the statement at its await.  The write is not made,
\* or it is and only the answer is lost: redb's blocking task commits with
\* nobody waiting for it, and so does a database whose reply never arrives.
StoreFails(s) ==
    /\ pc[s] \in {"get", "put", "delete"} \cap Faults
    /\ Ends(s)
    /\ \/ UNCHANGED loose
       \/ pc[s] # "get" /\ loose' = loose \cup {Asked(s)}
    /\ UNCHANGED <<begun, stored, live, tables, org, history>>

\* A write nobody waits for is made.
Land(w) ==
    /\ stored' = [stored EXCEPT ![w.org][w.name] = w.body]
    /\ loose' = loose \ {w}
    /\ skipped' = skipped \cup {<<w.org, w.name>>}
    /\ UNCHANGED <<begun, live, tables, org, pc, stmt, raced, missed>>

\* register_live, then the session's own register_table: a table that is
\* there already, or a schema that takes none, is an error.
Registers(s) == stmt[s].name \notin ReadOnly /\ tables[s][stmt[s].name] = None

\* Mutant: the failed registration is reported and the view stays.
OnRegisterError_Leaves(s) == Ends(s)
\* The rollback: DROP VIEW IF EXISTS, whose outcome is discarded, and so is
\* what it finds before it deletes.
OnRegisterError(s) == Goes(s, "delete")

Register(s) ==
    /\ pc[s] = "register"
    /\ SetLive(s, stmt[s].body)
    /\ skipped' = skipped \ {<<org[s], stmt[s].name>>}
    /\ IF Registers(s)
          THEN /\ SetTables(s, [tables[s] EXCEPT ![stmt[s].name] = [org |-> org[s], body |-> stmt[s].body]])
               /\ Ends(s)
          ELSE UNCHANGED tables /\ OnRegisterError(s)
    /\ UNCHANGED <<begun, stored, org, loose, raced, missed>>

DeleteDerivedProduct(s) ==
    /\ pc[s] = "delete"
    /\ Store(s, None)
    /\ Goes(s, "unregister")
    /\ UNCHANGED <<begun, live, tables, org, loose, history>>

\* unregister_live, whether or not the store had the view; a DROP that
\* found it also takes it out of its own session (one that did not only
\* reports it, and a rollback leaves the session alone).
Unregister(s) ==
    /\ pc[s] = "unregister"
    /\ SetLive(s, None)
    /\ skipped' = skipped \ {<<org[s], stmt[s].name>>}
    /\ IF stmt[s].op = "drop" /\ stmt[s].found # None
          THEN SetTables(s, [tables[s] EXCEPT ![stmt[s].name] = None])
          ELSE UNCHANGED tables
    /\ Ends(s)
    /\ missed' = IF org[s] = BootOrg /\ live[BootOrg][stmt[s].name] # None
                    THEN missed \cup {t \in Sessions : pc[t] = "starting"} ELSE missed
    /\ UNCHANGED <<begun, stored, org, loose, raced>>

-----------------------------------------------------------------------------
(* Restart.                                                                *)

\* build_derived_product_view: planned with the catalogs alone, so a body
\* over another view does not plan, nor one over a source that is down.
PlansAtBoot(body, down) == body \in Sources \ down

\* list_orgs: the Postgres service knows an organisation by its masks and row
\* filters, the other stores by anything it has.
ListedAtBoot == IF Backend = "postgres" THEN SUBSET Orgs ELSE {Orgs}

\* Mutant: the stored products are not read again.
BootViews_ConfigOnly(o, down, listed) ==
    [n \in Names |-> IF o = BootOrg /\ PlansAtBoot(Configured[n], down) THEN Configured[n] ELSE None]
\* load_persisted_derived_products, then the config file's products over them.
BootViews(o, down, listed) ==
    [n \in Names |->
        IF o = BootOrg /\ PlansAtBoot(Configured[n], down) THEN Configured[n]
        ELSE IF o \in listed /\ PlansAtBoot(stored[o][n], down) THEN stored[o][n] ELSE None]

\* The process stops, at any moment, and boots again; a write on its way was
\* made before that or never will be.
Restart(down, listed) ==
    /\ "crash" \in Faults
    /\ live' = [o \in Orgs |-> BootViews(o, down, listed)]
    /\ tables' = [s \in Sessions |-> NoViews]
    /\ org' = [s \in Sessions |-> None]
    /\ pc' = [s \in Sessions |-> "closed"]
    /\ stmt' = [s \in Sessions |-> None]
    /\ skipped' = {v \in Orgs \X Names :
                       \/ v[1] = BootOrg /\ Configured[v[2]] # None
                       \/ stored[v[1]][v[2]] \in OverViews \cup down
                       \/ stored[v[1]][v[2]] # None /\ v[1] \notin listed}
    /\ loose' = {} /\ raced' = {} /\ missed' = {}
    /\ UNCHANGED <<begun, stored>>

Next ==
    \/ \E s \in Sessions :
          \/ Connect(s) \/ (\E o \in Orgs : Startup(s, o)) \/ Disconnect(s)
          \/ Begin(s) \/ Get(s) \/ PutDerivedProduct(s) \/ StoreFails(s) \/ Register(s)
          \/ DeleteDerivedProduct(s) \/ Unregister(s)
    \/ \E w \in loose : Land(w)
    \/ \E down \in SUBSET Sources, listed \in ListedAtBoot : Restart(down, listed)

Spec == Init /\ [][Next]_vars

-----------------------------------------------------------------------------
(* Properties.                                                             *)

\* A session that has said who it is resolves only views of its own
\* organisation, and only ones that organisation created or configured
\* (the swap at startup: "so views stay tenant-isolated").
ViewsStayIsolated ==
    \A s \in Sessions, n \in Names : org[s] # None /\ tables[s][n] # None => tables[s][n].org = org[s]

\* The same, but for a session that connected before a view of the boot
\* organisation was dropped: the swap takes out what the registry has at
\* the time of the startup message, and the dropped view is no longer in it.
IsolatedUnlessMissed ==
    \A s \in Sessions, n \in Names :
        s \notin missed /\ org[s] # None /\ tables[s][n] # None => tables[s][n].org = org[s]

\* A statement that ends without its view in the session, and which no other
\* statement on the view overlapped; one cut off at a call to the store, the
\* rollback's delete included, is not meant.
FailsAlone(s) ==
    /\ pc[s] \in {"register", "unregister"} /\ pc'[s] = "idle"
    /\ ~(pc[s] = "register" /\ Registers(s))
    /\ <<org[s], stmt[s].name>> \notin raced

\* "CREATE VIEW is atomic": one that fails, OR REPLACE or not, leaves the
\* stored view it found.
CreateViewAtomic ==
    [][\A s \in Sessions :
          FailsAlone(s) /\ stmt[s].op # "drop" => stored'[org[s]][stmt[s].name] = stmt[s].found]_vars

\* The same without OR REPLACE: a CREATE VIEW whose registration in the
\* session fails is undone, so no view is left behind that every later
\* session would fail to register.
FailedCreateStep ==
    \A s \in Sessions :
        FailsAlone(s) /\ stmt[s].op = "create" => stored'[org[s]][stmt[s].name] = stmt[s].found
FailedCreateLeavesNothing == [][FailedCreateStep]_vars

\* Between statements a new session is filled with exactly the stored views
\* of its organisation, also after a restart; but not those that the last
\* boot could not plan, found in the config file or had no organisation
\* listed for, nor one that two statements worked on at once, nor, until the
\* next statement on the view or the next boot, one that a statement wrote
\* whose call to the store failed or was cancelled.
NewSessionsSeeStored ==
    \A o \in Orgs, n \in Names :
        \/ live[o][n] = stored[o][n]
        \/ <<o, n>> \in skipped \cup raced
        \/ \E s \in Sessions : Busy(s) /\ org[s] = o /\ stmt[s].name = n
=============================================================================
