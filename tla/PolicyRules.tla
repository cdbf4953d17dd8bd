---------------------------- MODULE PolicyRules ----------------------------
(***************************************************************************)
(* CREATE / DROP MASK and CREATE / DROP ROW FILTER: StorePolicyAdmin       *)
(* (dataglot-server, policy_admin.rs) puts a policy into the live rule     *)
(* store of the process (dataglot-policy, store.rs) and into the meta      *)
(* store, and load_persisted_policies (server.rs) replays the meta store   *)
(* into an empty rule store at boot.                                       *)
(*                                                                         *)
(* A worker is a session of one organisation.  It awaits the meta store    *)
(* twice per statement, to look the name up and to persist, and applies    *)
(* the rule change under the rule store's lock in between, so each of the  *)
(* three is a step.  The names are numbers because the replay is in the    *)
(* order of the names.  A target is what identifies a live rule: a (table, *)
(* column) of a mask, a table of a row filter.  IF [NOT] EXISTS only       *)
(* chooses between NoOp and an error, so a statement just ends there.  A   *)
(* cancel of the query drops the statement at an await, as a failed call   *)
(* of the meta store ends it.  A write that fails may have taken effect.   *)
(***************************************************************************)
EXTENDS Naturals, FiniteSetsExt

CONSTANTS
    Orgs, Workers,
    OrgOf,           \* the organisation of a worker's session
    Names,           \* policy names, in their sort order
    Masks, Filters,  \* targets of the two kinds
    Bodies,          \* what a rule does to its target
    Bad,             \* the bodies the config-to-enforcer path or the enforcer rejects
    Declared,        \* the policies the sessions of an organisation declare
    Faults,          \* what may fail
    None

Targets == Masks \cup Filters
Kinds == {"mask", "row_filter"}
KindOf(t) == IF t \in Masks THEN "mask" ELSE "row_filter"

ASSUME PolicyConstants ==
    /\ OrgOf \in [Workers -> Orgs]
    /\ Names \subseteq Nat
    /\ \A S \in SUBSET Names : S # {} => \E n \in S : \A m \in S : n >= m   \* finitely many
    /\ Masks \cap Filters = {}
    /\ Bad \subseteq Bodies
    /\ Declared \subseteq [org : Orgs, name : Names, target : Targets, body : Bodies]
    /\ Faults \subseteq {"get", "put", "delete", "crash"}
    /\ None \notin Targets \cup Bodies

VARIABLES
    up,     \* the server has booted
    pc,     \* where a worker's statement is
    stmt,   \* the statement; a DROP learns its target from the meta store
    live,   \* the rule store: the body in force per organisation and target
    store,  \* the meta store: the policy per organisation and name
    torn,   \* history: the operation whose write to the meta store failed after
            \* its rule change, for want of a later statement that succeeded
    crossed \* history: the targets on which, since the boot, two statements
            \* worked at the same time, or one worked while another name was
            \* stored with that target

vars == <<up, pc, stmt, live, store, torn, crossed>>

Statements ==
    [op : {"create", "drop"}, kind : Kinds, name : Names,
     target : Targets \cup {None}, body : Bodies \cup {None}]
Policies == [target : Targets, body : Bodies]
NoPolicy == [target |-> None, body |-> None]

\* A statement that knows its target, as a CREATE does from the start and a
\* DROP once it has read the meta store, is about a target of its kind.
HasItsKind(w) ==
    stmt[w].op = "create" \/ pc[w] \in {"enforce", "persist"} =>
        /\ stmt[w].target \in Targets
        /\ KindOf(stmt[w].target) = stmt[w].kind
        /\ stmt[w].op = "create" => stmt[w].body \in Bodies

\* The type of every variable.  get_of_kind gives a DROP MASK nothing but a
\* mask, and a DROP ROW FILTER nothing but a row filter.
TypeOK ==
    /\ up \in BOOLEAN
    /\ pc \in [Workers -> {"idle", "read", "enforce", "persist"}]
    /\ stmt \in [Workers -> Statements \cup {None}]
    /\ \A w \in Workers : pc[w] # "idle" => stmt[w] \in Statements /\ HasItsKind(w)
    /\ live \in [Orgs -> [Targets -> Bodies \cup {None}]]
    /\ store \in [Orgs -> [Names -> Policies \cup {NoPolicy}]]
    /\ torn \in [Orgs -> [Targets -> {"no", "create", "drop"}]]
    /\ crossed \subseteq Orgs \X Targets

Init ==
    /\ up = TRUE
    /\ pc = [w \in Workers |-> "idle"]
    /\ stmt = [w \in Workers |-> None]
    /\ live = [o \in Orgs |-> [t \in Targets |-> None]]
    /\ store = [o \in Orgs |-> [n \in Names |-> NoPolicy]]
    /\ torn = [o \in Orgs |-> [t \in Targets |-> "no"]]
    /\ crossed = {}

Stored(o, n) == store[o][n] # NoPolicy
Found(w) == store[OrgOf[w]][stmt[w].name]

\* The policies that declare a target.  The replay upserts them in the order
\* of their names: the last one stays in force.
On(o, t) == {n \in Names : store[o][n].target = t}
Replayed(o, t) == IF On(o, t) = {} THEN None ELSE store[o][Max(On(o, t))].body

-----------------------------------------------------------------------------
(* A statement arrives.                                                    *)

Arrives(w, s) ==
    /\ up /\ pc[w] = "idle"
    /\ pc' = [pc EXCEPT ![w] = "read"]
    /\ stmt' = [stmt EXCEPT ![w] = s]
    /\ UNCHANGED <<up, live, store, torn, crossed>>

Create(w) ==
    \E d \in Declared :
        /\ d.org = OrgOf[w]
        /\ Arrives(w, [op |-> "create", kind |-> KindOf(d.target), name |-> d.name,
                       target |-> d.target, body |-> d.body])

Drop(w) ==
    \E d \in Declared :
        /\ d.org = OrgOf[w]
        /\ Arrives(w, [op |-> "drop", kind |-> KindOf(d.target), name |-> d.name,
                       target |-> None, body |-> None])

Returns(w) ==
    /\ pc' = [pc EXCEPT ![w] = "idle"]
    /\ stmt' = [stmt EXCEPT ![w] = None]

\* A statement that fails or does nothing returns to the client.
Ends(w) == Returns(w) /\ UNCHANGED <<up, live, store, torn, crossed>>

-----------------------------------------------------------------------------
(* The meta store is read.                                                 *)

ReadFails(w) == pc[w] = "read" /\ "get" \in Faults /\ Ends(w)

\* The statements of the organisation that have read the meta store and not
\* yet written it, on the name or on the target of this one.
Rivals(w, t) ==
    {v \in Workers \ {w} :
        /\ OrgOf[v] = OrgOf[w] /\ pc[v] \in {"enforce", "persist"}
        /\ stmt[v].name = stmt[w].name \/ stmt[v].target = t}

Alone(w, t) == Rivals(w, t) = {} /\ On(OrgOf[w], t) \subseteq {stmt[w].name}

Cross(w, t) ==
    crossed' = crossed \cup {<<OrgOf[w], stmt[v].target>> : v \in Rivals(w, t)}
                       \cup (IF Alone(w, t) THEN {} ELSE {<<OrgOf[w], t>>})

Taken_SameRule(w) ==   \* mutant: a name is taken only by the same rule
    Found(w) = [target |-> stmt[w].target, body |-> stmt[w].body]
Taken(w) == Stored(OrgOf[w], stmt[w].name)

NameTaken(w) ==
    /\ pc[w] = "read" /\ stmt[w].op = "create"
    /\ Taken(w)
    /\ Ends(w)

NameFree(w) ==
    /\ pc[w] = "read" /\ stmt[w].op = "create"
    /\ ~Taken(w)
    /\ pc' = [pc EXCEPT ![w] = "enforce"]
    /\ Cross(w, stmt[w].target)
    /\ UNCHANGED <<up, stmt, live, store, torn>>

GetOfKind(w) == Stored(OrgOf[w], stmt[w].name) /\ KindOf(Found(w).target) = stmt[w].kind

DropAbsent(w) ==
    /\ pc[w] = "read" /\ stmt[w].op = "drop"
    /\ ~GetOfKind(w)
    /\ Ends(w)

DropFound(w) ==
    /\ pc[w] = "read" /\ stmt[w].op = "drop"
    /\ GetOfKind(w)
    /\ stmt' = [stmt EXCEPT ![w].target = Found(w).target]
    /\ pc' = [pc EXCEPT ![w] = "enforce"]
    /\ Cross(w, Found(w).target)
    /\ UNCHANGED <<up, live, store, torn>>

-----------------------------------------------------------------------------
(* The rule change is applied to the live rules.                           *)

Rejected_Persists(w) ==   \* mutant: the statement goes on to persist
    /\ pc[w] = "enforce" /\ stmt[w].op = "create" /\ stmt[w].body \in Bad
    /\ pc' = [pc EXCEPT ![w] = "persist"]
    /\ UNCHANGED <<up, stmt, live, store, torn, crossed>>

\* mask_config, build_*_rules or the recomposed enforcer refuses the rule;
\* apply rolls its storage back.
Rejected(w) ==
    /\ pc[w] = "enforce" /\ stmt[w].op = "create" /\ stmt[w].body \in Bad
    /\ Ends(w)

Upserted(w) == [live EXCEPT ![OrgOf[w]][stmt[w].target] = stmt[w].body]
Removed_AnyOrg(w) == [o \in Orgs |-> [live[o] EXCEPT ![stmt[w].target] = None]]   \* mutant: org is not compared
Removed(w) == [live EXCEPT ![OrgOf[w]][stmt[w].target] = None]

Enforced(w) ==
    /\ pc[w] = "enforce"
    /\ \/ stmt[w].op = "create" /\ stmt[w].body \notin Bad /\ live' = Upserted(w)
       \/ stmt[w].op = "drop" /\ live' = Removed(w)
    /\ pc' = [pc EXCEPT ![w] = "persist"]
    /\ UNCHANGED <<up, stmt, store, torn, crossed>>

-----------------------------------------------------------------------------
(* The meta store is written.                                              *)

Tear(w, how) == torn' = [torn EXCEPT ![OrgOf[w]][stmt[w].target] = how]

PutPolicy(w) ==
    /\ pc[w] = "persist" /\ stmt[w].op = "create"
    /\ store' = [store EXCEPT ![OrgOf[w]][stmt[w].name] =
                    [target |-> stmt[w].target, body |-> stmt[w].body]]

DeletePolicy(w) ==
    /\ pc[w] = "persist" /\ stmt[w].op = "drop"
    /\ store' = [store EXCEPT ![OrgOf[w]][stmt[w].name] = NoPolicy]

Persisted(w) ==
    /\ PutPolicy(w) \/ DeletePolicy(w)
    /\ Returns(w) /\ Tear(w, "no")
    /\ UNCHANGED <<up, live, crossed>>

\* The call fails, or its reply is lost: the write may have taken effect.
PersistFails(w) ==
    /\ pc[w] = "persist"
    /\ \/ stmt[w].op = "create" /\ "put" \in Faults
       \/ stmt[w].op = "drop" /\ "delete" \in Faults
    /\ PutPolicy(w) \/ DeletePolicy(w) \/ UNCHANGED store
    /\ Returns(w) /\ Tear(w, stmt[w].op)
    /\ UNCHANGED <<up, live, crossed>>

-----------------------------------------------------------------------------
(* The process stops at any point and starts again.                        *)

Crash ==
    /\ up /\ "crash" \in Faults
    /\ up' = FALSE
    /\ pc' = [w \in Workers |-> "idle"]
    /\ stmt' = [w \in Workers |-> None]
    /\ live' = [o \in Orgs |-> [t \in Targets |-> None]]
    /\ torn' = [o \in Orgs |-> [t \in Targets |-> "no"]]
    /\ crossed' = {}
    /\ UNCHANGED store

\* A stored policy the enforcer would reject fails the boot: see CanBoot.
Boot ==
    /\ ~up
    /\ \A o \in Orgs, n \in Names : store[o][n].body \notin Bad
    /\ up' = TRUE
    /\ live' = [o \in Orgs |-> [t \in Targets |-> Replayed(o, t)]]
    /\ UNCHANGED <<pc, stmt, store, torn, crossed>>

Step(w) ==
    \/ Create(w) \/ Drop(w)
    \/ ReadFails(w) \/ NameTaken(w) \/ NameFree(w) \/ DropAbsent(w) \/ DropFound(w)
    \/ Rejected(w) \/ Enforced(w)
    \/ Persisted(w) \/ PersistFails(w)

Next == (\E w \in Workers : Step(w)) \/ Crash \/ Boot

Spec == Init /\ [][Next]_vars

-----------------------------------------------------------------------------
(* Properties.                                                             *)

Quiet(o) == \A w \in Workers : OrgOf[w] = o => pc[w] = "idle"

\* Whenever no statement of an organisation is under way, the rule in force
\* on each of its targets is the one a restart would put in force, with two
\* exceptions.  One is a target where the meta store failed a write after the
\* rule change and nothing has succeeded since.  The other is a target that
\* has been crossed since the boot: two statements of the organisation were
\* past their read of the meta store at once with the same name or target, or
\* one was while another name was stored with its target.  So no crash,
\* refused rule, cancel or failed read lets StorePolicyAdmin's two halves
\* drift apart, a failed write disturbs only its own target and a retry heals
\* it, statements that cross disturb no target but their own, a restart heals
\* those, and no other organisation's DROP takes a rule away.
LiveMatchesStore ==
    up => \A o \in Orgs, t \in Targets :
        Quiet(o) /\ torn[o][t] = "no" /\ <<o, t>> \notin crossed =>
            live[o][t] = Replayed(o, t)

\* A CREATE that fails to persist only ever enforces more than is stored:
\* whenever no statement of an organisation is under way, the last of the
\* names stored with a target has its policy in force, unless a DROP on the
\* target failed to persist or the target has been crossed since the boot.
StoredIsEnforced ==
    up => \A o \in Orgs, n \in Names :
        LET t == store[o][n].target
        IN  /\ Quiet(o) /\ Stored(o, n) /\ n = Max(On(o, t))
            /\ torn[o][t] # "drop" /\ <<o, t>> \notin crossed
            => live[o][t] = store[o][n].body

\* Every stored policy is one the enforcer accepts, so
\* load_persisted_policies never fails a boot: a rejected CREATE persists
\* nothing, whenever the process crashes.
CanBoot == \A o \in Orgs, n \in Names : store[o][n].body \notin Bad
=============================================================================
