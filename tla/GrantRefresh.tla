---------------------------- MODULE GrantRefresh ----------------------------
(***************************************************************************)
(* GRANT and REVOKE in grant mode: StoreGrantAdmin (dataglot-server,       *)
(* grant_admin.rs) changes the meta store, reloads the grants of every     *)
(* organisation (load_all_grants, server.rs) and publishes them to the     *)
(* live GrantEnforcer (dataglot-policy, grant.rs), which the next query of *)
(* every session reads.                                                    *)
(*                                                                         *)
(* A statement awaits the store for its write, for the list of             *)
(* organisations and once per organisation, so other statements come in    *)
(* between; nothing is locked.  The list of organisations depends on the   *)
(* backend: redb lists those that own any object, Postgres those that have *)
(* a stored policy.                                                        *)
(***************************************************************************)
EXTENDS Naturals, FiniteSetsExt

CONSTANTS
    Orgs,     \* organisations, in their sort order
    Grants,   \* (grantee, privilege, object) tuples
    Workers,  \* sessions that administer grants
    Backend,  \* "redb" or "postgres"
    Faults,   \* what may fail
    None

GrantConstants ==
    /\ Orgs \subseteq Nat
    /\ Backend \in {"redb", "postgres"}
    /\ Faults \subseteq {"write", "read", "crash"}

VARIABLES
    up,        \* the server has booted
    grants,    \* the stored grants
    policied,  \* the organisations with a stored mask or row filter
    live,      \* the published grants
    pc,        \* where a worker's statement is
    stmt,      \* the statement
    left,      \* organisations whose grants the worker has still to list
    loaded,    \* the grants it has listed
    result,    \* how the worker's last statement ended
    stale,     \* history: the reloads during which another statement wrote
    behind     \* history: the published grants come from such a reload

vars == <<up, grants, policied, live, pc, stmt, left, loaded, result, stale, behind>>
history == <<stale, behind>>

OrgGrants == Orgs \X Grants
Statements == [op : {"grant", "revoke", "member"}, grant : OrgGrants]

\* The type of every variable; a statement lists each organisation once, so
\* what it has listed is of organisations it has no longer to list.
TypeOK ==
    /\ up \in BOOLEAN
    /\ grants \subseteq OrgGrants /\ live \subseteq OrgGrants
    /\ policied \subseteq Orgs
    /\ pc \in [Workers -> {"idle", "write", "orgs", "load"}]
    /\ \A w \in Workers : pc[w] # "idle" => stmt[w] \in Statements
    /\ left \in [Workers -> SUBSET Orgs]
    /\ loaded \in [Workers -> SUBSET OrgGrants]
    /\ \A w \in Workers, g \in OrgGrants : g \in loaded[w] => g[1] \notin left[w]
    /\ result \in [Workers -> {"none", "ok", "error"}]
    /\ stale \subseteq Workers /\ behind \in BOOLEAN

Init ==
    /\ up = TRUE
    /\ grants = {} /\ live = {} /\ policied = {}
    /\ pc = [w \in Workers |-> "idle"]
    /\ stmt = [w \in Workers |-> None]
    /\ left = [w \in Workers |-> {}]
    /\ loaded = [w \in Workers |-> {}]
    /\ result = [w \in Workers |-> "none"]
    /\ stale = {} /\ behind = FALSE

ListOrgs ==
    IF Backend = "postgres" THEN policied ELSE policied \cup {g[1] : g \in grants}

OfOrg(o) == {g \in grants : g[1] = o}

-----------------------------------------------------------------------------
(* A statement: persist, reload, publish.                                  *)

Apply(w) ==
    /\ up /\ pc[w] = "idle"
    /\ \E s \in Statements : stmt' = [stmt EXCEPT ![w] = s]
    /\ pc' = [pc EXCEPT ![w] = "write"]
    /\ result' = [result EXCEPT ![w] = "none"]
    /\ UNCHANGED <<up, grants, policied, live, left, loaded, behind, stale>>

\* put_grant is idempotent and revoking what is absent is not an error; a
\* role membership is no grant, but reloads them all the same.
Write(w) ==
    /\ pc[w] = "write"
    /\ \/ stmt[w].op = "grant" /\ grants' = grants \cup {stmt[w].grant}
       \/ stmt[w].op = "revoke" /\ grants' = grants \ {stmt[w].grant}
       \/ stmt[w].op = "member" /\ grants' = grants
    /\ pc' = [pc EXCEPT ![w] = "orgs"]
    /\ stale' = IF grants' = grants THEN stale
                ELSE stale \cup {v \in Workers : pc[v] = "load"}
    /\ UNCHANGED <<up, policied, live, stmt, left, loaded, result, behind>>

Fails(w) ==
    /\ pc' = [pc EXCEPT ![w] = "idle"]
    /\ result' = [result EXCEPT ![w] = "error"]
    /\ left' = [left EXCEPT ![w] = {}]
    /\ loaded' = [loaded EXCEPT ![w] = {}]
    /\ stale' = stale \ {w}
    /\ UNCHANGED <<up, grants, policied, live, stmt, behind>>

WriteFails(w) == pc[w] = "write" /\ "write" \in Faults /\ Fails(w)

RefreshOrgs(w) ==
    /\ pc[w] = "orgs"
    /\ left' = [left EXCEPT ![w] = ListOrgs]
    /\ pc' = [pc EXCEPT ![w] = "load"]
    /\ stale' = stale \ {w}
    /\ UNCHANGED <<up, grants, policied, live, stmt, loaded, result, behind>>

RefreshOrg(w) ==
    /\ pc[w] = "load" /\ left[w] # {}
    /\ LET o == Min(left[w])
       IN  /\ loaded' = [loaded EXCEPT ![w] = @ \cup OfOrg(o)]
           /\ left' = [left EXCEPT ![w] = @ \ {o}]
    /\ UNCHANGED <<up, grants, policied, live, pc, stmt, result, history>>

\* A failed reload ends the statement before publish.
OnReloadError_Swallowed(w) ==   \* mutant: the persisted change counts as success
    /\ pc' = [pc EXCEPT ![w] = "idle"]
    /\ result' = [result EXCEPT ![w] = "ok"]
    /\ left' = [left EXCEPT ![w] = {}]
    /\ loaded' = [loaded EXCEPT ![w] = {}]
    /\ stale' = stale \ {w}
    /\ UNCHANGED <<up, grants, policied, live, stmt, behind>>
OnReloadError(w) == Fails(w)

RefreshFails(w) == pc[w] \in {"orgs", "load"} /\ "read" \in Faults /\ OnReloadError(w)

Publish(w) ==
    /\ pc[w] = "load" /\ left[w] = {}
    /\ live' = loaded[w]
    /\ loaded' = [loaded EXCEPT ![w] = {}]
    /\ result' = [result EXCEPT ![w] = "ok"]
    /\ pc' = [pc EXCEPT ![w] = "idle"]
    /\ behind' = (w \in stale)
    /\ stale' = stale \ {w}
    /\ UNCHANGED <<up, grants, policied, stmt, left>>

-----------------------------------------------------------------------------
(* The rest of the server.                                                 *)

\* An organisation gets its first mask or row filter, or loses its last.
PolicyDdl ==
    /\ up
    /\ \E o \in Orgs :
          policied' = IF o \in policied THEN policied \ {o} ELSE policied \cup {o}
    /\ UNCHANGED <<up, grants, live, pc, stmt, left, loaded, result, history>>

Crash ==
    /\ up /\ "crash" \in Faults
    /\ up' = FALSE /\ live' = {}
    /\ pc' = [w \in Workers |-> "idle"]
    /\ left' = [w \in Workers |-> {}]
    /\ loaded' = [w \in Workers |-> {}]
    /\ result' = [w \in Workers |-> IF pc[w] = "idle" THEN result[w] ELSE "error"]
    /\ stale' = {} /\ behind' = FALSE
    /\ UNCHANGED <<grants, policied, stmt>>

Boot ==
    /\ ~up
    /\ up' = TRUE
    /\ live' = {g \in grants : g[1] \in ListOrgs}
    /\ UNCHANGED <<grants, policied, pc, stmt, left, loaded, result, history>>

Next ==
    \/ \E w \in Workers :
          \/ Apply(w) \/ Write(w) \/ WriteFails(w)
          \/ RefreshOrgs(w) \/ RefreshOrg(w) \/ RefreshFails(w) \/ Publish(w)
    \/ PolicyDdl \/ Crash \/ Boot

Spec == Init /\ [][Next]_vars

-----------------------------------------------------------------------------
(* Properties.                                                             *)

\* When every session's last GRANT or REVOKE has returned and reported
\* success, the next query of any session is checked against exactly the
\* stored grants: no revoked grant is in force and no new one is missing.
\* Except when another statement wrote during the reload that was published
\* last: nothing orders the publications of two sessions.
SuccessIsEnforced ==
    up /\ ~behind /\ (\A w \in Workers : pc[w] = "idle" /\ result[w] # "error") => live = grants
=============================================================================
