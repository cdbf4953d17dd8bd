---------------------------- MODULE AdminProofs ----------------------------
(***************************************************************************)
(* Proofs about the runtime statements and events of Admin, for every      *)
(* value of their constants: grants (GrantRefresh), users (UserRouting),   *)
(* views (Views) and the governance webhook (GovernanceFeed); and about    *)
(* the provider cache that follows changes of the catalogs (CatalogCache). *)
(*                                                                         *)
(* Each theorem is about the specification of one component: its property  *)
(* holds, and for those of Admin so does the property there that says so   *)
(* while it moves.                                                         *)
(***************************************************************************)
EXTENDS Admin, CatalogCache, Sequences, WellFoundedInduction, TLAPS

\* A set of numbers has a least one.
LEMMA LeastExists ==
    ASSUME NEW S \in SUBSET Nat, S # {}
    PROVE  \E n \in S : \A m \in S : n <= m
  <1>1. PICK n \in S : \A m \in S : <<m, n>> \notin OpToRel(<, Nat)
    BY WFMin, NatLessThanWellFounded, Zenon
  <1>2. \A m \in S : ~(m < n)
    <2> SUFFICES ASSUME NEW m \in S, m < n PROVE FALSE
      OBVIOUS
    <2>1. m \in Nat /\ n \in Nat
      OBVIOUS
    <2>2. <<m, n>> \in OpToRel(<, Nat)
      BY <2>1, Zenon DEF OpToRel
    <2> QED
      BY <1>1, <2>2, Zenon
  <1> QED
    BY <1>2

-----------------------------------------------------------------------------
(* Grants: what a reload that nobody disturbed has listed, and will list,  *)
(* is what is stored.                                                      *)

\* load_all_grants: everything stored is listed or belongs to an
\* organisation that is still to be listed, and nothing else is listed.
Exact(w) ==
    /\ loaded[w] \subseteq grants
    /\ \A g \in grants : g \in loaded[w] \/ g[1] \in left[w]

GrantInv ==
    /\ G!TypeOK /\ stmt \in [Workers -> G!Statements \cup {None}]
    /\ \A w \in Workers : pc[w] # "load" => loaded[w] = {} /\ left[w] = {}
    /\ \A w \in Workers : pc[w] = "load" /\ w \notin stale => Exact(w)
    /\ G!SuccessIsEnforced

\* The organisation listed next is one that is left.
LEMMA NextOrg ==
    ASSUME G!GrantConstants, NEW S \in SUBSET Orgs, S # {}
    PROVE  G!Min(S) \in S
  <1>1. \E n \in S : \A m \in S : n <= m
    BY LeastExists DEF G!GrantConstants
  <1> QED
    BY <1>1 DEF G!Min

\* GrantInv is inductive where the store lists every organisation that has a
\* grant, as redb does.
LEMMA GrantInductive ==
    ASSUME G!GrantConstants, Backend = "redb"
    PROVE  GrantInv /\ [G!Next]_(G!vars) => GrantInv'
  <1> SUFFICES ASSUME GrantInv, [G!Next]_(G!vars) PROVE GrantInv'
    OBVIOUS
  <1>0. /\ up \in BOOLEAN /\ behind \in BOOLEAN
        /\ grants \subseteq G!OrgGrants /\ live \subseteq G!OrgGrants /\ policied \subseteq Orgs
        /\ pc \in [Workers -> {"idle", "write", "orgs", "load"}]
        /\ \A w \in Workers : pc[w] # "idle" => stmt[w] \in G!Statements
        /\ left \in [Workers -> SUBSET Orgs] /\ loaded \in [Workers -> SUBSET G!OrgGrants]
        /\ \A w \in Workers, g \in G!OrgGrants : g \in loaded[w] => g[1] \notin left[w]
        /\ stmt \in [Workers -> G!Statements \cup {None}]
        /\ result \in [Workers -> {"none", "ok", "error"}]
        /\ stale \subseteq Workers
        /\ \A g \in G!OrgGrants : g[1] \in Orgs
    BY DEF GrantInv, G!TypeOK, G!OrgGrants
  <1>a. /\ \A w \in Workers : pc[w] # "load" => loaded[w] = {} /\ left[w] = {}
        /\ \A w \in Workers : pc[w] = "load" /\ w \notin stale => Exact(w)
        /\ up /\ ~behind /\ (\A w \in Workers : pc[w] = "idle" /\ result[w] # "error")
              => live = grants
    BY DEF GrantInv, G!SuccessIsEnforced
  <1>b. \A g \in grants : g[1] \in G!ListOrgs
    BY DEF G!ListOrgs
  <1>c. G!ListOrgs \in SUBSET Orgs
    BY <1>0 DEF G!ListOrgs
  <1> DEFINE Loading ==
               /\ \A w \in Workers : pc[w] # "load" => loaded[w] = {} /\ left[w] = {}
               /\ \A w \in Workers : pc[w] = "load" /\ w \notin stale => Exact(w)
  <1>1. ASSUME NEW w \in Workers, G!Apply(w) PROVE GrantInv'
    <2>1. /\ UNCHANGED <<up, grants, policied, live, left, loaded, behind, stale>>
          /\ up /\ pc[w] = "idle" /\ pc' = [pc EXCEPT ![w] = "write"]
          /\ result' = [result EXCEPT ![w] = "none"]
      BY <1>1 DEF G!Apply
    <2>2. PICK s \in G!Statements : stmt' = [stmt EXCEPT ![w] = s]
      BY <1>1 DEF G!Apply
    <2>s. /\ stmt' \in [Workers -> G!Statements \cup {None}]
          /\ \A v \in Workers : pc'[v] # "idle" => stmt'[v] \in G!Statements
      BY <1>0, <2>1, <2>2
    <2>3. G!TypeOK'
      BY <1>0, <2>1, <2>s DEF G!TypeOK
    <2>4. Loading'
      BY <1>0, <1>a, <2>1 DEF Exact
    <2>5. G!SuccessIsEnforced'
      BY <1>0, <2>1 DEF G!SuccessIsEnforced
    <2> QED
      BY <2>3, <2>4, <2>5, <2>s DEF GrantInv
  <1>2. ASSUME NEW w \in Workers, G!Write(w) PROVE GrantInv'
    <2>1. /\ UNCHANGED <<up, policied, live, stmt, left, loaded, result, behind>>
          /\ pc[w] = "write" /\ pc' = [pc EXCEPT ![w] = "orgs"]
          /\ stale' = IF grants' = grants THEN stale
                      ELSE stale \cup {v \in Workers : pc[v] = "load"}
      BY <1>2 DEF G!Write
    <2>2. stmt[w].grant \in G!OrgGrants
      BY <1>0, <2>1 DEF G!Statements
    <2>3. grants' \subseteq G!OrgGrants
      BY <1>0, <1>2, <2>2 DEF G!Write
    <2>4. G!TypeOK'
      BY <1>0, <2>1, <2>3 DEF G!TypeOK
    <2>5. Loading'
      <3>1. CASE grants' = grants
        BY <1>0, <1>a, <2>1, <3>1 DEF Exact
      <3>2. CASE grants' # grants
        BY <1>0, <1>a, <2>1, <3>2 DEF Exact
      <3> QED
        BY <3>1, <3>2
    <2>6. G!SuccessIsEnforced'
      BY <1>0, <2>1 DEF G!SuccessIsEnforced
    <2> QED
      BY <1>0, <2>1, <2>4, <2>5, <2>6 DEF GrantInv
  <1>3. ASSUME NEW w \in Workers, G!Fails(w) PROVE GrantInv'
    <2>1. /\ UNCHANGED <<up, grants, policied, live, stmt, behind>>
          /\ pc' = [pc EXCEPT ![w] = "idle"] /\ result' = [result EXCEPT ![w] = "error"]
          /\ left' = [left EXCEPT ![w] = {}] /\ loaded' = [loaded EXCEPT ![w] = {}]
          /\ stale' = stale \ {w}
      BY <1>3 DEF G!Fails
    <2>2. G!TypeOK'
      BY <1>0, <2>1 DEF G!TypeOK
    <2>3. Loading'
      BY <1>0, <1>a, <2>1 DEF Exact
    <2>4. G!SuccessIsEnforced'
      BY <1>0, <2>1 DEF G!SuccessIsEnforced
    <2> QED
      BY <1>0, <2>1, <2>2, <2>3, <2>4 DEF GrantInv
  \* The list of organisations covers what is stored at this moment.
  <1>4. ASSUME NEW w \in Workers, G!RefreshOrgs(w) PROVE GrantInv'
    <2>1. /\ UNCHANGED <<up, grants, policied, live, stmt, loaded, result, behind>>
          /\ pc[w] = "orgs" /\ pc' = [pc EXCEPT ![w] = "load"]
          /\ left' = [left EXCEPT ![w] = G!ListOrgs] /\ stale' = stale \ {w}
      BY <1>4 DEF G!RefreshOrgs
    <2>2. loaded[w] = {}
      BY <1>a, <2>1
    <2>3. G!TypeOK'
      BY <1>0, <1>c, <2>1, <2>2 DEF G!TypeOK
    <2>4. Loading'
      BY <1>0, <1>a, <1>b, <2>1, <2>2 DEF Exact
    <2>5. G!SuccessIsEnforced'
      BY <1>0, <2>1 DEF G!SuccessIsEnforced
    <2> QED
      BY <1>0, <2>1, <2>3, <2>4, <2>5 DEF GrantInv
  <1>5. ASSUME NEW w \in Workers, G!RefreshOrg(w) PROVE GrantInv'
    <2> DEFINE o == G!Min(left[w])
    <2>1. /\ UNCHANGED <<up, grants, policied, live, pc, stmt, result, stale, behind>>
          /\ pc[w] = "load" /\ left[w] # {}
          /\ loaded' = [loaded EXCEPT ![w] = @ \cup G!OfOrg(o)]
          /\ left' = [left EXCEPT ![w] = @ \ {o}]
      BY <1>5 DEF G!RefreshOrg, G!history
    <2>2. o \in left[w] /\ left[w] \in SUBSET Orgs
      BY <1>0, <2>1, NextOrg
    <2> HIDE DEF o
    <2>3. /\ loaded'[w] = loaded[w] \cup G!OfOrg(o) /\ left'[w] = left[w] \ {o}
          /\ \A v \in Workers : v # w => loaded'[v] = loaded[v] /\ left'[v] = left[v]
          /\ G!OfOrg(o) \subseteq grants /\ \A g \in G!OfOrg(o) : g[1] = o
          /\ \A g \in grants : g[1] = o => g \in G!OfOrg(o)
      BY <1>0, <2>1 DEF G!OfOrg
    <2>4. /\ left' \in [Workers -> SUBSET Orgs]
          /\ loaded' \in [Workers -> SUBSET G!OrgGrants]
      BY <1>0, <2>1, <2>3
    <2>5. \A v \in Workers, g \in G!OrgGrants : g \in loaded'[v] => g[1] \notin left'[v]
      BY <1>0, <2>3
    <2>6. G!TypeOK'
      BY <1>0, <2>1, <2>4, <2>5 DEF G!TypeOK
    <2>7. Loading'
      <3>1. \A v \in Workers : pc[v] # "load" => loaded'[v] = {} /\ left'[v] = {}
        BY <1>a, <2>1, <2>3
      <3>2. ASSUME NEW v \in Workers, pc[v] = "load", v \notin stale PROVE Exact(v)'
        BY <3>2, <1>a, <2>1, <2>3 DEF Exact
      <3> QED
        BY <2>1, <3>1, <3>2
    <2>8. G!SuccessIsEnforced'
      BY <1>0, <2>1 DEF G!SuccessIsEnforced
    <2> QED
      BY <1>0, <2>1, <2>6, <2>7, <2>8 DEF GrantInv
  \* GrantEnforcer::publish: nothing is left to list, so what was listed is
  \* what is stored, unless somebody wrote meanwhile.
  <1>6. ASSUME NEW w \in Workers, G!Publish(w) PROVE GrantInv'
    <2>1. /\ UNCHANGED <<up, grants, policied, stmt, left>>
          /\ pc[w] = "load" /\ left[w] = {} /\ pc' = [pc EXCEPT ![w] = "idle"]
          /\ live' = loaded[w] /\ loaded' = [loaded EXCEPT ![w] = {}]
          /\ result' = [result EXCEPT ![w] = "ok"]
          /\ behind' = (w \in stale) /\ stale' = stale \ {w}
      BY <1>6 DEF G!Publish
    <2>2. G!TypeOK'
      BY <1>0, <2>1 DEF G!TypeOK
    <2>3. Loading'
      BY <1>0, <1>a, <2>1 DEF Exact
    <2>4. ~behind' => live' = grants'
      BY <1>0, <1>a, <2>1 DEF Exact
    <2> QED
      BY <1>0, <2>1, <2>2, <2>3, <2>4 DEF GrantInv, G!SuccessIsEnforced
  <1>7. CASE G!PolicyDdl
    <2>1. UNCHANGED <<up, grants, live, pc, stmt, left, loaded, result, stale, behind>>
      BY <1>7 DEF G!PolicyDdl, G!history
    <2>2. policied' \subseteq Orgs
      BY <1>0, <1>7 DEF G!PolicyDdl
    <2> QED
      BY <1>0, <1>a, <2>1, <2>2 DEF GrantInv, G!TypeOK, G!SuccessIsEnforced, Exact
  <1>8. CASE G!Crash
    <2>1. /\ up' = FALSE /\ live' = {} /\ UNCHANGED <<grants, policied, stmt>>
          /\ pc' = [w \in Workers |-> "idle"] /\ left' = [w \in Workers |-> {}]
          /\ loaded' = [w \in Workers |-> {}] /\ stale' = {} /\ behind' = FALSE
          /\ result' = [w \in Workers |-> IF pc[w] = "idle" THEN result[w] ELSE "error"]
      BY <1>8 DEF G!Crash
    <2>2. G!TypeOK'
      BY <1>0, <2>1 DEF G!TypeOK
    <2> QED
      BY <1>0, <2>1, <2>2 DEF GrantInv, G!SuccessIsEnforced
  <1>9. CASE G!Boot
    <2>1. /\ up' = TRUE /\ live' = {g \in grants : g[1] \in G!ListOrgs}
          /\ UNCHANGED <<grants, policied, pc, stmt, left, loaded, result, stale, behind>>
      BY <1>9 DEF G!Boot, G!history
    <2>2. live' = grants
      BY <1>b, <2>1
    <2>3. G!TypeOK'
      BY <1>0, <2>1, <2>2 DEF G!TypeOK
    <2> QED
      BY <1>0, <1>a, <2>1, <2>2, <2>3 DEF GrantInv, G!SuccessIsEnforced, Exact
  <1>10. CASE UNCHANGED G!vars
    BY <1>0, <1>a, <1>10 DEF G!vars, GrantInv, G!TypeOK, G!SuccessIsEnforced, Exact
  <1> QED
    BY <1>1, <1>2, <1>3, <1>4, <1>5, <1>6, <1>7, <1>8, <1>9, <1>10
    DEF G!Next, G!WriteFails, G!RefreshFails, G!OnReloadError

\* With a store that lists every organisation that owns anything (redb), for
\* any organisations, grants and sessions, whatever read or write fails and
\* whenever the process crashes: when every GRANT and REVOKE has returned and
\* the last of each session reported success, the enforcer checks queries
\* against exactly the stored grants, unless the reload published last
\* overlapped another session's write.
THEOREM SuccessMeansEnforced ==
    ASSUME G!GrantConstants, Backend = "redb"
    PROVE  G!Spec => [](G!SuccessIsEnforced /\ SuccessIsEnforced)
  <1>1. G!Init => GrantInv
    BY DEF G!Init, GrantInv, G!TypeOK, G!SuccessIsEnforced, G!OrgGrants
  <1>2. GrantInv => G!SuccessIsEnforced /\ SuccessIsEnforced
    BY DEF GrantInv, SuccessIsEnforced
  <1> QED
    BY <1>1, <1>2, GrantInductive, PTL DEF G!Spec

-----------------------------------------------------------------------------
(* Users: what a CREATE or ALTER has read of its name is still so when it  *)
(* writes, unless somebody raced it.                                       *)

UserTypes ==
    /\ users \in [Orgs -> [Logins -> U!Records \cup {U!NoUser}]]
    /\ at \in [Workers -> {"idle", "get", "find", "put", "delete", "list", "put role", "delete role"}]
    /\ order \in [Workers -> U!Statements \cup U!RoleStatements \cup {None}]
    /\ \A w \in Workers : at[w] \in {"get", "find", "put", "delete"} => order[w] \in U!Statements
    /\ \A w \in Workers : at[w] = "find" => order[w].op = "create"
    /\ \A w \in Workers : at[w] = "put" => order[w].op \in {"create", "alter"}
    /\ contested \subseteq Logins

\* A CREATE writes a name that no organisation has, an ALTER one that its own has.
StillRead(w) ==
    at[w] = "put" /\ order[w].name \notin contested =>
        /\ order[w].op = "create" => U!Owners(order[w].name) = {}
        /\ order[w].op = "alter" => order[w].org \in U!Owners(order[w].name)

OneOwner(n) == n \notin contested => \A o, p \in U!Owners(n) : o = p

UserInv ==
    /\ UserTypes
    /\ \A w \in Workers : StillRead(w)
    /\ \A n \in Logins : OneOwner(n)

\* find_user finds an owner if there is one.
LEMMA FindUserFinds ==
    ASSUME U!UserConstants, NEW n \in Logins
    PROVE  /\ U!Owners(n) # {} => U!FindUser(n) \in U!Owners(n)
           /\ U!FindUser(n) = None => U!Owners(n) = {}
  <1>1. ASSUME U!Owners(n) # {} PROVE U!FindUser(n) \in U!Owners(n)
    <2>1. U!Owners(n) \in SUBSET Nat
      BY DEF U!Owners, U!UserConstants
    <2>2. \E o \in U!Owners(n) : \A p \in U!Owners(n) : o <= p
      BY <1>1, <2>1, LeastExists
    <2> QED
      BY <1>1, <2>2 DEF U!FindUser, U!Min
  <1> QED
    BY <1>1 DEF U!UserConstants, U!Owners

\* UserInv is inductive.
LEMMA UserInductive ==
    ASSUME U!UserConstants
    PROVE  UserInv /\ [U!Next]_(U!vars) => UserInv'
  <1> SUFFICES ASSUME UserInv, [U!Next]_(U!vars) PROVE UserInv'
    OBVIOUS
  <1>0. /\ users \in [Orgs -> [Logins -> U!Records \cup {U!NoUser}]]
        /\ at \in [Workers -> {"idle", "get", "find", "put", "delete", "list", "put role", "delete role"}]
        /\ order \in [Workers -> U!Statements \cup U!RoleStatements \cup {None}]
        /\ \A w \in Workers : at[w] \in {"get", "find", "put", "delete"} => order[w] \in U!Statements
        /\ \A w \in Workers : at[w] = "find" => order[w].op = "create"
        /\ \A w \in Workers : at[w] = "put" => order[w].op \in {"create", "alter"}
        /\ contested \subseteq Logins
        /\ \A w \in Workers : StillRead(w)
        /\ \A n \in Logins : OneOwner(n)
    BY DEF UserInv, UserTypes
  <1>t. \A s \in U!Statements : s.org \in Orgs /\ s.name \in Logins
    BY DEF U!Statements
  \* A step that writes no user: only the worker's own statement moves.
  <1>1. ASSUME NEW w \in Workers, users' = users, contested' = contested,
               NEW a \in {"idle", "get", "find", "put", "delete", "list", "put role", "delete role"},
               NEW s \in U!Statements \cup U!RoleStatements \cup {None},
               at' = [at EXCEPT ![w] = a], order' = [order EXCEPT ![w] = s],
               a \in {"get", "find", "put", "delete"} => s \in U!Statements,
               a = "find" => s.op = "create",
               a = "put" => /\ s.op \in {"create", "alter"}
                            /\ s.op = "create" => U!Owners(s.name) = {}
                            /\ s.op = "alter" => s.org \in U!Owners(s.name)
        PROVE  UserInv'
    <2>1. /\ at'[w] = a /\ order'[w] = s
          /\ \A v \in Workers : v # w => at'[v] = at[v] /\ order'[v] = order[v]
      BY <1>0, <1>1
    <2>2. /\ at' \in [Workers -> {"idle", "get", "find", "put", "delete", "list", "put role", "delete role"}]
          /\ order' \in [Workers -> U!Statements \cup U!RoleStatements \cup {None}]
      BY <1>0, <1>1
    <2>3. UserTypes'
      BY <1>0, <1>1, <2>1, <2>2 DEF UserTypes
    <2>o. \A m : {p \in Orgs : users'[p][m] # U!NoUser} = {p \in Orgs : users[p][m] # U!NoUser}
      BY <1>1
    <2>4. ASSUME NEW v \in Workers PROVE StillRead(v)'
      <3>1. CASE v = w
        BY <3>1, <1>1, <2>1, <2>o DEF StillRead, U!Owners
      <3>2. CASE v # w
        BY <3>2, <1>0, <1>1, <2>1, <2>o DEF StillRead, U!Owners
      <3> QED
        BY <3>1, <3>2
    <2>5. \A n \in Logins : OneOwner(n)'
      BY <1>0, <1>1 DEF OneOwner, U!Owners
    <2> QED
      BY <2>3, <2>4, <2>5 DEF UserInv
  <1>2. ASSUME NEW w \in Workers, U!Ends(w), users' = users, contested' = contested PROVE UserInv'
    BY <1>1, <1>2 DEF U!Ends
  <1>3. ASSUME NEW w \in Workers, U!Apply(w) PROVE UserInv'
    <2>1. PICK s \in U!Statements \cup U!RoleStatements :
            /\ order' = [order EXCEPT ![w] = s]
            /\ at' = [at EXCEPT ![w] = U!FirstStep(s.op)]
      BY <1>3 DEF U!Apply
    <2>2. users' = users /\ contested' = contested
      BY <1>3 DEF U!Apply, U!Reads
    <2>3. /\ U!FirstStep(s.op) \in {"get", "delete", "list", "delete role"}
          /\ U!FirstStep(s.op) \in {"get", "delete"} => s \in U!Statements
      BY DEF U!FirstStep, U!Statements, U!RoleStatements
    <2> QED
      BY <1>1, <2>1, <2>2, <2>3
  <1>4. ASSUME NEW w \in Workers, U!CreateGet(w) PROVE UserInv'
    <2>1. users' = users /\ contested' = contested /\ at[w] = "get" /\ order[w].op = "create"
      BY <1>4 DEF U!CreateGet, U!Reads
    <2>2. order[w] \in U!Statements /\ order = [order EXCEPT ![w] = order[w]]
      BY <1>0, <2>1
    <2>3. CASE U!Ends(w)
      BY <1>2, <2>1, <2>3
    <2>4. CASE U!Goes(w, "find")
      BY <1>1, <2>1, <2>2, <2>4 DEF U!Goes
    <2> QED
      BY <1>4, <2>3, <2>4 DEF U!CreateGet, U!GoesIf
  <1>5. ASSUME NEW w \in Workers, U!CreateFind(w) PROVE UserInv'
    <2>1. users' = users /\ contested' = contested /\ at[w] = "find"
      BY <1>5 DEF U!CreateFind, U!Reads
    <2>2. /\ order[w] \in U!Statements /\ order = [order EXCEPT ![w] = order[w]]
          /\ order[w].op = "create" /\ order[w].name \in Logins
      BY <1>0, <1>t, <2>1
    <2>3. CASE U!Ends(w)
      BY <1>2, <2>1, <2>3
    <2>4. CASE U!NameFree(w) /\ U!Goes(w, "put")
      <3>1. U!Owners(order[w].name) = {}
        BY <2>2, <2>4, FindUserFinds DEF U!NameFree
      <3> QED
        BY <1>1, <2>1, <2>2, <2>4, <3>1 DEF U!Goes
    <2> QED
      BY <1>5, <2>3, <2>4 DEF U!CreateFind, U!GoesIf
  <1>6. ASSUME NEW w \in Workers, U!AlterGet(w) PROVE UserInv'
    <2>1. users' = users /\ contested' = contested /\ at[w] = "get" /\ order[w].op = "alter"
      BY <1>6 DEF U!AlterGet, U!Reads
    <2>2. order[w] \in U!Statements /\ order[w].org \in Orgs /\ order[w].name \in Logins
      BY <1>0, <1>t, <2>1
    <2>3. CASE U!Ends(w)
      BY <1>2, <2>1, <2>3
    <2>4. CASE /\ U!Record(w) # U!NoUser
               /\ order' = [order EXCEPT ![w].super = U!KeptFlag(w)]
               /\ at' = [at EXCEPT ![w] = "put"]
      <3> DEFINE s == [order[w] EXCEPT !.super = U!KeptFlag(w)]
      <3>0. U!Record(w) \in U!Records \cup {U!NoUser}
        BY <1>0, <2>2 DEF U!Record
      <3>1. U!Record(w) \in U!Records
        BY <2>4, <3>0
      <3>2. U!KeptFlag(w) \in BOOLEAN
        BY <3>1 DEF U!KeptFlag, U!Records
      <3>3. /\ s \in U!Statements /\ s.op = "alter" /\ s.org = order[w].org
            /\ s.name = order[w].name
        BY <2>1, <2>2, <3>2 DEF U!Statements
      <3>4. order' = [order EXCEPT ![w] = s]
        BY <1>0, <2>4
      <3>5. s.org \in U!Owners(s.name)
        BY <2>2, <2>4, <3>3 DEF U!Owners, U!Record
      <3> HIDE DEF s
      <3> QED
        BY <1>1, <2>1, <2>4, <3>3, <3>4, <3>5
    <2> QED
      BY <1>6, <2>3, <2>4 DEF U!AlterGet
  \* A write: whoever else is about to write the name is marked.
  <1>7. ASSUME NEW w \in Workers, U!PutUser(w) \/ U!DeleteUser(w) PROVE UserInv'
    <2>0. PICK o, n : o = order[w].org /\ n = order[w].name
      OBVIOUS
    <2>1. /\ at[w] \in {"put", "delete"} /\ U!Races(w)
          /\ at' = [at EXCEPT ![w] = "idle"] /\ order' = [order EXCEPT ![w] = None]
      BY <1>7 DEF U!PutUser, U!DeleteUser, U!Ends
    <2>2. order[w] \in U!Statements /\ o \in Orgs /\ n \in Logins
      BY <1>0, <1>t, <2>0, <2>1
    <2>3. PICK r \in U!Records \cup {U!NoUser} :
            /\ users' = [users EXCEPT ![o][n] = r]
            /\ at[w] = "delete" => r = U!NoUser
      <3>1. CASE U!PutUser(w)
        <4>1. [super |-> order[w].super, password |-> order[w].password] \in U!Records
          BY <2>2 DEF U!Statements, U!Records
        <4> QED
          BY <3>1, <4>1, <2>0 DEF U!PutUser
      <3>2. CASE U!DeleteUser(w)
        BY <3>2, <2>0 DEF U!DeleteUser
      <3> QED
        BY <1>7, <3>1, <3>2
    <2>4. /\ users' \in [Orgs -> [Logins -> U!Records \cup {U!NoUser}]]
          /\ users'[o][n] = r
          /\ \A p \in Orgs, m \in Logins : p # o \/ m # n => users'[p][m] = users[p][m]
      BY <1>0, <2>2, <2>3
    <2>5. /\ at'[w] = "idle"
          /\ \A v \in Workers : v # w => at'[v] = at[v] /\ order'[v] = order[v]
          /\ at' \in [Workers -> {"idle", "get", "find", "put", "delete", "list", "put role", "delete role"}]
          /\ order' \in [Workers -> U!Statements \cup U!RoleStatements \cup {None}]
      BY <1>0, <2>1
    <2>6. /\ contested \subseteq contested' /\ contested' \subseteq Logins
          /\ \A v \in Workers : v # w /\ at[v] = "put" /\ order[v].name = n => n \in contested'
      BY <1>0, <2>0, <2>1, <2>2 DEF U!Races
    <2>7. UserTypes'
      BY <1>0, <2>4, <2>5, <2>6 DEF UserTypes
    <2>8. \A m \in Logins : m # n => U!Owners(m)' = U!Owners(m)
      BY <2>4 DEF U!Owners
    <2>9. ASSUME NEW v \in Workers PROVE StillRead(v)'
      <3> SUFFICES ASSUME at'[v] = "put", order'[v].name \notin contested'
                   PROVE  /\ order'[v].op = "create" => U!Owners(order[v].name)' = {}
                          /\ order'[v].op = "alter" => order'[v].org \in U!Owners(order[v].name)'
        BY DEF StillRead
      <3>1. v # w /\ at[v] = "put" /\ order'[v] = order[v]
        BY <2>5
      <3>2. order[v].name \in Logins /\ order[v].name # n /\ order[v].name \notin contested
        BY <1>0, <1>t, <2>6, <3>1
      <3>3. U!Owners(order[v].name)' = U!Owners(order[v].name)
        <4>1. PICK m \in Logins : m = order[v].name /\ m = order'[v].name
          BY <3>1, <3>2
        <4>2. U!Owners(m)' = U!Owners(m)
          BY <2>8, <3>2, <4>1
        <4> QED
          BY <4>1, <4>2 DEF U!Owners
      <3> QED
        BY <1>0, <3>1, <3>2, <3>3 DEF StillRead
    <2>10. ASSUME NEW m \in Logins PROVE OneOwner(m)'
      <3>1. CASE m # n
        BY <3>1, <1>0, <2>6, <2>8 DEF OneOwner
      <3>2. CASE m = n /\ n \notin contested'
        <4>1. n \notin contested /\ OneOwner(n)
          BY <3>2, <1>0, <2>6
        <4>2. CASE at[w] = "delete"
          <5>1. U!Owners(n)' \subseteq U!Owners(n)
            BY <4>2, <2>3, <2>4, <3>2 DEF U!Owners
          <5> QED
            BY <3>2, <4>1, <5>1 DEF OneOwner
        <4>3. CASE at[w] = "put"
          <5>1. \A p \in U!Owners(n) : p = o
            BY <1>0, <2>0, <4>1, <4>3 DEF StillRead, OneOwner
          <5>2. U!Owners(n)' \subseteq U!Owners(n) \cup {o}
            BY <2>4, <3>2 DEF U!Owners
          <5> QED
            BY <3>2, <5>1, <5>2 DEF OneOwner
        <4> QED
          BY <2>1, <4>2, <4>3
      <3> QED
        BY <3>1, <3>2 DEF OneOwner
    <2> QED
      BY <2>7, <2>9, <2>10 DEF UserInv
  <1>8. ASSUME NEW w \in Workers, U!CreateRoleList(w) PROVE UserInv'
    <2>1. users' = users /\ contested' = contested /\ at[w] = "list"
      BY <1>8 DEF U!CreateRoleList, U!Reads
    <2>2. /\ order = [order EXCEPT ![w] = order[w]]
          /\ order[w] \in U!Statements \cup U!RoleStatements \cup {None}
      BY <1>0
    <2>3. CASE U!Ends(w)
      BY <1>2, <2>1, <2>3
    <2>4. CASE U!Goes(w, "put role")
      BY <1>1, <2>1, <2>2, <2>4 DEF U!Goes
    <2> QED
      BY <1>8, <2>3, <2>4 DEF U!CreateRoleList, U!GoesIf
  <1>9. ASSUME NEW w \in Workers, U!PutRole(w) \/ U!DeleteRole(w) \/ U!Abandoned(w) PROVE UserInv'
    BY <1>2, <1>9 DEF U!PutRole, U!DeleteRole, U!Abandoned, U!Reads
  <1>10. CASE UNCHANGED U!vars
    BY <1>0, <1>10 DEF U!vars, UserInv, UserTypes, StillRead, OneOwner, U!Owners
  <1> QED
    BY <1>3, <1>4, <1>5, <1>6, <1>7, <1>8, <1>9, <1>10 DEF U!Next

\* For any organisations, names and administering sessions, and whatever
\* statement is abandoned midway: a session let in by a stored password runs
\* for the organisation that owns the user, unless the configuration gives the
\* name another or two statements raced for the name.
THEOREM LoginAlwaysFindsOwner ==
    ASSUME U!UserConstants
    PROVE  U!Spec => [](U!LoginFindsOwner /\ LoginFindsOwner)
  <1>1. U!Init => UserInv
    <2> SUFFICES ASSUME U!Init PROVE UserInv
      OBVIOUS
    <2>1. \A n \in Logins : U!Owners(n) = {}
      BY DEF U!Init, U!Owners
    <2> QED
      BY <2>1 DEF U!Init, UserInv, UserTypes, StillRead, OneOwner
  <1>2. UserInv => U!LoginFindsOwner
    <2> SUFFICES ASSUME UserInv, NEW o \in Orgs, NEW n \in Logins, n \notin contested,
                        U!ByStoredPassword(n), users[o][n] # U!NoUser, profile[n] = None
                 PROVE  U!SessionOrg(n) = o
      BY DEF U!LoginFindsOwner
    <2>1. o \in U!Owners(n)
      BY DEF U!Owners
    <2>2. U!FindUser(n) = o
      BY <2>1, FindUserFinds DEF UserInv, OneOwner
    <2>3. U!AuthOrg(n) = o /\ o # None
      BY <2>2 DEF U!AuthOrg, U!ByStoredPassword, U!UserConstants
    <2> QED
      BY <2>3 DEF U!SessionOrg
  <1>3. UserInv => U!LoginFindsOwner /\ LoginFindsOwner
    BY <1>2 DEF LoginFindsOwner
  <1> QED
    BY <1>1, <1>3, UserInductive, PTL DEF U!Spec

-----------------------------------------------------------------------------
(* Views: the registry and the store differ on a view only between the two *)
(* writes of a statement on it.                                            *)

Ddls == [op : {"create", "replace", "drop"}, name : Names,
         body : V!Bodies \cup {None}, found : V!Bodies \cup {None}]
Phases == {"closed", "starting", "idle", "get", "put", "register", "delete", "unregister"}

SessionTypes(s) ==
    /\ phase[s] \in {"closed", "starting"} => org[s] = None
    /\ phase[s] \notin {"closed", "starting"} => org[s] \in Tenants
    /\ V!Busy(s) => /\ ddl[s] \in Ddls
                    /\ ddl[s].op # "drop" => ddl[s].body \in V!Bodies
    /\ phase[s] \in {"put", "register"} => ddl[s].op # "drop"

ViewTypes ==
    /\ stored \in [Tenants -> [Names -> V!Bodies \cup {None}]]
    /\ registry \in [Tenants -> [Names -> V!Bodies \cup {None}]]
    /\ org \in [Sessions -> Tenants \cup {None}]
    /\ phase \in [Sessions -> Phases]
    /\ ddl \in [Sessions -> Ddls \cup {None}]
    /\ \A s \in Sessions : SessionTypes(s)

\* A statement is on view n of organisation o.
WorksOn(s, o, n) == V!Busy(s) /\ org[s] = o /\ ddl[s].name = n

\* Two statements on one view have raced.
Alone ==
    \A s, t \in Sessions, o \in Tenants, n \in Names :
        s # t /\ WorksOn(s, o, n) /\ WorksOn(t, o, n) => <<o, n>> \in raced

\* What a statement that nobody raced has written is still there, and so is
\* what a CREATE has read: nothing.
Written(s) ==
    \A o \in Tenants, n \in Names :
        WorksOn(s, o, n) /\ <<o, n>> \notin raced =>
            /\ phase[s] = "register" => stored[o][n] = ddl[s].body
            /\ phase[s] = "unregister" => stored[o][n] = None
            /\ ddl[s].op = "create" /\ phase[s] # "get" => ddl[s].found = None
            /\ ddl[s].op = "create" /\ phase[s] = "put" => stored[o][n] = None

Synced(o, n) ==
    \/ registry[o][n] = stored[o][n]
    \/ <<o, n>> \in skipped \cup raced
    \/ \E s \in Sessions : phase[s] \in {"register", "unregister"} /\ org[s] = o /\ ddl[s].name = n

ViewInv ==
    /\ ViewTypes /\ Alone
    /\ \A s \in Sessions : Written(s)
    /\ \A o \in Tenants, n \in Names : Synced(o, n)

\* A write nobody waits for races every statement on its view.
Writes == [org : Tenants, name : Names, body : V!Bodies \cup {None}]
LooseInv ==
    /\ loose \subseteq Writes
    /\ \A w \in loose, s \in Sessions : WorksOn(s, w.org, w.name) => <<w.org, w.name>> \in raced

\* A step of one session that writes neither the store nor the registry.
LEMMA QuietStep ==
    ASSUME ViewInv, NEW s \in Sessions,
           stored' = stored, registry' = registry, skipped' = skipped, raced \subseteq raced',
           org' \in [Sessions -> Tenants \cup {None}], phase' \in [Sessions -> Phases],
           ddl' \in [Sessions -> Ddls \cup {None}],
           \A t \in Sessions : t # s => phase'[t] = phase[t] /\ org'[t] = org[t] /\ ddl'[t] = ddl[t],
           phase[s] \notin {"register", "unregister"},
           phase'[s] \notin {"register", "unregister"},
           SessionTypes(s)', Written(s)',
           \A t \in Sessions, o \in Tenants, n \in Names :
               t # s /\ WorksOn(s, o, n)' /\ WorksOn(t, o, n) => <<o, n>> \in raced'
    PROVE  ViewInv'
  <1>1. ViewTypes'
    <2>1. ASSUME NEW t \in Sessions PROVE SessionTypes(t)'
      <3>1. CASE t = s
        BY <3>1
      <3>2. CASE t # s
        BY <3>2 DEF ViewInv, ViewTypes, SessionTypes, V!Busy
      <3> QED
        BY <3>1, <3>2
    <2> QED
      BY <2>1 DEF ViewInv, ViewTypes
  <1>2. \A t \in Sessions, o \in Tenants, n \in Names : t # s => WorksOn(t, o, n)' = WorksOn(t, o, n)
    BY DEF WorksOn, V!Busy
  <1>3. Alone'
    <2> SUFFICES ASSUME NEW t \in Sessions, NEW u \in Sessions, NEW o \in Tenants, NEW n \in Names,
                        t # u, WorksOn(t, o, n)', WorksOn(u, o, n)'
                 PROVE  <<o, n>> \in raced'
      BY DEF Alone
    <2>1. CASE t = s
      BY <2>1, <1>2
    <2>2. CASE u = s
      BY <2>2, <1>2
    <2>3. CASE t # s /\ u # s
      BY <2>3, <1>2 DEF ViewInv, Alone
    <2> QED
      BY <2>1, <2>2, <2>3
  <1>4. ASSUME NEW t \in Sessions PROVE Written(t)'
    <2>1. CASE t = s
      BY <2>1
    <2>2. CASE t # s
      BY <2>2, <1>2 DEF ViewInv, Written
    <2> QED
      BY <2>1, <2>2
  <1>5. ASSUME NEW o \in Tenants, NEW n \in Names PROVE Synced(o, n)'
    <2>1. ASSUME NEW t \in Sessions, phase[t] \in {"register", "unregister"}, org[t] = o, ddl[t].name = n
          PROVE  phase'[t] \in {"register", "unregister"} /\ org'[t] = o /\ ddl'[t].name = n
      BY <2>1
    <2> QED
      BY <2>1 DEF ViewInv, Synced
  <1> QED
    BY <1>1, <1>3, <1>4, <1>5 DEF ViewInv

\* A step of a session's statement on view n of organisation o.
LEMMA OwnStep ==
    ASSUME ViewInv, NEW s \in Sessions, NEW o \in Tenants, NEW n \in Names, WorksOn(s, o, n),
           stored' \in [Tenants -> [Names -> V!Bodies \cup {None}]],
           registry' \in [Tenants -> [Names -> V!Bodies \cup {None}]],
           \A p \in Tenants, m \in Names :
               p # o \/ m # n => /\ stored'[p][m] = stored[p][m] /\ registry'[p][m] = registry[p][m]
                                 /\ <<p, m>> \in skipped => <<p, m>> \in skipped',
           raced' = raced, org' = org,
           phase' \in [Sessions -> Phases], ddl' \in [Sessions -> Ddls \cup {None}],
           \A t \in Sessions : t # s => phase'[t] = phase[t] /\ ddl'[t] = ddl[t],
           V!Busy(s)' => ddl'[s].name = n,
           SessionTypes(s)', Written(s)', <<o, n>> \notin raced => Synced(o, n)'
    PROVE  ViewInv'
  <1>1. ViewTypes'
    <2>1. ASSUME NEW t \in Sessions PROVE SessionTypes(t)'
      <3>1. CASE t = s
        BY <3>1
      <3>2. CASE t # s
        BY <3>2 DEF ViewInv, ViewTypes, SessionTypes, V!Busy
      <3> QED
        BY <3>1, <3>2
    <2> QED
      BY <2>1 DEF ViewInv, ViewTypes
  <1>2. \A t \in Sessions, p \in Tenants, m \in Names : WorksOn(t, p, m)' => WorksOn(t, p, m)
    BY DEF WorksOn, V!Busy
  <1>3. Alone'
    BY <1>2 DEF ViewInv, Alone
  <1>4. ASSUME NEW t \in Sessions PROVE Written(t)'
    <2>1. CASE t = s
      BY <2>1
    <2>2. CASE t # s
      <3> SUFFICES ASSUME NEW p \in Tenants, NEW m \in Names, WorksOn(t, p, m)', <<p, m>> \notin raced
                   PROVE  /\ phase[t] = "register" => stored'[p][m] = ddl[t].body
                          /\ phase[t] = "unregister" => stored'[p][m] = None
                          /\ ddl[t].op = "create" /\ phase[t] # "get" => ddl[t].found = None
                          /\ ddl[t].op = "create" /\ phase[t] = "put" => stored'[p][m] = None
        BY <2>2 DEF Written
      <3>1. WorksOn(t, p, m) /\ (p # o \/ m # n)
        BY <2>2, <1>2 DEF ViewInv, Alone
      <3>2. stored'[p][m] = stored[p][m]
        BY <3>1
      <3> QED
        BY <3>1, <3>2 DEF ViewInv, Written
    <2> QED
      BY <2>1, <2>2
  <1>5. ASSUME NEW p \in Tenants, NEW m \in Names PROVE Synced(p, m)'
    <2>1. CASE p = o /\ m = n
      BY <2>1 DEF Synced
    <2>2. CASE p # o \/ m # n
      <3>1. /\ stored'[p][m] = stored[p][m] /\ registry'[p][m] = registry[p][m]
            /\ <<p, m>> \in skipped => <<p, m>> \in skipped'
        BY <2>2
      <3>2. ASSUME NEW t \in Sessions, phase[t] \in {"register", "unregister"}, org[t] = p, ddl[t].name = m
            PROVE  phase'[t] \in {"register", "unregister"} /\ org'[t] = p /\ ddl'[t].name = m
        BY <2>2, <3>2 DEF WorksOn
      <3> QED
        BY <3>1, <3>2 DEF ViewInv, Synced
    <2> QED
      BY <2>1, <2>2
  <1> QED
    BY <1>1, <1>3, <1>4, <1>5 DEF ViewInv

\* ViewInv is inductive.
LEMMA ViewInductive ==
    ASSUME V!ViewConstants
    PROVE  ViewInv /\ LooseInv /\ [V!Next]_(V!vars) => ViewInv'
  <1> SUFFICES ASSUME ViewInv, LooseInv, [V!Next]_(V!vars) PROVE ViewInv'
    OBVIOUS
  <1>0. /\ stored \in [Tenants -> [Names -> V!Bodies \cup {None}]]
        /\ registry \in [Tenants -> [Names -> V!Bodies \cup {None}]]
        /\ org \in [Sessions -> Tenants \cup {None}]
        /\ phase \in [Sessions -> Phases]
        /\ ddl \in [Sessions -> Ddls \cup {None}]
        /\ \A s \in Sessions : SessionTypes(s)
        /\ Alone /\ \A s \in Sessions : Written(s)
        /\ \A o \in Tenants, n \in Names : Synced(o, n)
        /\ None \notin Tenants /\ None \notin V!Bodies /\ BootOrg \in Tenants
    BY DEF ViewInv, ViewTypes, V!ViewConstants
  \* A session that is between statements before and after.
  <1>1. ASSUME NEW s \in Sessions, NEW p \in {"closed", "starting", "idle"}, NEW o \in Tenants \cup {None},
               phase[s] \in {"closed", "starting", "idle"}, phase' = [phase EXCEPT ![s] = p],
               org' = [org EXCEPT ![s] = o], p = "idle" <=> o # None,
               stored' = stored, registry' = registry, skipped' = skipped, raced' = raced, ddl' = ddl
        PROVE  ViewInv'
    <2>1. /\ phase'[s] = p /\ org'[s] = o
          /\ \A t \in Sessions : t # s => phase'[t] = phase[t] /\ org'[t] = org[t]
          /\ phase' \in [Sessions -> Phases] /\ org' \in [Sessions -> Tenants \cup {None}]
      BY <1>0, <1>1 DEF Phases
    <2>2. SessionTypes(s)' /\ ~V!Busy(s)'
      BY <1>1, <2>1 DEF SessionTypes, V!Busy
    <2>3. Written(s)' /\ \A q \in Tenants, n \in Names : ~WorksOn(s, q, n)'
      BY <2>2 DEF Written, WorksOn
    <2> QED
      BY <1>0, <1>1, <2>1, <2>2, <2>3, QuietStep
  <1>2. ASSUME NEW s \in Sessions, V!Connect(s) PROVE ViewInv'
    <2>1. /\ phase[s] = "closed" /\ phase' = [phase EXCEPT ![s] = "starting"]
          /\ UNCHANGED <<stored, registry, org, ddl, skipped, raced>>
      BY <1>2 DEF V!Connect
    <2>2. org[s] = None /\ org' = [org EXCEPT ![s] = None]
      BY <1>0, <2>1 DEF SessionTypes
    <2> QED
      BY <1>1, <2>1, <2>2
  <1>3. ASSUME NEW s \in Sessions, NEW o \in Tenants, V!Startup(s, o) PROVE ViewInv'
    <2>1. /\ phase[s] = "starting" /\ phase' = [phase EXCEPT ![s] = "idle"]
          /\ org' = [org EXCEPT ![s] = o] /\ UNCHANGED <<stored, registry, ddl, skipped, raced>>
      BY <1>3 DEF V!Startup, V!history
    <2> QED
      BY <1>0, <1>1, <2>1
  <1>4. ASSUME NEW s \in Sessions, V!Disconnect(s) PROVE ViewInv'
    <2>1. /\ phase[s] \in {"starting", "idle"} /\ phase' = [phase EXCEPT ![s] = "closed"]
          /\ org' = [org EXCEPT ![s] = None] /\ UNCHANGED <<stored, registry, ddl, skipped, raced>>
      BY <1>4 DEF V!Disconnect, V!history
    <2> QED
      BY <1>0, <1>1, <2>1
  \* A statement that ends, having written nothing.
  <1>5. ASSUME NEW s \in Sessions, V!Ends(s), phase[s] \in {"get", "put", "delete"},
               UNCHANGED <<stored, registry, org, skipped, raced>>
        PROVE  ViewInv'
    <2>1. /\ phase'[s] = "idle"
          /\ \A t \in Sessions : t # s => phase'[t] = phase[t] /\ ddl'[t] = ddl[t]
          /\ phase' \in [Sessions -> Phases] /\ ddl' \in [Sessions -> Ddls \cup {None}]
      BY <1>0, <1>5 DEF V!Ends, Phases
    <2>2. SessionTypes(s)' /\ ~V!Busy(s)'
      BY <1>0, <1>5, <2>1 DEF SessionTypes, V!Busy
    <2>3. Written(s)' /\ \A q \in Tenants, n \in Names : ~WorksOn(s, q, n)'
      BY <2>2 DEF Written, WorksOn
    <2> QED
      BY <1>0, <1>5, <2>1, <2>2, <2>3, QuietStep
  <1>6. ASSUME NEW s \in Sessions, V!Begin(s) PROVE ViewInv'
    <2>1. /\ phase[s] = "idle" /\ phase' = [phase EXCEPT ![s] = "get"]
          /\ UNCHANGED <<stored, registry, tables, org, skipped, missed>>
      BY <1>6 DEF V!Begin
    <2>2. PICK st \in V!Statements :
            /\ ddl' = [ddl EXCEPT ![s] = st]
            /\ raced' = IF \/ \E t \in Sessions \ {s} : /\ V!Busy(t) /\ org[t] = org[s]
                                                        /\ ddl[t].name = st.name
                           \/ \E w \in loose : w.org = org[s] /\ w.name = st.name
                           THEN raced \cup {<<org[s], st.name>>} ELSE raced
      BY <1>6 DEF V!Begin
    <2>3. st \in Ddls /\ (st.op # "drop" => st.body \in V!Bodies)
      BY DEF V!Statements, Ddls
    <2>4. /\ phase'[s] = "get" /\ ddl'[s] = st /\ org[s] \in Tenants
          /\ \A t \in Sessions : t # s => phase'[t] = phase[t] /\ ddl'[t] = ddl[t]
          /\ phase' \in [Sessions -> Phases] /\ ddl' \in [Sessions -> Ddls \cup {None}]
      BY <1>0, <2>1, <2>2, <2>3 DEF Phases, SessionTypes
    <2>5. raced \subseteq raced'
      BY <2>2
    <2>6. SessionTypes(s)'
      BY <2>1, <2>3, <2>4 DEF SessionTypes, V!Busy
    <2>7. Written(s)'
      BY <2>4 DEF Written
    <2>8. ASSUME NEW t \in Sessions, NEW o \in Tenants, NEW n \in Names,
                 t # s, WorksOn(s, o, n)', WorksOn(t, o, n)
          PROVE  <<o, n>> \in raced'
      <3>1. org[s] = o /\ st.name = n /\ V!Busy(t) /\ org[t] = o /\ ddl[t].name = n
        BY <2>1, <2>4, <2>8 DEF WorksOn
      <3> QED
        BY <2>2, <2>8, <3>1
    <2> QED
      BY <1>0, <2>1, <2>4, <2>5, <2>6, <2>7, <2>8, QuietStep
  <1>7. ASSUME NEW s \in Sessions, V!Get(s) PROVE ViewInv'
    <2>1. phase[s] = "get" /\ UNCHANGED <<stored, registry, org, skipped, raced>>
      BY <1>7 DEF V!Get, V!history
    <2>2. CASE V!Ends(s)
      BY <1>5, <2>1, <2>2
    <2>3. CASE /\ ~(ddl[s].op = "create" /\ V!At(s) # None)
               /\ phase' = [phase EXCEPT ![s] = IF ddl[s].op = "drop" THEN "delete" ELSE "put"]
               /\ ddl' = [ddl EXCEPT ![s].found = V!At(s)]
      <3>1. /\ V!Busy(s) /\ ddl[s] \in Ddls /\ org[s] \in Tenants /\ ddl[s].name \in Names
            /\ ddl[s].op # "drop" => ddl[s].body \in V!Bodies
        BY <1>0, <2>1 DEF SessionTypes, V!Busy, Ddls
      <3>2. V!At(s) \in V!Bodies \cup {None}
        BY <1>0, <3>1 DEF V!At
      <3>3. ddl'[s] = [ddl[s] EXCEPT !.found = V!At(s)]
        BY <1>0, <2>3
      <3>4. /\ ddl'[s] \in Ddls /\ ddl'[s].op = ddl[s].op /\ ddl'[s].name = ddl[s].name
            /\ ddl'[s].body = ddl[s].body /\ ddl'[s].found = V!At(s)
        BY <3>1, <3>2, <3>3 DEF Ddls
      <3>5. /\ phase'[s] = IF ddl[s].op = "drop" THEN "delete" ELSE "put"
            /\ phase' \in [Sessions -> Phases] /\ ddl' \in [Sessions -> Ddls \cup {None}]
            /\ \A t \in Sessions : t # s => phase'[t] = phase[t] /\ ddl'[t] = ddl[t]
        <4>1. (IF ddl[s].op = "drop" THEN "delete" ELSE "put") \in Phases
          BY DEF Phases
        <4> QED
          BY <1>0, <2>3, <3>3, <3>4, <4>1
      <3>6. SessionTypes(s)'
        BY <2>1, <3>1, <3>4, <3>5 DEF SessionTypes, V!Busy
      <3>7. Written(s)'
        BY <2>1, <2>3, <3>4, <3>5 DEF Written, WorksOn, V!At
      <3>8. \A t \in Sessions, o \in Tenants, n \in Names :
               t # s /\ WorksOn(s, o, n)' /\ WorksOn(t, o, n) => <<o, n>> \in raced'
        BY <1>0, <2>1, <3>1, <3>4 DEF WorksOn, Alone
      <3>9. phase[s] \notin {"register", "unregister"} /\ phase'[s] \notin {"register", "unregister"}
        BY <2>1, <3>5
      <3> QED
        BY <1>0, <2>1, <3>5, <3>6, <3>7, <3>8, <3>9, QuietStep
    <2> QED
      BY <1>7, <2>2, <2>3 DEF V!Get
  <1>8. ASSUME NEW s \in Sessions, V!StoreFails(s) PROVE ViewInv'
    BY <1>5, <1>8 DEF V!StoreFails, V!history
  \* The store is written: the statement goes on to the registry.
  <1>9. ASSUME NEW s \in Sessions, NEW b \in V!Bodies \cup {None}, NEW p \in {"register", "unregister"},
               V!Store(s, b), V!Goes(s, p), phase[s] \in {"put", "delete"},
               p = "register" => phase[s] = "put" /\ b = ddl[s].body,
               p = "unregister" => b = None,
               UNCHANGED <<registry, org, skipped, raced>>
        PROVE  ViewInv'
    <2>1. PICK o, n : o = org[s] /\ n = ddl[s].name
      OBVIOUS
    <2>2. o \in Tenants /\ n \in Names /\ WorksOn(s, o, n) /\ ddl[s] \in Ddls
      BY <1>0, <1>9, <2>1 DEF SessionTypes, V!Busy, Ddls, WorksOn
    <2>3. /\ stored' \in [Tenants -> [Names -> V!Bodies \cup {None}]] /\ stored'[o][n] = b
          /\ \A q \in Tenants, m \in Names : q # o \/ m # n => stored'[q][m] = stored[q][m]
      BY <1>0, <1>9, <2>1, <2>2 DEF V!Store
    <2>4. /\ ddl' = ddl /\ phase'[s] = p /\ phase' \in [Sessions -> Phases]
          /\ \A t \in Sessions : t # s => phase'[t] = phase[t]
      BY <1>0, <1>9 DEF V!Goes, Phases
    <2>5. SessionTypes(s)'
      BY <1>0, <1>9, <2>4 DEF SessionTypes, V!Busy
    <2>6. Written(s)'
      <3>1. WorksOn(s, o, n) /\ \A q \in Tenants, m \in Names : WorksOn(s, q, m)' => q = o /\ m = n
        BY <1>9, <2>1, <2>2, <2>4 DEF WorksOn
      <3>2. <<o, n>> \notin raced /\ ddl[s].op = "create" => ddl[s].found = None
        BY <1>0, <1>9, <2>2 DEF Written
      <3> QED
        BY <1>9, <2>3, <2>4, <3>1, <3>2 DEF Written
    <2>7. Synced(o, n)'
      BY <1>9, <2>1, <2>4 DEF Synced
    <2>8. /\ registry' \in [Tenants -> [Names -> V!Bodies \cup {None}]]
          /\ phase' \in [Sessions -> Phases] /\ ddl' \in [Sessions -> Ddls \cup {None}]
          /\ raced' = raced /\ org' = org
          /\ V!Busy(s)' => ddl'[s].name = n
          /\ \A q \in Tenants, m \in Names :
                q # o \/ m # n => /\ stored'[q][m] = stored[q][m] /\ registry'[q][m] = registry[q][m]
                                  /\ <<q, m>> \in skipped => <<q, m>> \in skipped'
          /\ \A t \in Sessions : t # s => phase'[t] = phase[t] /\ ddl'[t] = ddl[t]
      BY <1>0, <1>9, <2>1, <2>3, <2>4
    <2> QED
      BY <2>2, <2>3, <2>5, <2>6, <2>7, <2>8, OwnStep, ZenonT(60)
  \* The registry is written: it is what the store is.
  <1>10. ASSUME NEW s \in Sessions, NEW b \in V!Bodies \cup {None},
                NEW p \in {"idle", "delete"}, NEW d \in Ddls \cup {None},
                phase[s] \in {"register", "unregister"}, V!SetLive(s, b),
                phase[s] = "register" => b = ddl[s].body,
                phase[s] = "unregister" => b = None,
                phase' = [phase EXCEPT ![s] = p], ddl' = [ddl EXCEPT ![s] = d],
                p = "delete" => d = ddl[s],
                skipped' = skipped \ {<<org[s], ddl[s].name>>},
                UNCHANGED <<stored, org, raced>>
         PROVE  ViewInv'
    <2>1. PICK o, n : o = org[s] /\ n = ddl[s].name
      OBVIOUS
    <2>2. o \in Tenants /\ n \in Names /\ WorksOn(s, o, n) /\ ddl[s] \in Ddls
      BY <1>0, <1>10, <2>1 DEF SessionTypes, V!Busy, Ddls, WorksOn
    <2>3. /\ registry' \in [Tenants -> [Names -> V!Bodies \cup {None}]] /\ registry'[o][n] = b
          /\ \A q \in Tenants, m \in Names : q # o \/ m # n => registry'[q][m] = registry[q][m]
      BY <1>0, <1>10, <2>1, <2>2 DEF V!SetLive
    <2>4. /\ phase'[s] = p /\ ddl'[s] = d
          /\ phase' \in [Sessions -> Phases] /\ ddl' \in [Sessions -> Ddls \cup {None}]
          /\ \A t \in Sessions : t # s => phase'[t] = phase[t] /\ ddl'[t] = ddl[t]
      BY <1>0, <1>10 DEF Phases
    <2>5. \A q \in Tenants, m \in Names : q # o \/ m # n => (<<q, m>> \in skipped => <<q, m>> \in skipped')
      BY <1>10, <2>1
    <2>6. SessionTypes(s)' /\ (V!Busy(s)' => ddl'[s].name = n)
      BY <1>0, <1>10, <2>1, <2>4 DEF SessionTypes, V!Busy
    <2>7. Written(s)'
      <3>1. CASE p = "idle"
        BY <3>1, <2>4 DEF Written, WorksOn, V!Busy
      <3>2. CASE p = "delete"
        <4>1. \A q \in Tenants, m \in Names : WorksOn(s, q, m)' => q = o /\ m = n
          BY <1>10, <2>1, <2>4, <3>2 DEF WorksOn
        <4>2. <<o, n>> \notin raced /\ ddl[s].op = "create" => ddl[s].found = None
          BY <1>0, <1>10, <2>2 DEF Written
        <4> QED
          BY <1>10, <2>4, <3>2, <4>1, <4>2 DEF Written
      <3> QED
        BY <3>1, <3>2
    <2>8. ASSUME <<o, n>> \notin raced PROVE Synced(o, n)'
      <3>1. stored[o][n] = b
        BY <1>0, <1>10, <2>2, <2>8 DEF Written
      <3> QED
        BY <1>10, <2>3, <3>1 DEF Synced
    <2>9. /\ ViewInv /\ stored' \in [Tenants -> [Names -> V!Bodies \cup {None}]]
          /\ raced' = raced /\ org' = org
          /\ \A q \in Tenants, m \in Names :
                q # o \/ m # n => /\ stored'[q][m] = stored[q][m] /\ registry'[q][m] = registry[q][m]
                                  /\ <<q, m>> \in skipped => <<q, m>> \in skipped'
      BY <1>0, <1>10, <2>3, <2>5
    <2> QED
      BY <2>2, <2>3, <2>4, <2>6, <2>7, <2>8, <2>9, OwnStep, ZenonT(60)
  <1>11. ASSUME NEW s \in Sessions, V!PutDerivedProduct(s) PROVE ViewInv'
    <2>1. ddl[s].body \in V!Bodies
      BY <1>0, <1>11 DEF V!PutDerivedProduct, SessionTypes, V!Busy
    <2> QED
      BY <1>9, <1>11, <2>1 DEF V!PutDerivedProduct, V!history
  <1>12. ASSUME NEW s \in Sessions, V!DeleteDerivedProduct(s) PROVE ViewInv'
    BY <1>9, <1>12 DEF V!DeleteDerivedProduct, V!history
  <1>13. ASSUME NEW s \in Sessions, V!Register(s) PROVE ViewInv'
    <2>1. /\ phase[s] = "register" /\ V!SetLive(s, ddl[s].body) /\ UNCHANGED <<stored, org, raced>>
          /\ skipped' = skipped \ {<<org[s], ddl[s].name>>}
      BY <1>13 DEF V!Register
    <2>2. ddl[s].body \in V!Bodies /\ ddl[s] \in Ddls /\ ddl = [ddl EXCEPT ![s] = ddl[s]]
      BY <1>0, <2>1 DEF SessionTypes, V!Busy
    <2>3. CASE V!Ends(s)
      BY <1>10, <2>1, <2>2, <2>3 DEF V!Ends
    <2>4. CASE V!OnRegisterError(s)
      BY <1>10, <2>1, <2>2, <2>4 DEF V!OnRegisterError, V!Goes
    <2> QED
      BY <1>13, <2>3, <2>4 DEF V!Register
  <1>14. ASSUME NEW s \in Sessions, V!Unregister(s) PROVE ViewInv'
    BY <1>10, <1>14 DEF V!Unregister, V!Ends
  <1>15. ASSUME NEW down \in SUBSET Sources, NEW listed \in V!ListedAtBoot, V!Restart(down, listed)
         PROVE  ViewInv'
    <2>1. /\ registry' = [o \in Tenants |-> V!BootViews(o, down, listed)]
          /\ org' = [s \in Sessions |-> None] /\ phase' = [s \in Sessions |-> "closed"]
          /\ ddl' = [s \in Sessions |-> None] /\ raced' = {} /\ stored' = stored
          /\ skipped' = {v \in Tenants \X Names :
                            \/ v[1] = BootOrg /\ Products[v[2]] # None
                            \/ stored[v[1]][v[2]] \in OverViews \cup down
                            \/ stored[v[1]][v[2]] # None /\ v[1] \notin listed}
      BY <1>15 DEF V!Restart
    <2>2. Products \in [Names -> V!Bodies \cup {None}] /\ None \notin Sources
      BY DEF V!ViewConstants, V!Bodies
    <2>3. ASSUME NEW o \in Tenants, NEW n \in Names
          PROVE  /\ registry'[o][n] \in V!Bodies \cup {None}
                 /\ registry'[o][n] = stored[o][n] \/ <<o, n>> \in skipped'
      <3>1. registry'[o][n] =
              IF o = BootOrg /\ Products[n] \in Sources \ down THEN Products[n]
              ELSE IF o \in listed /\ stored[o][n] \in Sources \ down THEN stored[o][n] ELSE None
        BY <2>1 DEF V!BootViews, V!PlansAtBoot
      <3>2. stored[o][n] \in V!Bodies \cup {None}
        BY <1>0
      <3>3. /\ o = BootOrg /\ Products[n] # None => <<o, n>> \in skipped'
            /\ stored[o][n] \in OverViews \cup down => <<o, n>> \in skipped'
            /\ stored[o][n] # None /\ o \notin listed => <<o, n>> \in skipped'
        BY <2>1
      <3> QED
        BY <2>2, <3>1, <3>2, <3>3 DEF V!Bodies
    <2>4. registry' \in [Tenants -> [Names -> V!Bodies \cup {None}]]
      <3>1. registry' \in [Tenants -> [Names -> {registry'[o][n] : o \in Tenants, n \in Names}]]
        BY <2>1 DEF V!BootViews
      <3> QED
        BY <2>1, <2>3, <3>1 DEF V!BootViews
    <2>5. /\ org' \in [Sessions -> Tenants \cup {None}] /\ phase' \in [Sessions -> Phases]
          /\ ddl' \in [Sessions -> Ddls \cup {None}]
      BY <2>1 DEF Phases
    <2>6. \A s \in Sessions : SessionTypes(s)' /\ ~V!Busy(s)'
      BY <2>1 DEF SessionTypes, V!Busy
    <2>7. ViewTypes'
      BY <1>0, <2>1, <2>4, <2>5, <2>6 DEF ViewTypes
    <2>8. Alone' /\ \A s \in Sessions : Written(s)'
      BY <2>6 DEF Alone, Written, WorksOn
    <2>9. \A o \in Tenants, n \in Names : Synced(o, n)'
      BY <2>1, <2>3 DEF Synced
    <2> QED
      BY <2>7, <2>8, <2>9 DEF ViewInv
  <1>16. ASSUME NEW w \in loose, V!Land(w) PROVE ViewInv'
    <2>1. /\ w.org \in Tenants /\ w.name \in Names /\ w.body \in V!Bodies \cup {None}
          /\ \A s \in Sessions : WorksOn(s, w.org, w.name) => <<w.org, w.name>> \in raced
      BY <1>16 DEF LooseInv, Writes
    <2>2. PICK o \in Tenants, n \in Names : o = w.org /\ n = w.name
      BY <2>1
    <2>3. /\ stored' = [stored EXCEPT ![o][n] = w.body] /\ skipped' = skipped \cup {<<o, n>>}
          /\ UNCHANGED <<registry, org, phase, ddl, raced>>
      BY <1>16, <2>2 DEF V!Land
    <2>4. /\ stored' \in [Tenants -> [Names -> V!Bodies \cup {None}]]
          /\ \A q \in Tenants, m \in Names : q # o \/ m # n => stored'[q][m] = stored[q][m]
      BY <1>0, <2>1, <2>3
    <2>5. ViewTypes' /\ Alone'
      BY <1>0, <2>3, <2>4 DEF ViewTypes, SessionTypes, Alone, WorksOn, V!Busy
    <2>6. ASSUME NEW s \in Sessions PROVE Written(s)'
      <3> SUFFICES ASSUME NEW q \in Tenants, NEW m \in Names, WorksOn(s, q, m), <<q, m>> \notin raced
                   PROVE  stored'[q][m] = stored[q][m]
        BY <1>0, <2>3 DEF Written, WorksOn, V!Busy
      <3>1. q # o \/ m # n
        BY <2>1, <2>2
      <3> QED
        BY <2>4, <3>1
    <2>7. ASSUME NEW q \in Tenants, NEW m \in Names PROVE Synced(q, m)'
      <3>1. CASE q = o /\ m = n
        BY <2>3, <3>1 DEF Synced
      <3>2. CASE q # o \/ m # n
        <4>1. Synced(q, m) /\ stored'[q][m] = stored[q][m]
          BY <1>0, <2>4, <3>2
        <4> QED
          BY <2>3, <4>1 DEF Synced
      <3> QED
        BY <3>1, <3>2
    <2> QED
      BY <2>5, <2>6, <2>7 DEF ViewInv
  <1>17. CASE UNCHANGED V!vars
    BY <1>0, <1>17 DEF V!vars, ViewInv, ViewTypes, SessionTypes, Alone, Written, Synced, WorksOn, V!Busy
  <1> QED
    BY <1>2, <1>3, <1>4, <1>6, <1>7, <1>8, <1>11, <1>12, <1>13, <1>14, <1>15, <1>16, <1>17 DEF V!Next

\* LooseInv is inductive, beside ViewInv.
LEMMA LooseInductive ==
    ASSUME V!ViewConstants
    PROVE  ViewInv /\ LooseInv /\ [V!Next]_(V!vars) => LooseInv'
  <1> SUFFICES ASSUME ViewInv, LooseInv, [V!Next]_(V!vars) PROVE LooseInv'
    OBVIOUS
  <1>0. /\ org \in [Sessions -> Tenants \cup {None}] /\ phase \in [Sessions -> Phases]
        /\ ddl \in [Sessions -> Ddls \cup {None}]
        /\ \A s \in Sessions : SessionTypes(s)
        /\ Alone
    BY DEF ViewInv, ViewTypes
  <1>w. /\ loose \subseteq Writes
        /\ \A w \in loose, s \in Sessions : WorksOn(s, w.org, w.name) => <<w.org, w.name>> \in raced
    BY DEF LooseInv
  \* A step of a session that starts no statement and gives no write up.
  <1>1. ASSUME NEW s \in Sessions, loose' \subseteq loose, raced' = raced,
               \A t \in Sessions : t # s => phase'[t] = phase[t] /\ org'[t] = org[t] /\ ddl'[t] = ddl[t],
               V!Busy(s)' => V!Busy(s) /\ org'[s] = org[s] /\ ddl'[s].name = ddl[s].name
        PROVE  LooseInv'
    <2>1. ASSUME NEW t \in Sessions, NEW o, NEW n, WorksOn(t, o, n)' PROVE WorksOn(t, o, n)
      <3>1. CASE t = s
        BY <1>1, <2>1, <3>1 DEF WorksOn
      <3>2. CASE t # s
        BY <1>1, <2>1, <3>2 DEF WorksOn, V!Busy
      <3> QED
        BY <3>1, <3>2
    <2>2. ASSUME NEW w \in loose', NEW t \in Sessions, WorksOn(t, w.org, w.name)'
          PROVE  <<w.org, w.name>> \in raced'
      <3>1. PICK o, n : o = w.org /\ n = w.name
        OBVIOUS
      <3>2. WorksOn(t, o, n)
        BY <2>1, <2>2, <3>1
      <3> QED
        BY <1>1, <1>w, <3>1, <3>2
    <2>3. loose' \subseteq Writes
      BY <1>1, <1>w
    <2> QED
      BY <2>2, <2>3 DEF LooseInv, Writes
  <1>2. ASSUME NEW s \in Sessions,
               V!Connect(s) \/ (\E o \in Tenants : V!Startup(s, o)) \/ V!Disconnect(s)
        PROVE  LooseInv'
    <2>1. /\ \E p \in {"closed", "starting", "idle"} : phase' = [phase EXCEPT ![s] = p]
          /\ \E o \in Tenants \cup {None, org[s]} : org' = [org EXCEPT ![s] = o]
          /\ UNCHANGED <<ddl, loose, raced>>
      <3>1. org = [org EXCEPT ![s] = org[s]]
        BY <1>0
      <3> QED
        BY <1>2, <3>1 DEF V!Connect, V!Startup, V!Disconnect, V!history
    <2>2. ~V!Busy(s)' /\ \A t \in Sessions : t # s => phase'[t] = phase[t] /\ org'[t] = org[t]
      BY <1>0, <2>1 DEF V!Busy
    <2> QED
      BY <1>1, <2>1, <2>2
  <1>3. ASSUME NEW s \in Sessions, V!Begin(s) PROVE LooseInv'
    <2>1. PICK st \in V!Statements :
            /\ ddl' = [ddl EXCEPT ![s] = st]
            /\ raced' = IF \/ \E t \in Sessions \ {s} : /\ V!Busy(t) /\ org[t] = org[s]
                                                        /\ ddl[t].name = st.name
                           \/ \E w \in loose : w.org = org[s] /\ w.name = st.name
                           THEN raced \cup {<<org[s], st.name>>} ELSE raced
      BY <1>3 DEF V!Begin
    <2>2. phase' = [phase EXCEPT ![s] = "get"] /\ loose' = loose /\ org' = org
      BY <1>3 DEF V!Begin
    <2>3. ASSUME NEW w \in loose, NEW t \in Sessions, WorksOn(t, w.org, w.name)'
          PROVE  <<w.org, w.name>> \in raced'
      <3>1. CASE t = s
        <4>1. org[s] = w.org /\ st.name = w.name
          BY <1>0, <2>1, <2>2, <2>3, <3>1 DEF WorksOn
        <4> QED
          BY <2>1, <4>1
      <3>2. CASE t # s
        <4>1. WorksOn(t, w.org, w.name)
          BY <1>0, <2>1, <2>2, <2>3, <3>2 DEF WorksOn, V!Busy
        <4> QED
          BY <1>w, <2>1, <4>1
      <3> QED
        BY <3>1, <3>2
    <2> QED
      BY <1>w, <2>2, <2>3 DEF LooseInv, Writes
  <1>4. ASSUME NEW s \in Sessions, V!Get(s) PROVE LooseInv'
    <2>1. phase[s] = "get" /\ UNCHANGED <<org, loose, raced>>
      BY <1>4 DEF V!Get, V!history
    <2>2. CASE V!Ends(s)
      <3>1. ~V!Busy(s)' /\ \A t \in Sessions : t # s => phase'[t] = phase[t] /\ ddl'[t] = ddl[t]
        BY <1>0, <2>2 DEF V!Ends, V!Busy
      <3> QED
        BY <1>1, <2>1, <3>1
    <2>3. CASE /\ phase' = [phase EXCEPT ![s] = IF ddl[s].op = "drop" THEN "delete" ELSE "put"]
               /\ ddl' = [ddl EXCEPT ![s].found = V!At(s)]
      <3>1. V!Busy(s) /\ ddl[s] \in Ddls
        BY <1>0, <2>1 DEF SessionTypes, V!Busy
      <3>2. /\ ddl'[s].name = ddl[s].name
            /\ \A t \in Sessions : t # s => phase'[t] = phase[t] /\ ddl'[t] = ddl[t]
        BY <1>0, <2>3, <3>1 DEF Ddls
      <3> QED
        BY <1>1, <2>1, <3>1, <3>2
    <2> QED
      BY <1>4, <2>2, <2>3 DEF V!Get
  <1>5. ASSUME NEW s \in Sessions,
               V!PutDerivedProduct(s) \/ V!DeleteDerivedProduct(s) \/ V!Register(s) \/ V!Unregister(s)
        PROVE  LooseInv'
    <2>1. /\ V!Busy(s) /\ UNCHANGED <<org, loose, raced>>
          /\ V!Ends(s) \/ \E p \in Phases : V!Goes(s, p)
      BY <1>5 DEF V!PutDerivedProduct, V!DeleteDerivedProduct, V!Register, V!Unregister, V!OnRegisterError,
                  V!history, V!Busy, Phases
    <2>2. /\ V!Busy(s)' => ddl'[s] = ddl[s]
          /\ \A t \in Sessions : t # s => phase'[t] = phase[t] /\ ddl'[t] = ddl[t]
      BY <1>0, <2>1 DEF V!Ends, V!Goes, V!Busy
    <2> QED
      BY <1>1, <2>1, <2>2
  <1>6. ASSUME NEW s \in Sessions, V!StoreFails(s) PROVE LooseInv'
    <2>1. /\ V!Busy(s) /\ V!Ends(s) /\ UNCHANGED <<org, raced>>
          /\ loose' = loose \/ (phase[s] # "get" /\ loose' = loose \cup {V!Asked(s)})
      BY <1>6 DEF V!StoreFails, V!history, V!Busy
    <2>2. ~V!Busy(s)' /\ \A t \in Sessions : t # s => phase'[t] = phase[t] /\ ddl'[t] = ddl[t]
      BY <1>0, <2>1 DEF V!Ends, V!Busy
    <2>3. CASE loose' = loose
      BY <1>1, <2>1, <2>2, <2>3
    <2>4. CASE loose' = loose \cup {V!Asked(s)}
      <3>1. /\ ddl[s] \in Ddls /\ org[s] \in Tenants /\ ddl[s].name \in Names
            /\ ddl[s].body \in V!Bodies \cup {None}
        BY <1>0, <2>1 DEF SessionTypes, V!Busy, Ddls
      <3>2. V!Asked(s) \in Writes /\ V!Asked(s).org = org[s] /\ V!Asked(s).name = ddl[s].name
        BY <3>1 DEF V!Asked, Writes
      <3>3. ASSUME NEW w \in loose', NEW t \in Sessions, WorksOn(t, w.org, w.name)'
            PROVE  <<w.org, w.name>> \in raced'
        <4>1. t # s /\ WorksOn(t, w.org, w.name)
          BY <2>1, <2>2, <3>3 DEF WorksOn, V!Busy
        <4>2. CASE w \in loose
          BY <1>w, <2>1, <4>1, <4>2
        <4>3. CASE w = V!Asked(s)
          <5>1. w.org \in Tenants /\ w.name \in Names /\ WorksOn(s, w.org, w.name)
            BY <2>1, <3>1, <3>2, <4>3 DEF WorksOn
          <5> QED
            BY <1>0, <2>1, <4>1, <5>1 DEF Alone
        <4> QED
          BY <2>4, <4>2, <4>3
      <3>4. loose' \subseteq Writes
        BY <1>w, <2>4, <3>2
      <3> QED
        BY <3>3, <3>4 DEF LooseInv, Writes
    <2> QED
      BY <2>1, <2>3, <2>4
  <1>7. ASSUME NEW w \in loose, V!Land(w) PROVE LooseInv'
    BY <1>7, <1>w DEF V!Land, LooseInv, Writes, WorksOn, V!Busy
  <1>8. ASSUME NEW down, NEW listed, V!Restart(down, listed) PROVE LooseInv'
    BY <1>8 DEF V!Restart, LooseInv
  <1>9. CASE UNCHANGED V!vars
    BY <1>9, <1>w DEF V!vars, LooseInv, Writes, WorksOn, V!Busy
  <1> QED
    BY <1>2, <1>3, <1>4, <1>5, <1>6, <1>7, <1>8, <1>9 DEF V!Next

\* The initial state, and the end of each statement that fails.
LEMMA ViewStarts == ASSUME V!ViewConstants PROVE V!Init => ViewInv /\ LooseInv
  <1> SUFFICES ASSUME V!Init PROVE ViewInv /\ LooseInv
    OBVIOUS
  <1>0. LooseInv
    BY DEF V!Init, LooseInv
  <1>1. /\ stored = [o \in Tenants |-> [n \in Names |-> None]]
        /\ registry = [o \in Tenants |->
              IF o = BootOrg THEN [n \in Names |-> IF Products[n] \in Sources THEN Products[n] ELSE None]
              ELSE [n \in Names |-> None]]
        /\ org = [s \in Sessions |-> None] /\ phase = [s \in Sessions |-> "closed"]
        /\ ddl = [s \in Sessions |-> None]
        /\ skipped = {<<BootOrg, n>> : n \in {n \in Names : Products[n] # None}}
    BY DEF V!Init, V!NoViews
  <1>2. None \notin Sources /\ Sources \subseteq V!Bodies
    BY DEF V!ViewConstants, V!Bodies
  <1>3. ASSUME NEW o \in Tenants, NEW n \in Names
        PROVE  registry[o][n] \in V!Bodies \cup {None} /\ Synced(o, n)
    <2>1. CASE o = BootOrg /\ Products[n] \in Sources
      BY <1>1, <1>2, <2>1 DEF Synced
    <2>2. CASE ~(o = BootOrg /\ Products[n] \in Sources)
      <3>1. registry[o][n] = None /\ stored[o][n] = None
        BY <1>1, <2>2
      <3> QED
        BY <3>1 DEF Synced
    <2> QED
      BY <2>1, <2>2
  <1>4. registry \in [Tenants -> [Names -> V!Bodies \cup {None}]]
    BY <1>1, <1>3
  <1>5. \A s \in Sessions : SessionTypes(s) /\ ~V!Busy(s)
    BY <1>1 DEF SessionTypes, V!Busy
  <1>6. ViewTypes
    BY <1>1, <1>4, <1>5 DEF ViewTypes, Phases
  <1> QED
    BY <1>0, <1>3, <1>5, <1>6 DEF ViewInv, Alone, Written, WorksOn

\* For any organisations, names, sources and sessions, whatever the store
\* refuses or makes without an answer, whatever is cancelled and whenever the
\* process restarts, on one catalog list or on many: between statements the
\* registry that fills a new session has exactly the stored views, but those
\* the last boot left out, those a statement cut off at its write has written
\* and no other since, and those two statements worked on at once.
THEOREM NewSessionsAlwaysSeeStored ==
    ASSUME V!ViewConstants
    PROVE  V!Spec => [](V!NewSessionsSeeStored /\ NewSessionsSeeStored)
  <1>1. ViewInv => V!NewSessionsSeeStored
    <2> SUFFICES ASSUME ViewInv, NEW o \in Tenants, NEW n \in Names
                 PROVE  \/ registry[o][n] = stored[o][n]
                        \/ <<o, n>> \in skipped \cup raced
                        \/ \E s \in Sessions : V!Busy(s) /\ org[s] = o /\ ddl[s].name = n
      BY DEF V!NewSessionsSeeStored
    <2> QED
      BY DEF ViewInv, Synced, V!Busy
  <1>2. ViewInv => NewSessionsSeeStored
    BY <1>1 DEF NewSessionsSeeStored
  <1> QED
    BY <1>1, <1>2, ViewStarts, ViewInductive, LooseInductive, PTL DEF V!Spec

\* A CREATE VIEW that fails after its put_derived_product, overlapped no other
\* statement on the view and is not cut off at its rollback's delete leaves
\* nothing in the store: its rollback deletes what it stored, and it stored
\* only where there was nothing.
THEOREM FailedCreateIsUndone ==
    ASSUME V!ViewConstants
    PROVE  V!Spec => V!FailedCreateLeavesNothing /\ FailedCreateLeavesNothing
  <1>1. ViewInv /\ [V!Next]_(V!vars) => [V!FailedCreateStep]_(V!vars)
    <2> SUFFICES ASSUME ViewInv, V!Next, NEW s \in Sessions, V!FailsAlone(s), ddl[s].op = "create"
                 PROVE  stored'[org[s]][ddl[s].name] = ddl[s].found
      BY DEF V!FailedCreateStep
    <2>0. /\ phase[s] \in {"register", "unregister"} /\ phase'[s] = "idle"
          /\ ~(phase[s] = "register" /\ V!Registers(s))
          /\ <<org[s], ddl[s].name>> \notin raced
      BY DEF V!FailsAlone
    <2>1. /\ phase \in [Sessions -> Phases] /\ SessionTypes(s) /\ Written(s) /\ V!Busy(s)
          /\ ddl[s] \in Ddls /\ org[s] \in Tenants /\ ddl[s].name \in Names
      BY <2>0 DEF ViewInv, ViewTypes, SessionTypes, V!Busy, Ddls
    <2>2. /\ ddl[s].found = None
          /\ phase[s] = "unregister" => stored[org[s]][ddl[s].name] = None
      BY <2>0, <2>1 DEF Written, WorksOn
    <2>3. phase[s] # "register" /\ stored' = stored
      <3>1. PICK t \in Sessions :
              \/ V!Connect(t) \/ (\E o \in Tenants : V!Startup(t, o)) \/ V!Disconnect(t)
              \/ V!Begin(t) \/ V!Get(t) \/ V!PutDerivedProduct(t) \/ V!StoreFails(t) \/ V!Register(t)
              \/ V!DeleteDerivedProduct(t) \/ V!Unregister(t)
        BY <2>0 DEF V!Next, V!Restart, V!Land
      <3>2. t = s
        <4>1. ASSUME t # s PROVE phase'[s] = phase[s]
          BY <2>1, <3>1, <4>1 DEF V!Connect, V!Startup, V!Disconnect, V!Begin, V!Get,
             V!PutDerivedProduct, V!StoreFails, V!Register, V!DeleteDerivedProduct, V!Unregister,
             V!Ends, V!Goes, V!OnRegisterError
        <4> QED
          BY <2>0, <4>1
      <3>3. V!Register(s) \/ V!Unregister(s)
        BY <2>0, <3>1, <3>2 DEF V!Connect, V!Startup, V!Disconnect, V!Begin, V!Get, V!PutDerivedProduct,
           V!StoreFails, V!DeleteDerivedProduct
      <3>4. ~V!Register(s)
        BY <2>0, <2>1 DEF V!Register, V!OnRegisterError, V!Goes
      <3> QED
        BY <2>0, <3>3, <3>4 DEF V!Unregister
    <2> QED
      BY <2>0, <2>2, <2>3
  <1>2. [V!FailedCreateStep]_(V!vars) => [moving = "views" => V!FailedCreateStep]_viewVars
    BY DEF V!vars, viewVars
  <1> QED
    BY <1>1, <1>2, ViewStarts, ViewInductive, LooseInductive, PTL
    DEF V!Spec, V!FailedCreateLeavesNothing, FailedCreateLeavesNothing

-----------------------------------------------------------------------------
(* Views: what a session resolves, where each session has its own catalog  *)
(* list.                                                                   *)

Resolved == [org : Tenants, body : V!Bodies]

\* A session that has not said who it is resolves views that the boot
\* organisation still has; one that has, views of its own organisation.
Isolated(s) ==
    s \notin missed =>
        /\ phase[s] = "starting" =>
              \A n \in Names : tables[s][n] # None =>
                  tables[s][n].org = BootOrg /\ registry[BootOrg][n] # None
        /\ org[s] # None =>
              \A n \in Names : tables[s][n] # None => tables[s][n].org = org[s]

TableInv ==
    /\ tables \in [Sessions -> [Names -> Resolved \cup {None}]]
    /\ \A s \in Sessions : Isolated(s)

\* A step of session s that may change its tables, and adds to the registry
\* or leaves it alone: the other sessions stay as they are.
LEMMA OtherSessionsKeep ==
    ASSUME V!ViewConstants, TableInv, NEW s \in Sessions, NEW f \in [Names -> Resolved \cup {None}],
           tables' = [tables EXCEPT ![s] = f],
           \A t \in Sessions : t # s => /\ phase'[t] = phase[t] /\ org'[t] = org[t]
                                        /\ t \in missed => t \in missed',
           \A n \in Names : registry[BootOrg][n] # None =>
               \/ registry'[BootOrg][n] # None
               \/ \A t \in Sessions : t # s /\ phase[t] = "starting" => t \in missed',
           Isolated(s)'
    PROVE  TableInv'
  <1>1. /\ tables' \in [Sessions -> [Names -> Resolved \cup {None}]] /\ tables'[s] = f
        /\ \A t \in Sessions : t # s => tables'[t] = tables[t]
    BY DEF TableInv
  <1>2. ASSUME NEW t \in Sessions, t # s PROVE Isolated(t)'
    <2>1. Isolated(t)
      BY DEF TableInv
    <2> QED
      BY <1>1, <1>2, <2>1 DEF Isolated
  <1> QED
    BY <1>1, <1>2 DEF TableInv

\* TableInv is inductive, beside ViewInv.
LEMMA TableInductive ==
    ASSUME V!ViewConstants, Shared = FALSE
    PROVE  ViewInv /\ TableInv /\ [V!Next]_(V!vars) => TableInv'
  <1> SUFFICES ASSUME ViewInv, TableInv, [V!Next]_(V!vars) PROVE TableInv'
    OBVIOUS
  <1>0. /\ registry \in [Tenants -> [Names -> V!Bodies \cup {None}]]
        /\ org \in [Sessions -> Tenants \cup {None}]
        /\ phase \in [Sessions -> Phases]
        /\ \A s \in Sessions : SessionTypes(s)
        /\ tables \in [Sessions -> [Names -> Resolved \cup {None}]]
        /\ \A s \in Sessions : Isolated(s)
        /\ None \notin Tenants /\ None \notin V!Bodies /\ BootOrg \in Tenants
    BY DEF ViewInv, ViewTypes, TableInv, V!ViewConstants
  <1>v. ASSUME NEW f \in [Names -> Resolved \cup {None}], NEW o \in Tenants
        PROVE  /\ V!WithViews(f, o) \in [Names -> Resolved \cup {None}]
               /\ \A n \in Names :
                     \/ V!WithViews(f, o)[n] = f[n]
                     \/ f[n] = None /\ V!WithViews(f, o)[n].org = o /\ registry[o][n] # None
    <2>1. \A n \in Names : registry[o][n] # None => [org |-> o, body |-> registry[o][n]] \in Resolved
      BY <1>0 DEF Resolved
    <2>2. \A n \in Names : V!WithViews(f, o)[n] =
            IF f[n] = None /\ registry[o][n] # None /\ n \notin ReadOnly
               THEN [org |-> o, body |-> registry[o][n]] ELSE f[n]
      BY DEF V!WithViews
    <2>3. V!WithViews(f, o) \in [Names -> Resolved \cup {None}]
      BY <2>1 DEF V!WithViews
    <2> QED
      BY <2>2, <2>3
  <1>n. V!NoViews \in [Names -> Resolved \cup {None}] /\ \A n \in Names : V!NoViews[n] = None
    BY DEF V!NoViews
  <1>s. \A s \in Sessions : tables = [tables EXCEPT ![s] = tables[s]]
    BY <1>0
  <1>1. ASSUME NEW s \in Sessions, V!Connect(s) PROVE TableInv'
    <2> DEFINE f == V!WithViews(V!NoViews, BootOrg)
    <2>1. /\ phase' = [phase EXCEPT ![s] = "starting"] /\ UNCHANGED <<registry, org>>
          /\ tables' = [tables EXCEPT ![s] = f] /\ missed' = missed \ {s} /\ phase[s] = "closed"
      BY <1>1 DEF V!Connect, V!SetTables
    <2>2. f \in [Names -> Resolved \cup {None}]
      BY <1>0, <1>n, <1>v
    <2>3. \A n \in Names : f[n] # None => f[n].org = BootOrg /\ registry[BootOrg][n] # None
      BY <1>0, <1>n, <1>v
    <2> HIDE DEF f
    <2>4. phase'[s] = "starting" /\ org'[s] = None /\ tables'[s] = f
      BY <1>0, <2>1 DEF SessionTypes
    <2>5. Isolated(s)'
      BY <2>1, <2>3, <2>4 DEF Isolated
    <2> QED
      BY <1>0, <2>1, <2>2, <2>5, OtherSessionsKeep
  \* The swap: what the boot organisation has now is taken out, and the
  \* session had nothing else.
  <1>2. ASSUME NEW s \in Sessions, NEW o \in Tenants, V!Startup(s, o) PROVE TableInv'
    <2>1. /\ phase[s] = "starting" /\ phase' = [phase EXCEPT ![s] = "idle"]
          /\ org' = [org EXCEPT ![s] = o] /\ UNCHANGED <<registry, missed>>
      BY <1>2 DEF V!Startup, V!history
    <2>2. phase'[s] = "idle" /\ org'[s] = o
      BY <1>0, <2>1
    <2>3. CASE o = BootOrg
      <3>1. tables' = [tables EXCEPT ![s] = tables[s]] /\ tables[s] \in [Names -> Resolved \cup {None}]
        BY <1>0, <1>2, <1>s, <2>3 DEF V!Startup
      <3>2. Isolated(s)'
        BY <1>0, <2>1, <2>2, <2>3, <3>1, <1>s DEF Isolated
      <3> QED
        BY <1>0, <2>1, <3>1, <3>2, OtherSessionsKeep
    <2>4. CASE o # BootOrg
      <3> DEFINE g == V!WithoutBootViews(tables[s])
                 f == V!WithViews(g, o)
      <3>1. tables' = [tables EXCEPT ![s] = f]
        BY <1>2, <2>4 DEF V!Startup, V!SetTables
      <3>2. g \in [Names -> Resolved \cup {None}]
        BY <1>0 DEF V!WithoutBootViews
      <3>3. s \notin missed => \A n \in Names : g[n] = None
        BY <1>0, <2>1 DEF V!WithoutBootViews, Isolated
      <3> HIDE DEF g
      <3>4. f \in [Names -> Resolved \cup {None}]
        BY <1>v, <3>2
      <3>5. s \notin missed => \A n \in Names : f[n] # None => f[n].org = o
        BY <1>v, <3>2, <3>3
      <3> HIDE DEF f
      <3>6. tables'[s] = f
        BY <1>0, <3>1
      <3>7. Isolated(s)'
        BY <2>1, <2>2, <3>5, <3>6 DEF Isolated
      <3> QED
        BY <1>0, <2>1, <3>1, <3>4, <3>7, OtherSessionsKeep
    <2> QED
      BY <2>3, <2>4
  <1>3. ASSUME NEW s \in Sessions, V!Disconnect(s) PROVE TableInv'
    <2>1. /\ phase' = [phase EXCEPT ![s] = "closed"] /\ org' = [org EXCEPT ![s] = None]
          /\ tables' = [tables EXCEPT ![s] = V!NoViews] /\ UNCHANGED <<registry, missed>>
      BY <1>3 DEF V!Disconnect, V!history
    <2>2. Isolated(s)'
      BY <1>0, <2>1 DEF Isolated
    <2> QED
      BY <1>0, <1>n, <2>1, <2>2, OtherSessionsKeep
  \* A step that touches neither the tables nor the registry.
  <1>4. ASSUME NEW s \in Sessions, UNCHANGED <<tables, registry, org, missed>>,
               phase[s] \notin {"closed", "starting"},
               \A t \in Sessions : t # s => phase'[t] = phase[t], phase'[s] # "starting"
        PROVE  TableInv'
    <2>1. tables' = [tables EXCEPT ![s] = tables[s]] /\ tables[s] \in [Names -> Resolved \cup {None}]
      BY <1>0, <1>4
    <2>2. Isolated(s)'
      BY <1>0, <1>4 DEF Isolated
    <2> QED
      BY <1>0, <1>4, <2>1, <2>2, OtherSessionsKeep
  <1>5. ASSUME NEW s \in Sessions, V!Begin(s) \/ V!Get(s) \/ V!PutDerivedProduct(s) \/ V!StoreFails(s)
                                   \/ V!DeleteDerivedProduct(s)
        PROVE  TableInv'
    <2>1. UNCHANGED <<tables, registry, org, missed>> /\ phase[s] \notin {"closed", "starting"}
      BY <1>5 DEF V!Begin, V!Get, V!PutDerivedProduct, V!StoreFails, V!DeleteDerivedProduct, V!history
    <2>2. PICK p \in Phases \ {"starting"} : phase' = [phase EXCEPT ![s] = p]
      BY <1>5 DEF V!Begin, V!Get, V!PutDerivedProduct, V!StoreFails, V!DeleteDerivedProduct,
                  V!Ends, V!Goes, Phases
    <2>3. (\A t \in Sessions : t # s => phase'[t] = phase[t]) /\ phase'[s] # "starting"
      BY <1>0, <2>2
    <2> QED
      BY <1>4, <2>1, <2>3
  <1>6. ASSUME NEW s \in Sessions, V!Register(s) PROVE TableInv'
    <2>0. PICK o, n, b : o = org[s] /\ n = ddl[s].name /\ b = ddl[s].body
      OBVIOUS
    <2>1. /\ phase[s] = "register" /\ registry' = [registry EXCEPT ![o][n] = b] /\ UNCHANGED <<org, missed>>
      BY <1>6, <2>0 DEF V!Register, V!SetLive
    <2>2. o \in Tenants /\ n \in Names /\ b \in V!Bodies
      BY <1>0, <2>0, <2>1 DEF SessionTypes, V!Busy, Ddls
    <2>3. \A m \in Names : registry[BootOrg][m] # None => registry'[BootOrg][m] # None
      BY <1>0, <2>1, <2>2
    <2>4. PICK p \in {"idle", "delete"} : phase' = [phase EXCEPT ![s] = p]
      BY <1>6 DEF V!Register, V!Ends, V!OnRegisterError, V!Goes
    <2>5. phase'[s] \in {"idle", "delete"} /\ \A t \in Sessions : t # s => phase'[t] = phase[t]
      BY <1>0, <2>4
    <2>6. [org |-> o, body |-> b] \in Resolved /\ [org |-> o, body |-> b].org = o
      BY <2>2 DEF Resolved
    <2>7. CASE tables' = tables
      <3>1. tables' = [tables EXCEPT ![s] = tables[s]] /\ tables[s] \in [Names -> Resolved \cup {None}]
        BY <1>0, <2>7
      <3>2. Isolated(s)'
        BY <1>0, <2>1, <2>5, <2>7 DEF Isolated
      <3> QED
        BY <2>1, <2>3, <2>5, <3>1, <3>2, OtherSessionsKeep
    <2>8. CASE tables' = [tables EXCEPT ![s] = [tables[s] EXCEPT ![n] = [org |-> o, body |-> b]]]
      <3>1. PICK r \in Resolved : r.org = o /\ tables' = [tables EXCEPT ![s] = [tables[s] EXCEPT ![n] = r]]
        BY <2>6, <2>8
      <3>2. [tables[s] EXCEPT ![n] = r] \in [Names -> Resolved \cup {None}]
        BY <1>0, <2>2, <3>1
      <3>3. tables'[s][n] = r /\ \A m \in Names : m # n => tables'[s][m] = tables[s][m]
        BY <1>0, <2>2, <3>1
      <3>4. Isolated(s)'
        BY <1>0, <2>0, <2>1, <2>5, <3>1, <3>3 DEF Isolated
      <3> QED
        BY <2>1, <2>3, <2>5, <3>1, <3>2, <3>4, OtherSessionsKeep
    <2> QED
      BY <1>6, <2>0, <2>7, <2>8 DEF V!Register, V!SetTables
  \* A view of the boot organisation goes: whoever has not started yet is marked.
  <1>7. ASSUME NEW s \in Sessions, V!Unregister(s) PROVE TableInv'
    <2>0. PICK o, n : o = org[s] /\ n = ddl[s].name
      OBVIOUS
    <2>1. /\ phase[s] = "unregister" /\ registry' = [registry EXCEPT ![o][n] = None] /\ org' = org
          /\ phase' = [phase EXCEPT ![s] = "idle"]
          /\ missed' = IF o = BootOrg /\ registry[BootOrg][n] # None
                          THEN missed \cup {t \in Sessions : phase[t] = "starting"} ELSE missed
      BY <1>7, <2>0 DEF V!Unregister, V!SetLive, V!Ends
    <2>2. o \in Tenants /\ n \in Names
      BY <1>0, <2>0, <2>1 DEF SessionTypes, V!Busy, Ddls
    <2>3. \A m \in Names : registry[BootOrg][m] # None =>
             \/ registry'[BootOrg][m] # None
             \/ \A t \in Sessions : t # s /\ phase[t] = "starting" => t \in missed'
      <3> SUFFICES ASSUME NEW m \in Names, registry[BootOrg][m] # None, registry'[BootOrg][m] = None
                   PROVE  \A t \in Sessions : phase[t] = "starting" => t \in missed'
        OBVIOUS
      <3>1. o = BootOrg /\ m = n
        BY <1>0, <2>1, <2>2
      <3> QED
        BY <2>1, <3>1
    <2>4. phase'[s] = "idle" /\ \A t \in Sessions : t # s => phase'[t] = phase[t]
      BY <1>0, <2>1
    <2>5. \A t \in Sessions : t \in missed => t \in missed'
      BY <2>1
    <2>6. CASE tables' = tables
      <3>1. tables' = [tables EXCEPT ![s] = tables[s]] /\ tables[s] \in [Names -> Resolved \cup {None}]
        BY <1>0, <2>6
      <3>2. Isolated(s)'
        BY <1>0, <2>1, <2>4, <2>5, <2>6 DEF Isolated
      <3> QED
        BY <2>1, <2>3, <2>4, <2>5, <3>1, <3>2, OtherSessionsKeep
    <2>7. CASE tables' = [tables EXCEPT ![s] = [tables[s] EXCEPT ![n] = None]]
      <3>1. [tables[s] EXCEPT ![n] = None] \in [Names -> Resolved \cup {None}]
        BY <1>0, <2>2
      <3>2. tables'[s][n] = None /\ \A m \in Names : m # n => tables'[s][m] = tables[s][m]
        BY <1>0, <2>2, <2>7
      <3>3. Isolated(s)'
        BY <1>0, <2>1, <2>4, <2>5, <3>2 DEF Isolated
      <3> QED
        BY <2>1, <2>3, <2>4, <2>5, <2>7, <3>1, <3>3, OtherSessionsKeep
    <2> QED
      BY <1>7, <2>0, <2>6, <2>7 DEF V!Unregister, V!SetTables
  <1>8. ASSUME NEW down \in SUBSET Sources, NEW listed \in V!ListedAtBoot, V!Restart(down, listed)
        PROVE  TableInv'
    <2>1. /\ tables' = [s \in Sessions |-> V!NoViews] /\ org' = [s \in Sessions |-> None]
          /\ phase' = [s \in Sessions |-> "closed"]
      BY <1>8 DEF V!Restart
    <2> QED
      BY <1>n, <2>1 DEF TableInv, Isolated
  <1>9. ASSUME NEW w \in loose, V!Land(w) PROVE TableInv'
    BY <1>0, <1>9 DEF V!Land, TableInv, Isolated
  <1>10. CASE UNCHANGED V!vars
    BY <1>0, <1>10 DEF V!vars, TableInv, Isolated
  <1> QED
    BY <1>1, <1>2, <1>3, <1>5, <1>6, <1>7, <1>8, <1>9, <1>10 DEF V!Next

\* Where each session has its own catalog list, for any organisations, names
\* and sessions and whenever the process restarts: the swap at startup leaves
\* a session only views of its own organisation, unless a view of the boot
\* organisation was dropped between its connection and its startup message.
THEOREM ViewsStayIsolatedUnlessMissed ==
    ASSUME V!ViewConstants, Shared = FALSE
    PROVE  V!Spec => [](V!IsolatedUnlessMissed /\ IsolatedUnlessMissed)
  <1>1. V!Init => TableInv
    BY DEF V!Init, V!NoViews, TableInv, Isolated
  <1>2. TableInv => V!IsolatedUnlessMissed
    BY DEF TableInv, Isolated, V!IsolatedUnlessMissed
  <1>3. TableInv => IsolatedUnlessMissed
    BY <1>2 DEF IsolatedUnlessMissed
  <1> QED
    BY <1>1, <1>2, <1>3, ViewStarts, ViewInductive, LooseInductive, TableInductive, PTL DEF V!Spec

-----------------------------------------------------------------------------
(* The webhook: what an event does to the rule store.                      *)

FeedKinds == {"tag", "policy", "certification"}

\* HeldAt and what an event makes of it, in any governance.
HeldIn(g, kind, key) ==
    {x \in (IF kind = "tag" THEN g.columns ELSE IF kind = "policy" THEN g.policies ELSE g.certifications) :
        (IF kind = "policy" THEN x.id ELSE x) = key}
Told(e) == IF F!Adds(e) THEN {e.about} ELSE {}
Same(d, e) == F!Kind(d) = F!Kind(e) /\ F!Key(d) = F!Key(e)

\* A store whose sets are the ones after an event.
LEMMA EventResult ==
    ASSUME NEW g, F!IsGovernance(g), NEW e, e.type \in F!EventTypes
    PROVE  F!ApplyEvent(g, e) =
             [tags |-> g.tags,
              policies |-> CASE e.type = "policy.upserted" -> {p \in g.policies : p.id # e.about.id} \cup {e.about}
                             [] e.type = "policy.deleted" -> {p \in g.policies : p.id # e.about}
                             [] OTHER -> g.policies,
              columns |-> CASE e.type = "tag.assigned" -> g.columns \cup {e.about}
                            [] e.type = "tag.removed" -> g.columns \ {e.about}
                            [] OTHER -> g.columns,
              certifications |-> CASE e.type = "certification.upserted" -> g.certifications \cup {e.about}
                                   [] e.type = "certification.deleted" -> g.certifications \ {e.about}
                                   [] OTHER -> g.certifications]
  <1>1. g = [tags |-> g.tags, policies |-> g.policies, columns |-> g.columns,
             certifications |-> g.certifications]
    BY DEF F!IsGovernance
  <1>2. ASSUME NEW X PROVE
          /\ [g EXCEPT !.columns = X] = [tags |-> g.tags, policies |-> g.policies, columns |-> X,
                                         certifications |-> g.certifications]
          /\ [g EXCEPT !.policies = X] = [tags |-> g.tags, policies |-> X, columns |-> g.columns,
                                          certifications |-> g.certifications]
          /\ [g EXCEPT !.certifications = X] = [tags |-> g.tags, policies |-> g.policies,
                                                columns |-> g.columns, certifications |-> X]
    BY <1>1
  <1>3. CASE e.type = "tag.assigned"
    BY <1>2, <1>3 DEF F!ApplyEvent
  <1>4. CASE e.type = "tag.removed"
    BY <1>2, <1>4 DEF F!ApplyEvent
  <1>5. CASE e.type = "policy.upserted"
    BY <1>2, <1>5 DEF F!ApplyEvent, F!UpsertPolicy
  <1>6. CASE e.type = "policy.deleted"
    BY <1>2, <1>6 DEF F!ApplyEvent
  <1>7. CASE e.type = "certification.upserted"
    BY <1>2, <1>7 DEF F!ApplyEvent
  <1>8. CASE e.type = "certification.deleted"
    BY <1>2, <1>8 DEF F!ApplyEvent
  <1> QED
    BY <1>3, <1>4, <1>5, <1>6, <1>7, <1>8 DEF F!EventTypes

\* An event sets what it is about, leaves everything else alone, and a second
\* copy of it changes nothing.
LEMMA EventEffect ==
    ASSUME NEW g, F!IsGovernance(g), NEW e, e.type \in F!EventTypes
    PROVE  /\ F!IsGovernance(F!ApplyEvent(g, e))
           /\ HeldIn(F!ApplyEvent(g, e), F!Kind(e), F!Key(e)) = Told(e)
           /\ \A kind \in FeedKinds : \A key : kind # F!Kind(e) \/ key # F!Key(e) =>
                 HeldIn(F!ApplyEvent(g, e), kind, key) = HeldIn(g, kind, key)
           /\ F!ApplyEvent(F!ApplyEvent(g, e), e) = F!ApplyEvent(g, e)
  <1>0. PICK h : h = F!ApplyEvent(g, e)
    OBVIOUS
  <1>1. F!IsGovernance(h)
    BY <1>0, EventResult DEF F!IsGovernance
  <1>2. /\ h = [tags |-> h.tags, policies |-> h.policies, columns |-> h.columns,
                certifications |-> h.certifications]
        /\ h.tags = g.tags
        /\ h.policies = CASE e.type = "policy.upserted" -> {p \in g.policies : p.id # e.about.id} \cup {e.about}
                          [] e.type = "policy.deleted" -> {p \in g.policies : p.id # e.about}
                          [] OTHER -> g.policies
        /\ h.columns = CASE e.type = "tag.assigned" -> g.columns \cup {e.about}
                         [] e.type = "tag.removed" -> g.columns \ {e.about}
                         [] OTHER -> g.columns
        /\ h.certifications = CASE e.type = "certification.upserted" -> g.certifications \cup {e.about}
                                [] e.type = "certification.deleted" -> g.certifications \ {e.about}
                                [] OTHER -> g.certifications
    BY <1>0, <1>1, EventResult DEF F!IsGovernance
  <1>3. HeldIn(h, F!Kind(e), F!Key(e)) = Told(e)
    <2>1. CASE e.type = "tag.assigned"
      BY <1>2, <2>1 DEF HeldIn, Told, F!Kind, F!Key, F!Adds
    <2>2. CASE e.type = "tag.removed"
      BY <1>2, <2>2 DEF HeldIn, Told, F!Kind, F!Key, F!Adds
    <2>3. CASE e.type = "policy.upserted"
      BY <1>2, <2>3 DEF HeldIn, Told, F!Kind, F!Key, F!Adds
    <2>4. CASE e.type = "policy.deleted"
      BY <1>2, <2>4 DEF HeldIn, Told, F!Kind, F!Key, F!Adds
    <2>5. CASE e.type = "certification.upserted"
      BY <1>2, <2>5 DEF HeldIn, Told, F!Kind, F!Key, F!Adds
    <2>6. CASE e.type = "certification.deleted"
      BY <1>2, <2>6 DEF HeldIn, Told, F!Kind, F!Key, F!Adds
    <2> QED
      BY <2>1, <2>2, <2>3, <2>4, <2>5, <2>6 DEF F!EventTypes
  <1>4. ASSUME NEW kind \in FeedKinds, NEW key, kind # F!Kind(e) \/ key # F!Key(e)
        PROVE  HeldIn(h, kind, key) = HeldIn(g, kind, key)
    <2>1. CASE e.type = "tag.assigned"
      BY <1>2, <1>4, <2>1 DEF HeldIn, F!Kind, F!Key, FeedKinds
    <2>2. CASE e.type = "tag.removed"
      BY <1>2, <1>4, <2>2 DEF HeldIn, F!Kind, F!Key, FeedKinds
    <2>3. CASE e.type = "policy.upserted"
      BY <1>2, <1>4, <2>3 DEF HeldIn, F!Kind, F!Key, FeedKinds
    <2>4. CASE e.type = "policy.deleted"
      BY <1>2, <1>4, <2>4 DEF HeldIn, F!Kind, F!Key, FeedKinds
    <2>5. CASE e.type = "certification.upserted"
      BY <1>2, <1>4, <2>5 DEF HeldIn, F!Kind, F!Key, FeedKinds
    <2>6. CASE e.type = "certification.deleted"
      BY <1>2, <1>4, <2>6 DEF HeldIn, F!Kind, F!Key, FeedKinds
    <2> QED
      BY <2>1, <2>2, <2>3, <2>4, <2>5, <2>6 DEF F!EventTypes
  <1>5. F!ApplyEvent(h, e) = h
    <2>1. PICK k : k = F!ApplyEvent(h, e)
      OBVIOUS
    <2>2. /\ k = [tags |-> k.tags, policies |-> k.policies, columns |-> k.columns,
                  certifications |-> k.certifications]
          /\ k.tags = h.tags
          /\ k.policies = CASE e.type = "policy.upserted" -> {p \in h.policies : p.id # e.about.id} \cup {e.about}
                            [] e.type = "policy.deleted" -> {p \in h.policies : p.id # e.about}
                            [] OTHER -> h.policies
          /\ k.columns = CASE e.type = "tag.assigned" -> h.columns \cup {e.about}
                           [] e.type = "tag.removed" -> h.columns \ {e.about}
                           [] OTHER -> h.columns
          /\ k.certifications = CASE e.type = "certification.upserted" -> h.certifications \cup {e.about}
                                  [] e.type = "certification.deleted" -> h.certifications \ {e.about}
                                  [] OTHER -> h.certifications
      <3>1. F!IsGovernance(k)
        BY <1>1, <2>1, EventResult DEF F!IsGovernance
      <3> QED
        BY <1>1, <2>1, <3>1, EventResult DEF F!IsGovernance
    <2>3. k.policies = h.policies
      BY <1>2, <2>2
    <2>4. k.columns = h.columns
      BY <1>2, <2>2
    <2>5. k.certifications = h.certifications
      BY <1>2, <2>2
    <2> QED
      BY <1>2, <2>1, <2>2, <2>3, <2>4, <2>5
  <1> QED
    BY <1>0, <1>1, <1>3, <1>4, <1>5

-----------------------------------------------------------------------------
(* The webhook: what the platform was told is what the store holds.        *)

Requests == [n : Nat, event : Events, fault : Refusals \cup {"none"}]

FeedTypes ==
    /\ F!IsGovernance(governance) /\ F!GovernanceBuilds(governance)
    /\ sent \in Nat /\ late \in BOOLEAN
    /\ pending \in Requests \cup {None}
    /\ requests \subseteq Requests
    /\ answers \subseteq [n : Nat, ok : BOOLEAN]
    /\ log \in Seq(Events)

\* An event keeps its number through its retries, and no other has it.
Numbered ==
    /\ pending # None => pending.n = sent
    /\ \A r \in requests : r.n <= sent /\ (pending # None /\ r.n = pending.n => r = pending)
    /\ \A a \in answers : a.n <= sent

Overridden(i) == \E j \in (i + 1) .. Len(log) : Same(log[j], log[i])
Holds(e) == HeldIn(governance, F!Kind(e), F!Key(e)) = Told(e)
AllHold == \A i \in 1 .. Len(log) : Overridden(i) \/ Holds(log[i])

\* The event under way is in the store already, in place of what was there
\* about the same thing.
Applied ==
    /\ F!ApplyEvent(governance, pending.event) = governance
    /\ pending.fault \notin Refusals
AllHoldButPending ==
    \A i \in 1 .. Len(log) : Overridden(i) \/ Holds(log[i]) \/ Same(log[i], pending.event)

\* The event under way would be refused, as it was.
Refused ==
    \/ pending.fault \in Refusals
    \/ ~F!GovernanceBuilds(F!ApplyEvent(governance, pending.event))

FeedInv ==
    /\ FeedTypes /\ Numbered
    /\ ~late =>
          /\ AllHold \/ (pending # None /\ Applied /\ AllHoldButPending)
          /\ pending # None => \A a \in answers : a.n = pending.n =>
                IF a.ok THEN Applied ELSE AllHold /\ Refused

\* FeedInv is inductive.
LEMMA FeedInductive ==
    ASSUME F!FeedConstants
    PROVE  FeedInv /\ [F!Next]_(F!vars) => FeedInv'
  <1> SUFFICES ASSUME FeedInv, [F!Next]_(F!vars) PROVE FeedInv'
    OBVIOUS
  <1>0. /\ F!IsGovernance(governance) /\ F!GovernanceBuilds(governance)
        /\ sent \in Nat /\ late \in BOOLEAN
        /\ pending \in Requests \cup {None}
        /\ requests \subseteq Requests
        /\ answers \subseteq [n : Nat, ok : BOOLEAN]
        /\ log \in Seq(Events)
        /\ None \notin Requests
        /\ \A e \in Events : e.type \in F!EventTypes
        /\ Numbered
    BY DEF FeedInv, FeedTypes, F!FeedConstants, Requests
  <1>a. ~late => /\ AllHold \/ (pending # None /\ Applied /\ AllHoldButPending)
                 /\ pending # None => \A a \in answers : a.n = pending.n =>
                       IF a.ok THEN Applied ELSE AllHold /\ Refused
    BY DEF FeedInv
  <1>b. \A r \in Requests : r.n \in Nat /\ r.event \in Events /\ r.fault \in Refusals \cup {"none"}
    BY DEF Requests
  <1>1. ASSUME NEW e \in Events, NEW f \in Refusals \cup {"none"}, F!Send(e, f) PROVE FeedInv'
    <2>1. /\ pending = None /\ sent' = sent + 1
          /\ pending' = [n |-> sent + 1, event |-> e, fault |-> f]
          /\ requests' = requests \cup {pending'}
          /\ UNCHANGED <<governance, answers, log, late>>
      BY <1>1 DEF F!Send
    <2>2. pending' \in Requests /\ pending'.n = sent + 1
      BY <1>0, <2>1 DEF Requests
    <2>3. FeedTypes'
      BY <1>0, <2>1, <2>2 DEF FeedTypes
    <2>4. Numbered'
      BY <1>0, <1>b, <2>1, <2>2 DEF Numbered
    <2>5. \A a \in answers : a.n # pending'.n
      BY <1>0, <2>2 DEF Numbered
    <2>6. ~late => AllHold'
      BY <1>a, <2>1 DEF AllHold, Overridden, Holds
    <2> QED
      BY <2>1, <2>3, <2>4, <2>5, <2>6 DEF FeedInv
  \* Steps that leave the store, the event under way and the log alone, and add no answer.
  <1>2. ASSUME UNCHANGED <<governance, pending, sent, log, late>>, answers' \subseteq answers,
               requests' \subseteq requests \cup {pending}, pending # None \/ requests' \subseteq requests
        PROVE  FeedInv'
    <2>1. requests' \subseteq Requests
      BY <1>0, <1>2
    <2>2. FeedTypes'
      BY <1>0, <1>2, <2>1 DEF FeedTypes
    <2>3. Numbered'
      BY <1>0, <1>2, <1>b DEF Numbered
    <2>4. /\ AllHold' = AllHold /\ Applied' = Applied /\ AllHoldButPending' = AllHoldButPending
          /\ Refused' = Refused
      BY <1>2 DEF AllHold, Applied, AllHoldButPending, Refused, Overridden, Holds
    <2> QED
      BY <1>2, <1>a, <2>2, <2>3, <2>4 DEF FeedInv
  <1>3. CASE F!Retry
    BY <1>2, <1>3 DEF F!Retry
  <1>4. CASE F!Lose
    BY <1>2, <1>4 DEF F!Lose
  <1>5. ASSUME NEW a \in answers, F!Answered(a) PROVE FeedInv'
    <2>1. answers' = answers \ {a} /\ UNCHANGED <<governance, sent, requests, late>>
      BY <1>5 DEF F!Answered
    <2>2. CASE ~(pending # None /\ a.n = pending.n)
      <3>1. UNCHANGED <<pending, log>>
        BY <1>5, <2>2 DEF F!Answered
      <3> QED
        BY <1>2, <2>1, <3>1
    <2>3. CASE pending # None /\ a.n = pending.n
      <3>1. pending' = None /\ log' = IF a.ok THEN Append(log, pending.event) ELSE log
        BY <1>5, <2>3 DEF F!Answered
      <3>2. pending.event \in Events /\ a.ok \in BOOLEAN
        BY <1>0, <1>b, <2>3
      <3>3. log' \in Seq(Events)
        BY <1>0, <3>1, <3>2
      <3>4. FeedTypes'
        BY <1>0, <2>1, <3>1, <3>3 DEF FeedTypes
      <3>5. Numbered'
        BY <1>0, <2>1, <3>1 DEF Numbered
      <3>6. ASSUME ~late PROVE AllHold'
        <4>1. CASE ~a.ok
          <5>1. AllHold /\ log' = log
            BY <1>a, <2>3, <3>1, <3>6, <4>1
          <5> QED
            BY <2>1, <5>1 DEF AllHold, Overridden, Holds
        <4>2. CASE a.ok
          <5>0. PICK e \in Events : e = pending.event
            BY <3>2
          <5>1. /\ Applied /\ log' = Append(log, e)
            BY <1>a, <2>3, <3>1, <3>6, <4>2, <5>0
          <5>2. /\ Len(log) \in Nat /\ Len(log') = Len(log) + 1 /\ log'[Len(log) + 1] = e
                /\ \A i \in 1 .. Len(log) : log'[i] = log[i]
            BY <1>0, <5>1
          <5>3. AllHold \/ AllHoldButPending
            BY <1>a, <3>6
          <5>4. Holds(e)
            BY <1>0, <5>0, <5>1, EventEffect DEF Applied, Holds
          <5>5. ASSUME NEW i \in 1 .. Len(log')
                PROVE  \/ \E j \in (i + 1) .. Len(log') : Same(log'[j], log'[i])
                       \/ HeldIn(governance, F!Kind(log'[i]), F!Key(log'[i])) = Told(log'[i])
            <6>1. CASE i = Len(log) + 1
              BY <5>2, <5>4, <6>1 DEF Holds
            <6>2. CASE i \in 1 .. Len(log)
              <7>1. log'[i] = log[i]
                BY <5>2, <6>2
              <7>2. Overridden(i) \/ Holds(log[i]) \/ Same(log[i], e)
                BY <5>0, <5>3, <6>2 DEF AllHold, AllHoldButPending
              <7>3. CASE Overridden(i)
                <8>1. PICK j \in (i + 1) .. Len(log) : Same(log[j], log[i])
                  BY <7>3 DEF Overridden
                <8>2. j \in (i + 1) .. Len(log') /\ log'[j] = log[j]
                  BY <5>2, <6>2, <8>1
                <8> QED
                  BY <7>1, <8>1, <8>2
              <7>4. CASE Holds(log[i])
                BY <7>1, <7>4 DEF Holds
              <7>5. CASE Same(log[i], e)
                <8>1. Len(log) + 1 \in (i + 1) .. Len(log')
                  BY <5>2, <6>2
                <8>2. Same(log'[Len(log) + 1], log'[i])
                  BY <5>2, <7>1, <7>5 DEF Same
                <8> QED
                  BY <8>1, <8>2
              <7> QED
                BY <7>2, <7>3, <7>4, <7>5
            <6> QED
              BY <5>2, <6>1, <6>2
          <5> QED
            BY <2>1, <5>5 DEF AllHold, Overridden, Holds
        <4> QED
          BY <3>2, <4>1, <4>2
      <3> QED
        BY <2>1, <3>1, <3>4, <3>5, <3>6 DEF FeedInv
    <2> QED
      BY <2>2, <2>3
  <1>6. ASSUME NEW r \in requests, F!HandleEvent(r) PROVE FeedInv'
    <2>0. PICK e \in Events : e = r.event
      BY <1>0, <1>b
    <2>1. PICK refused \in BOOLEAN :
            /\ refused <=> r.fault \in Refusals \/ ~F!GovernanceBuilds(F!ApplyEvent(governance, e))
            /\ requests' = requests \ {r}
            /\ answers' = answers \cup {[n |-> r.n, ok |-> ~refused]}
            /\ governance' = IF refused THEN governance ELSE F!ApplyEvent(governance, e)
            /\ UNCHANGED <<pending, sent, log>>
      BY <1>6, <2>0 DEF F!HandleEvent, F!ApplyOutcome
    <2>2. late' = (late \/ (r # pending /\ governance' # governance))
      BY <1>6 DEF F!HandleEvent
    <2>3. r \in Requests /\ r.n \in Nat /\ r.n <= sent
      BY <1>0, <1>b DEF Numbered
    <2>4. /\ \A b \in answers' : b \in answers \/ (b.n = r.n /\ b.ok = ~refused)
          /\ answers' \subseteq [n : Nat, ok : BOOLEAN]
      <3>1. PICK a : a = [n |-> r.n, ok |-> ~refused]
        OBVIOUS
      <3>2. (~refused) \in BOOLEAN
        OBVIOUS
      <3>3. a \in [n : Nat, ok : BOOLEAN]
        BY <2>3, <3>1, <3>2
      <3>4. a.n = r.n /\ a.ok = ~refused
        BY <3>1, Zenon
      <3>5. answers' = answers \cup {a}
        BY <2>1, <3>1
      <3>6. \A b \in answers' : b \in answers \/ b = a
        BY <3>5
      <3>7. answers \subseteq [n : Nat, ok : BOOLEAN]
        BY <1>0
      <3>8. answers' \subseteq [n : Nat, ok : BOOLEAN]
        BY <3>3, <3>5, <3>7
      <3>9. ASSUME NEW b \in answers' PROVE b \in answers \/ (b.n = r.n /\ b.ok = ~refused)
        BY <3>4, <3>6, <3>9, Zenon
      <3> QED
        BY <3>8, <3>9
    <2>5. F!IsGovernance(governance') /\ F!GovernanceBuilds(governance')
      BY <1>0, <2>1, EventEffect
    <2>6. FeedTypes'
      <3>1. late' \in BOOLEAN
        BY <2>2
      <3> QED
        BY <1>0, <2>1, <2>4, <2>5, <3>1 DEF FeedTypes
    <2>7. Numbered'
      BY <1>0, <2>1, <2>3, <2>4 DEF Numbered
    <2>8. ASSUME ~late'
          PROVE  /\ AllHold' \/ (pending' # None /\ Applied' /\ AllHoldButPending')
                 /\ pending' # None => \A b \in answers' : b.n = pending'.n =>
                       IF b.ok THEN Applied' ELSE AllHold' /\ Refused'
      <3>1. ~late /\ (r = pending \/ governance' = governance)
        BY <1>0, <2>2, <2>8
      \* Nothing changes: a refusal, or a copy that makes no difference.
      <3>2. CASE governance' = governance
        <4>1. /\ AllHold' = AllHold /\ Applied' = Applied /\ AllHoldButPending' = AllHoldButPending
              /\ Refused' = Refused
          BY <2>1, <3>2 DEF AllHold, Applied, AllHoldButPending, Refused, Overridden, Holds
        <4>2. ASSUME NEW b \in answers', pending # None, b.n = pending.n
              PROVE  IF b.ok THEN Applied ELSE AllHold /\ Refused
          <5>1. CASE b \in answers
            BY <1>a, <3>1, <4>2, <5>1
          <5>2. CASE b \notin answers
            <6>1. b.n = r.n /\ b.ok = ~refused
              BY <2>4, <5>2
            <6>2. r = pending
              BY <1>0, <4>2, <6>1 DEF Numbered
            <6>3. CASE refused
              <7>1. Refused
                BY <2>0, <2>1, <6>2, <6>3 DEF Refused
              <7>2. ~Applied
                BY <1>0, <7>1 DEF Applied, Refused
              <7> QED
                BY <1>a, <3>1, <6>1, <6>3, <7>1, <7>2
            <6>4. CASE ~refused
              <7>1. Applied
                BY <2>0, <2>1, <3>2, <6>2, <6>4 DEF Applied
              <7> QED
                BY <6>1, <6>4, <7>1
            <6> QED
              BY <6>3, <6>4
          <5> QED
            BY <5>1, <5>2
        <4> QED
          BY <1>a, <2>1, <3>1, <4>1, <4>2
      \* The event under way is applied.
      <3>3. CASE governance' # governance
        <4>1. /\ r = pending /\ pending # None /\ ~refused /\ e = pending.event /\ pending' = pending
              /\ governance' = F!ApplyEvent(governance, e) /\ r.fault \notin Refusals
              /\ F!GovernanceBuilds(F!ApplyEvent(governance, e)) /\ log' = log
          BY <1>0, <2>0, <2>1, <2>3, <3>1, <3>3
        <4>2. Applied'
          <5>1. F!ApplyEvent(governance', e) = governance'
            BY <1>0, <4>1, EventEffect
          <5> QED
            BY <4>1, <5>1 DEF Applied
        <4>3. ~Refused
          BY <4>1 DEF Refused
        <4>4. ASSUME NEW b \in answers', b.n = pending.n PROVE b.ok
          BY <1>a, <2>4, <3>1, <4>1, <4>3, <4>4
        <4>5. AllHoldButPending
          BY <1>a, <3>1 DEF AllHold, AllHoldButPending
        <4>6. ASSUME NEW i \in 1 .. Len(log)
              PROVE  \/ \E j \in (i + 1) .. Len(log) : Same(log[j], log[i])
                     \/ HeldIn(governance', F!Kind(log[i]), F!Key(log[i])) = Told(log[i])
                     \/ Same(log[i], e)
          <5>1. F!Kind(log[i]) \in FeedKinds
            BY DEF F!Kind, FeedKinds
          <5>2. Overridden(i) \/ Holds(log[i]) \/ Same(log[i], e)
            BY <4>1, <4>5 DEF AllHoldButPending
          <5>3. ASSUME Holds(log[i]), ~Same(log[i], e)
                PROVE  HeldIn(governance', F!Kind(log[i]), F!Key(log[i])) = Told(log[i])
            BY <1>0, <4>1, <5>1, <5>3, EventEffect DEF Same, Holds
          <5> QED
            BY <5>2, <5>3 DEF Overridden
        <4>7. AllHoldButPending'
          BY <4>1, <4>6 DEF AllHoldButPending, Overridden, Holds
        <4> QED
          BY <4>1, <4>2, <4>4, <4>7
      <3> QED
        BY <3>2, <3>3
    <2> QED
      BY <2>6, <2>7, <2>8 DEF FeedInv
  <1>7. CASE F!Restart
    <2>1. /\ governance' = Configured /\ requests' = {} /\ answers' = {} /\ log' = <<>> /\ late' = FALSE
          /\ UNCHANGED <<pending, sent>>
      BY <1>7 DEF F!Restart
    <2>2. FeedTypes'
      <3>1. F!IsGovernance(governance') /\ F!GovernanceBuilds(governance')
        BY <2>1 DEF F!FeedConstants
      <3>2. log' \in Seq(Events)
        BY <2>1
      <3>3. requests' \subseteq Requests /\ answers' \subseteq [n : Nat, ok : BOOLEAN]
        BY <2>1
      <3> QED
        BY <1>0, <2>1, <3>1, <3>2, <3>3 DEF FeedTypes
    <2>3. Numbered'
      BY <1>0, <2>1 DEF Numbered
    <2>4. AllHold'
      BY <2>1 DEF AllHold
    <2> QED
      BY <2>1, <2>2, <2>3, <2>4 DEF FeedInv
  <1>8. CASE UNCHANGED F!vars
    BY <1>2, <1>8 DEF F!vars
  <1> QED
    BY <1>1, <1>3, <1>4, <1>5, <1>6, <1>7, <1>8 DEF F!Next

\* For any events and any governance of the configuration file, however often
\* a request is retried, lost or refused and whenever the server restarts:
\* between two events the rule store holds, about everything the platform was
\* told is accepted, what it was told last, unless a copy of an earlier event
\* was applied after a later one.
THEOREM AckedAlwaysEnforced ==
    ASSUME F!FeedConstants
    PROVE  F!Spec => [](F!AckedIsEnforced /\ AckedIsEnforced)
  <1>1. ASSUME F!Init PROVE FeedInv
    <2>1. /\ governance = Configured /\ pending = None /\ sent = 0
          /\ requests = {} /\ answers = {} /\ log = <<>> /\ late = FALSE
      BY <1>1 DEF F!Init
    <2>2. F!IsGovernance(governance) /\ F!GovernanceBuilds(governance)
      BY <2>1 DEF F!FeedConstants
    <2>3. log \in Seq(Events)
      BY <2>1
    <2>4. FeedTypes
      BY <2>1, <2>2, <2>3 DEF FeedTypes
    <2>5. Numbered /\ AllHold
      BY <2>1 DEF Numbered, AllHold
    <2> QED
      BY <2>1, <2>4, <2>5 DEF FeedInv
  <1>2. FeedInv => F!AckedIsEnforced
    <2> SUFFICES ASSUME FeedInv, pending = None, ~late, NEW i \in DOMAIN log
                 PROVE  \/ \E j \in (i + 1) .. Len(log) :
                             F!Kind(log[j]) = F!Kind(log[i]) /\ F!Key(log[j]) = F!Key(log[i])
                        \/ F!HeldAt(F!Kind(log[i]), F!Key(log[i])) =
                             IF F!Adds(log[i]) THEN {log[i].about} ELSE {}
      BY DEF F!AckedIsEnforced
    <2>1. i \in 1 .. Len(log) /\ AllHold
      BY DEF FeedInv, FeedTypes
    <2>2. F!HeldAt(F!Kind(log[i]), F!Key(log[i])) = HeldIn(governance, F!Kind(log[i]), F!Key(log[i]))
      BY DEF F!HeldAt, F!Held, HeldIn
    <2> QED
      BY <2>1, <2>2 DEF AllHold, Overridden, Holds, Same, Told
  <1>3. FeedInv => AckedIsEnforced
    BY <1>2 DEF AckedIsEnforced
  <1> QED
    BY <1>1, <1>2, <1>3, FeedInductive, PTL DEF F!Spec

-----------------------------------------------------------------------------
(* The provider cache (CatalogCache).  The warm entry is only the last     *)
(* place a provider reaches: a build has made it before, a cell holds it,  *)
(* and every waiter of that cell will hoist it.  Clean says that once the  *)
(* last change is applied none of those places holds an older one, but for *)
(* the cells and builds of straddlers; that needs the two kinds of caller  *)
(* never to meet in a cell (Apart), which the evict of the in-flight cell  *)
(* is for.                                                                 *)

GetPhases == {"idle", "enter", "cell", "build", "hoist", "clear"}
Within == {"cell", "build", "hoist", "clear"}

\* The types the argument rests on.
CacheTypes ==
    /\ source \in Nat \ {0} /\ stream \in {"open", "closed"} /\ evicting \in BOOLEAN
    /\ queue \in Seq(Keys) /\ Len(queue) <= Capacity
    /\ inFlight \in Cells \cup {Empty}
    /\ cells \in [Cells -> Nat]
    /\ stage \in [Callers -> GetPhases]
    /\ cell \in [Callers -> Cells \cup {Empty}]
    /\ seen \in [Callers -> Nat]

\* A caller holds a cell exactly while it is inside get; straddlers are inside.
HoldsCell ==
    /\ \A c \in Callers : cell[c] # Empty <=> stage[c] \in Within
    /\ straddlers \subseteq InsideGet

\* Until the evict is over everybody inside get is a straddler; afterwards no
\* straddler has the cell of the in-flight map or of a caller that came later.
Apart ==
    /\ evicting => InsideGet \subseteq straddlers
    /\ ~evicting => \A c \in straddlers :
            cell[c] # inFlight /\ \A d \in Callers \ straddlers : cell[d] # cell[c]

\* No change of the key is on its way or lost since the last evict.
Heard == "key" \notin Range(queue) /\ ~unheard

\* A cell a caller that is no straddler has, or can be given.
Reachable(k) ==
    \/ k = inFlight /\ ~evicting
    \/ \E c \in Callers \ straddlers : cell[c] = k

\* Then everything such a caller can put into the warm map is of the last version.
Clean ==
    Heard =>
        /\ putBack \/ inner \in {Empty, source}
        /\ \A c \in Callers \ straddlers : stage[c] \in {"build", "hoist", "clear"} => seen[c] = source
        /\ \A k \in Cells : Reachable(k) => cells[k] \in {Empty, source}

CacheInv == CacheTypes /\ HoldsCell /\ Apart /\ Clean

-----------------------------------------------------------------------------
\* What a queue of changes holds when one is sent or received.
LEMMA KeyAppended ==
    ASSUME NEW q \in Seq(Keys), NEW k \in Keys
    PROVE  /\ Append(q, k) \in Seq(Keys) /\ Len(Append(q, k)) = Len(q) + 1
           /\ Range(Append(q, k)) = Range(q) \cup {k}
<1>1. /\ Append(q, k) \in Seq(Keys) /\ Len(Append(q, k)) = Len(q) + 1
      /\ Append(q, k)[Len(q) + 1] = k /\ \A i \in 1 .. Len(q) : Append(q, k)[i] = q[i]
  OBVIOUS
<1>2. DOMAIN q = 1 .. Len(q) /\ DOMAIN Append(q, k) = 1 .. Len(q) + 1 /\ Len(q) \in Nat
  BY <1>1
<1> QED BY <1>1, <1>2 DEF Range

LEMMA KeyTaken ==
    ASSUME NEW q \in Seq(Keys), q # <<>>
    PROVE  /\ Head(q) \in Keys /\ Tail(q) \in Seq(Keys) /\ Len(Tail(q)) = Len(q) - 1
           /\ Range(q) = {Head(q)} \cup Range(Tail(q))
<1>1. Head(q) \in Keys /\ Tail(q) \in Seq(Keys) /\ Len(Tail(q)) = Len(q) - 1
  OBVIOUS
<1>2. ASSUME NEW i \in DOMAIN q PROVE q[i] = Head(q) \/ q[i] \in Range(Tail(q))
  <2>1. CASE i = 1 BY <2>1
  <2>2. CASE i # 1
    <3>1. i - 1 \in DOMAIN Tail(q) /\ Tail(q)[i - 1] = q[i] BY <2>2
    <3> QED BY <3>1 DEF Range
  <2> QED BY <2>1, <2>2
<1>3. ASSUME NEW i \in DOMAIN Tail(q) PROVE Tail(q)[i] \in Range(q)
  <2>1. i + 1 \in DOMAIN q /\ Tail(q)[i] = q[i + 1] OBVIOUS
  <2> QED BY <2>1 DEF Range
<1>4. Head(q) \in Range(q) BY DEF Range
<1> QED BY <1>1, <1>2, <1>3, <1>4 DEF Range

\* A change is queued or goes unheard, and what it pushes out is not forgotten.
LEMMA EmitKeeps ==
    ASSUME CacheTypes, NEW k \in Keys, Emit(k)
    PROVE  /\ queue' \in Seq(Keys) /\ Len(queue') <= Capacity
           /\ Heard' => Heard /\ k # "key"
<1>0. Capacity \in Nat \ {0} /\ queue \in Seq(Keys) /\ Len(queue) <= Capacity /\ stream \in {"open", "closed"}
  BY CacheBounds DEF CacheTypes
<1>1. CASE stream = "closed"
  <2>1. queue' = queue BY <1>1 DEF Emit
  <2>2. ~unheard' => ~unheard /\ k # "key" BY <1>1 DEF Emit
  <2> QED BY <1>0, <2>1, <2>2 DEF Heard
<1>2. CASE stream = "open" /\ Len(queue) # Capacity
  <2>1. queue' = Append(queue, k) BY <1>2 DEF Emit
  <2>2. ~unheard' => ~unheard BY <1>2 DEF Emit
  <2> QED BY <1>0, <1>2, <2>1, <2>2, KeyAppended DEF Heard
<1>3. CASE stream = "open" /\ Len(queue) = Capacity
  <2>1. queue # <<>> BY <1>0, <1>3
  <2>2. queue' = Append(Tail(queue), k) BY <1>3 DEF Emit
  <2>3. ~unheard' => ~unheard /\ (Head(queue) = "key" => "key" \in Range(queue')) BY <1>3 DEF Emit
  <2>4. /\ Range(queue) = {Head(queue)} \cup Range(Tail(queue)) /\ Tail(queue) \in Seq(Keys)
        /\ Len(Tail(queue)) = Len(queue) - 1
    BY <1>0, <2>1, KeyTaken
  <2>5. /\ Range(queue') = Range(Tail(queue)) \cup {k} /\ queue' \in Seq(Keys)
        /\ Len(queue') = Len(queue)
    <3> DEFINE t == Tail(queue)
    <3>1. t \in Seq(Keys) /\ queue' = Append(t, k) /\ Len(t) = Len(queue) - 1 BY <2>2, <2>4
    <3> HIDE DEF t
    <3>2. Range(queue') = Range(t) \cup {k} /\ queue' \in Seq(Keys) /\ Len(queue') = Len(t) + 1
      BY <3>1, KeyAppended
    <3>3. Len(queue) \in Nat /\ Len(queue') = Len(queue) BY <1>0, <3>1, <3>2
    <3> QED BY <3>2, <3>3 DEF t
  <2> QED BY <1>0, <1>3, <2>3, <2>4, <2>5 DEF Heard
<1> QED BY <1>0, <1>1, <1>2, <1>3

LEMMA CacheInit == Init => CacheInv
<1> SUFFICES ASSUME Init PROVE CacheInv
  OBVIOUS
<1> USE DEF Init, Empty
<1>0. Capacity \in Nat /\ <<>> \in Seq(Keys) /\ Len(<<>>) = 0 BY CacheBounds
<1>1. CacheTypes
  <2>1. queue \in Seq(Keys) /\ Len(queue) <= Capacity BY <1>0
  <2>2. source \in Nat \ {0} /\ stream \in {"open", "closed"} OBVIOUS
  <2>4. evicting \in BOOLEAN BY Zenon
  <2>3. /\ inFlight \in Cells \cup {Empty} /\ cells \in [Cells -> Nat] /\ stage \in [Callers -> GetPhases]
        /\ cell \in [Callers -> Cells \cup {Empty}] /\ seen \in [Callers -> Nat]
    BY DEF GetPhases
  <2> QED BY <2>1, <2>2, <2>3, <2>4 DEF CacheTypes
<1>2. HoldsCell BY DEF HoldsCell, InsideGet, Within
<1>3. Apart BY DEF Apart
<1>4. Clean BY DEF Clean, Reachable
<1> QED BY <1>1, <1>2, <1>3, <1>4 DEF CacheInv

\* Every step keeps the invariant.
LEMMA CacheNext == CacheInv /\ [Next]_vars => CacheInv'
<1> SUFFICES ASSUME CacheInv, [Next]_vars PROVE CacheInv'
  OBVIOUS
<1> USE DEF CacheInv, CacheTypes, HoldsCell, Apart, Clean, Reachable, InsideGet, GetPhases, Within
<1>0. 0 \notin Cells
  BY CacheBounds DEF Cells
<1> USE <1>0 DEF Empty, feed, history, caller
<1>1. ASSUME NEW c \in Callers, Probe(c) PROVE CacheInv'
  BY <1>1 DEF Probe, Heard
<1>2. ASSUME NEW c \in Callers, Enter(c) PROVE CacheInv'
  <2>1. PICK k \in Cells :
          /\ cell' = [cell EXCEPT ![c] = k] /\ inFlight' = k
          /\ \/ inFlight = k
             \/ inFlight = Empty /\ cells[k] = Empty /\ \A d \in Callers : cell[d] # k
    BY <1>2 DEF Enter, Unused
  <2>2. /\ stage[c] = "enter" /\ stage' = [stage EXCEPT ![c] = "cell"]
        /\ straddlers' = IF evicting THEN straddlers \cup {c} ELSE straddlers
        /\ UNCHANGED <<source, stream, queue, evicting, inner, cells, seen, putBack, unheard>>
    BY <1>2 DEF Enter
  <2>3. CacheTypes' /\ HoldsCell' BY <2>1, <2>2
  <2>4. Apart' BY <2>1, <2>2
  <2>5. Clean'
    <3>1. Heard' => Heard BY <2>2 DEF Heard
    <3>2. CASE evicting BY <2>1, <2>2, <3>1, <3>2
    <3>3. CASE ~evicting BY <2>1, <2>2, <3>1, <3>3
    <3> QED BY <3>2, <3>3
  <2> QED BY <2>3, <2>4, <2>5
<1>3. ASSUME NEW c \in Callers, TakeCell(c) PROVE CacheInv'
  BY <1>3 DEF TakeCell, Heard
<1>4. ASSUME NEW c \in Callers, StartBuild(c) PROVE CacheInv'
  BY <1>4 DEF StartBuild, RunBuilder, Heard
<1>5. ASSUME NEW c \in Callers, BuildDone(c) PROVE CacheInv'
  BY <1>5 DEF BuildDone, Heard
<1>6. ASSUME NEW c \in Callers, BuildAbandoned(c) PROVE CacheInv'
  BY <1>6 DEF BuildAbandoned, Leave, Heard
<1>7. ASSUME NEW c \in Callers, Hoist(c) PROVE CacheInv'
  BY <1>7 DEF Hoist, Heard
<1>8. ASSUME NEW c \in Callers, Clear(c) PROVE CacheInv'
  BY <1>8 DEF Clear, Leave, Heard
<1>9. ASSUME NEW k \in Keys, Emit(k), source' = source \/ (k = "key" /\ source' = source + 1)
      PROVE  CacheInv'
  <2>1. queue' \in Seq(Keys) /\ Len(queue') <= Capacity /\ (Heard' => Heard /\ k # "key")
    BY <1>9, EmitKeeps
  <2>2. UNCHANGED <<stream, evicting, inner, inFlight, cells, stage, cell, seen, straddlers, putBack>>
    BY <1>9 DEF Emit
  <2>3. source' \in Nat \ {0} BY <1>9
  <2>4. Heard' => source' = source BY <1>9, <2>1
  <2> QED BY <2>1, <2>2, <2>3, <2>4
<1>10. CASE EvictWarm
  <2>1. /\ queue # <<>> /\ queue' = Tail(queue) /\ ~evicting
        /\ UNCHANGED <<source, stream, inFlight, cells, stage, cell, seen>>
    BY <1>10 DEF EvictWarm
  <2>2. /\ queue' \in Seq(Keys) /\ Len(queue') <= Capacity
        /\ Range(queue) = {Head(queue)} \cup Range(queue')
    BY <2>1, KeyTaken, CacheBounds
  <2>3. CASE /\ inner' = Empty /\ evicting' = TRUE /\ straddlers' = InsideGet
    BY <2>1, <2>2, <2>3
  <2>4. CASE Head(queue) = "other" /\ UNCHANGED <<inner, evicting, straddlers, putBack, unheard>>
    <3>1. Heard' => Heard BY <2>2, <2>4 DEF Heard
    <3> QED BY <2>1, <2>2, <2>4, <3>1
  <2> QED
    BY <1>10, <2>3, <2>4 DEF EvictWarm, WarmAfterEvict
<1>11. CASE EvictCell
  BY <1>11 DEF EvictCell, Heard
<1>12. CASE StreamCloses
  BY <1>12 DEF StreamCloses, Heard
<1>13. CASE Reconnect
  BY <1>13 DEF Reconnect, Heard
<1>14. CASE UNCHANGED vars
  BY <1>14 DEF vars, Heard
<1>15. CASE Change
  BY <1>9, <1>15 DEF Change, Keys
<1>16. CASE OtherChange
  BY <1>9, <1>16 DEF OtherChange, Keys
<1> QED
  BY <1>1, <1>2, <1>3, <1>4, <1>5, <1>6, <1>7, <1>8, <1>10, <1>11, <1>12, <1>13, <1>14, <1>15, <1>16
     DEF Next, GetStep

\* For any callers, any capacity of the stream and any interleaving of get, evict and
\* the change feed, a provider built before the last change is served only for the
\* reasons named: its change is queued or lost, or a get that straddled the evict put
\* it back.
THEOREM WarmEntryFresh == Spec => []FreshUnlessPutBack
<1>1. CacheInv => FreshUnlessPutBack
  BY DEF CacheInv, Clean, Heard, FreshUnlessPutBack, Stale, Empty
<1> QED
  BY <1>1, CacheInit, CacheNext, PTL DEF Spec
=============================================================================
