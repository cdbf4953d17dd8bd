------------------------- MODULE PolicyRulesProofs -------------------------
(***************************************************************************)
(* Proofs about PolicyRules, for any organisations, sessions, names,       *)
(* targets and bodies.                                                     *)
(***************************************************************************)
EXTENDS PolicyRules, TLAPS

\* The type of a statement that arrives.
LEMMA StatementTypes ==
    \A d \in Declared :
       /\ d.target \in Targets /\ d.body \in Bodies
       /\ [op |-> "create", kind |-> KindOf(d.target), name |-> d.name,
           target |-> d.target, body |-> d.body] \in Statements
       /\ [op |-> "drop", kind |-> KindOf(d.target), name |-> d.name,
           target |-> None, body |-> None] \in Statements
  <1>1. \A d \in Declared : d.name \in Names /\ d.target \in Targets /\ d.body \in Bodies
    BY PolicyConstants
  <1>2. \A t \in Targets : KindOf(t) \in Kinds
    BY DEF KindOf, Kinds
  <1> QED
    BY <1>1, <1>2 DEF Statements

\* The last of a set of names is one of them, and none is after it.
LEMMA LastName ==
    \A S \in SUBSET Names : S # {} => Max(S) \in S /\ \A m \in S : Max(S) >= m
  BY PolicyConstants DEF Max

\* TypeOK is inductive: whatever step a session, a crash or a boot takes, each
\* variable keeps its type and a statement works on a rule of its own kind.
LEMMA TypeInductive == TypeOK /\ [Next]_vars => TypeOK'
  <1> SUFFICES ASSUME TypeOK, [Next]_vars PROVE TypeOK'
    OBVIOUS
  <1>0. /\ up \in BOOLEAN
        /\ pc \in [Workers -> {"idle", "read", "enforce", "persist"}]
        /\ stmt \in [Workers -> Statements \cup {None}]
        /\ \A w \in Workers : pc[w] # "idle" => stmt[w] \in Statements /\ HasItsKind(w)
        /\ live \in [Orgs -> [Targets -> Bodies \cup {None}]]
        /\ store \in [Orgs -> [Names -> Policies \cup {NoPolicy}]]
        /\ torn \in [Orgs -> [Targets -> {"no", "create", "drop"}]]
        /\ crossed \subseteq Orgs \X Targets
        /\ OrgOf \in [Workers -> Orgs]
    BY PolicyConstants DEF TypeOK
  <1> HIDE DEF TypeOK
  <1>1. ASSUME NEW w \in Workers, NEW s \in Statements, Arrives(w, s),
               s.op = "create" => /\ s.target \in Targets /\ KindOf(s.target) = s.kind
                                  /\ s.body \in Bodies
        PROVE  TypeOK'
    <2>1. /\ up' = up /\ live' = live /\ store' = store /\ torn' = torn /\ crossed' = crossed
          /\ pc' = [pc EXCEPT ![w] = "read"] /\ stmt' = [stmt EXCEPT ![w] = s]
      BY <1>1 DEF Arrives
    <2>2. stmt' \in [Workers -> Statements \cup {None}]
      BY <1>0, <2>1
    <2>3. pc' \in [Workers -> {"idle", "read", "enforce", "persist"}]
      BY <1>0, <2>1
    <2>4. ASSUME NEW v \in Workers, pc'[v] # "idle"
          PROVE  stmt'[v] \in Statements /\ HasItsKind(v)'
      <3>1. CASE v = w
        <4>1. stmt'[v] = s /\ pc'[v] = "read"
          BY <1>0, <2>1, <3>1
        <4> QED
          BY <1>1, <4>1 DEF HasItsKind
      <3>2. CASE v # w
        <4>1. stmt'[v] = stmt[v] /\ pc'[v] = pc[v]
          BY <1>0, <2>1, <3>2
        <4> QED
          BY <1>0, <2>4, <4>1 DEF HasItsKind
      <3> QED
        BY <3>1, <3>2
    <2> QED
      BY <1>0, <2>1, <2>2, <2>3, <2>4 DEF TypeOK
  <1>2. ASSUME NEW w \in Workers, Returns(w), UNCHANGED <<up, live, crossed>>,
               store' \in [Orgs -> [Names -> Policies \cup {NoPolicy}]],
               torn' \in [Orgs -> [Targets -> {"no", "create", "drop"}]]
        PROVE  TypeOK'
    <2>1. /\ pc' = [pc EXCEPT ![w] = "idle"] /\ stmt' = [stmt EXCEPT ![w] = None]
          /\ up' = up /\ live' = live /\ crossed' = crossed
      BY <1>2 DEF Returns
    <2>2. ASSUME NEW v \in Workers, pc'[v] # "idle"
          PROVE  stmt'[v] \in Statements /\ HasItsKind(v)'
      <3>1. stmt'[v] = stmt[v] /\ pc'[v] = pc[v]
        BY <1>0, <2>1, <2>2
      <3> QED
        BY <1>0, <2>2, <3>1 DEF HasItsKind
    <2>3. /\ pc' \in [Workers -> {"idle", "read", "enforce", "persist"}]
          /\ stmt' \in [Workers -> Statements \cup {None}]
      BY <1>0, <2>1
    <2> QED
      BY <1>0, <1>2, <2>1, <2>2, <2>3 DEF TypeOK
  <1>3. ASSUME NEW w \in Workers, Ends(w) PROVE TypeOK'
    <2>1. Returns(w) /\ UNCHANGED <<up, live, crossed>> /\ store' = store /\ torn' = torn
      BY <1>3 DEF Ends
    <2> QED
      BY <1>0, <1>2, <2>1
  <1>4. ASSUME NEW w \in Workers, NEW t \in Targets, Cross(w, t)
        PROVE  crossed' \subseteq Orgs \X Targets
    <2>1. ASSUME NEW v \in Rivals(w, t) PROVE stmt[v].target \in Targets
      BY <1>0 DEF Rivals, HasItsKind
    <2>2. OrgOf[w] \in Orgs
      BY <1>0
    <2>3. {<<OrgOf[w], stmt[v].target>> : v \in Rivals(w, t)} \subseteq Orgs \X Targets
      BY <2>1, <2>2
    <2> QED
      BY <1>0, <1>4, <2>2, <2>3 DEF Cross
  <1>5. ASSUME NEW w \in Workers, NameFree(w) PROVE TypeOK'
    <2>1. /\ UNCHANGED <<up, stmt, live, store, torn>> /\ pc' = [pc EXCEPT ![w] = "enforce"]
          /\ pc[w] = "read" /\ stmt[w].op = "create" /\ Cross(w, stmt[w].target)
      BY <1>5 DEF NameFree
    <2>2. stmt[w].target \in Targets
      BY <1>0, <2>1 DEF HasItsKind
    <2>3. ASSUME NEW v \in Workers, pc'[v] # "idle"
          PROVE  stmt'[v] \in Statements /\ HasItsKind(v)'
      BY <1>0, <2>1, <2>3 DEF HasItsKind
    <2> QED
      BY <1>0, <1>4, <2>1, <2>2, <2>3 DEF TypeOK
  <1>6. ASSUME NEW w \in Workers, DropFound(w) PROVE TypeOK'
    <2>1. /\ UNCHANGED <<up, live, store, torn>> /\ pc' = [pc EXCEPT ![w] = "enforce"]
          /\ stmt' = [stmt EXCEPT ![w].target = Found(w).target]
          /\ pc[w] = "read" /\ stmt[w].op = "drop" /\ GetOfKind(w)
          /\ Cross(w, Found(w).target)
      BY <1>6 DEF DropFound
    <2>2. stmt[w] \in Statements /\ stmt[w].name \in Names /\ stmt[w].op = "drop"
      BY <1>0, <2>1 DEF Statements
    <2>3. Found(w) \in Policies /\ KindOf(Found(w).target) = stmt[w].kind
      BY <1>0, <2>1, <2>2 DEF GetOfKind, Stored, Found
    <2>4. Found(w).target \in Targets
      BY <2>3 DEF Policies
    <2>5. stmt'[w] = [stmt[w] EXCEPT !.target = Found(w).target]
      BY <1>0, <2>1
    <2>6. /\ stmt'[w] \in Statements /\ stmt'[w].op = "drop"
          /\ stmt'[w].target = Found(w).target /\ stmt'[w].kind = stmt[w].kind
      BY <2>2, <2>4, <2>5 DEF Statements
    <2>7. \A v \in Workers : v # w => stmt'[v] = stmt[v] /\ pc'[v] = pc[v]
      BY <1>0, <2>1
    <2>8. stmt' \in [Workers -> Statements \cup {None}]
      BY <1>0, <2>1, <2>6, <2>7
    <2>9. ASSUME NEW v \in Workers, pc'[v] # "idle"
          PROVE  stmt'[v] \in Statements /\ HasItsKind(v)'
      <3>1. CASE v = w
        BY <3>1, <2>3, <2>4, <2>6 DEF HasItsKind
      <3>2. CASE v # w
        BY <3>2, <1>0, <2>7, <2>9 DEF HasItsKind
      <3> QED
        BY <3>1, <3>2
    <2>10. crossed' \subseteq Orgs \X Targets
      BY <1>4, <2>1, <2>4
    <2> QED
      BY <1>0, <2>1, <2>8, <2>9, <2>10 DEF TypeOK
  <1>7. ASSUME NEW w \in Workers, Enforced(w) PROVE TypeOK'
    <2>1. /\ UNCHANGED <<up, stmt, store, torn, crossed>> /\ pc' = [pc EXCEPT ![w] = "persist"]
          /\ pc[w] = "enforce"
      BY <1>7 DEF Enforced
    <2>2. stmt[w].target \in Targets /\ (stmt[w].op = "create" => stmt[w].body \in Bodies)
      BY <1>0, <2>1 DEF HasItsKind
    <2>3. OrgOf[w] \in Orgs
      BY <1>0
    <2>4. live' \in [Orgs -> [Targets -> Bodies \cup {None}]]
      <3>1. PICK b \in Bodies \cup {None} :
              live' = [live EXCEPT ![OrgOf[w]][stmt[w].target] = b]
        BY <1>7, <2>2 DEF Enforced, Upserted, Removed
      <3> QED
        BY <1>0, <2>2, <2>3, <3>1
    <2>5. ASSUME NEW v \in Workers, pc'[v] # "idle"
          PROVE  stmt'[v] \in Statements /\ HasItsKind(v)'
      BY <1>0, <2>1, <2>5 DEF HasItsKind
    <2> QED
      BY <1>0, <2>1, <2>4, <2>5 DEF TypeOK
  <1>8. ASSUME NEW w \in Workers, Persisted(w) \/ PersistFails(w) PROVE TypeOK'
    <2>1. /\ UNCHANGED <<up, live, crossed>> /\ Returns(w) /\ pc[w] = "persist"
          /\ PutPolicy(w) \/ DeletePolicy(w) \/ store' = store
          /\ \E how : torn' = [torn EXCEPT ![OrgOf[w]][stmt[w].target] = how]
                      /\ how \in {"no", "create", "drop"}
      BY <1>8 DEF Persisted, PersistFails, PutPolicy, DeletePolicy, Tear
    <2>2. /\ stmt[w] \in Statements /\ stmt[w].target \in Targets
          /\ stmt[w].op = "create" => stmt[w].body \in Bodies
      BY <1>0, <2>1 DEF HasItsKind
    <2>3. stmt[w].name \in Names /\ OrgOf[w] \in Orgs
      BY <1>0, <2>2 DEF Statements
    <2>4. store' \in [Orgs -> [Names -> Policies \cup {NoPolicy}]]
      <3>1. CASE store' = store
        BY <1>0, <3>1
      <3>2. CASE store' # store
        <4>1. PICK q \in Policies \cup {NoPolicy} :
                store' = [store EXCEPT ![OrgOf[w]][stmt[w].name] = q]
          BY <2>1, <2>2, <3>2 DEF PutPolicy, DeletePolicy, Policies
        <4> QED
          BY <1>0, <2>3, <4>1
      <3> QED
        BY <3>1, <3>2
    <2>5. torn' \in [Orgs -> [Targets -> {"no", "create", "drop"}]]
      <3>1. PICK how \in {"no", "create", "drop"} :
              torn' = [torn EXCEPT ![OrgOf[w]][stmt[w].target] = how]
        BY <2>1
      <3> QED
        BY <1>0, <2>2, <2>3, <3>1
    <2> QED
      BY <1>2, <2>1, <2>4, <2>5
  <1>9. CASE Crash
    BY <1>0, <1>9 DEF Crash, TypeOK
  <1>10. CASE Boot
    <2>1. \A o \in Orgs, t \in Targets : Replayed(o, t) \in Bodies \cup {None}
      <3> SUFFICES ASSUME NEW o \in Orgs, NEW t \in Targets, On(o, t) # {}
                   PROVE  store[o][Max(On(o, t))].body \in Bodies \cup {None}
        BY DEF Replayed
      <3>1. Max(On(o, t)) \in Names
        BY LastName DEF On
      <3> QED
        BY <1>0, <3>1 DEF Policies, NoPolicy
    <2> QED
      BY <1>0, <1>10, <2>1 DEF Boot, TypeOK, HasItsKind
  <1>11. CASE UNCHANGED vars
    BY <1>0, <1>11 DEF vars, TypeOK, HasItsKind
  <1>12. ASSUME NEW w \in Workers, Create(w) \/ Drop(w) PROVE TypeOK'
    BY <1>1, <1>12, StatementTypes DEF Create, Drop
  <1> QED
    BY <1>3, <1>5, <1>6, <1>7, <1>8, <1>9, <1>10, <1>11, <1>12
    DEF Next, Step, ReadFails, NameTaken, DropAbsent, Rejected

\* Every variable of a server always has its type, and a DROP never works on
\* a policy of the other kind.
THEOREM TypeCorrect == Spec => []TypeOK
  <1>1. Init => TypeOK
    BY DEF Init, TypeOK
  <1> QED
    BY <1>1, TypeInductive, PTL DEF Spec

-----------------------------------------------------------------------------
(* A server can always boot.                                               *)

\* What a CREATE is about to persist has been accepted by the enforcer.
Accepted == \A w \in Workers : pc[w] = "persist" /\ stmt[w].op = "create" => stmt[w].body \notin Bad

\* No step stores a rule the enforcer rejects, or brings a CREATE of one to
\* its put_policy.
LEMMA AcceptedInductive ==
    TypeOK /\ CanBoot /\ Accepted /\ [Next]_vars => (CanBoot /\ Accepted)'
  <1> SUFFICES ASSUME TypeOK, CanBoot, Accepted, [Next]_vars PROVE CanBoot' /\ Accepted'
    OBVIOUS
  <1>0. /\ pc \in [Workers -> {"idle", "read", "enforce", "persist"}]
        /\ stmt \in [Workers -> Statements \cup {None}]
        /\ \A w \in Workers : pc[w] # "idle" => stmt[w] \in Statements
        /\ store \in [Orgs -> [Names -> Policies \cup {NoPolicy}]]
        /\ OrgOf \in [Workers -> Orgs] /\ None \notin Bad
    BY PolicyConstants DEF TypeOK
  <1>1. ASSUME NEW w \in Workers, store' = store,
               pc'[w] # "persist" \/ stmt'[w].op # "create" \/ stmt'[w].body \notin Bad,
               \A v \in Workers : v # w => pc'[v] = pc[v] /\ stmt'[v] = stmt[v]
        PROVE  CanBoot' /\ Accepted'
    BY <1>1 DEF CanBoot, Accepted
  <1>2. ASSUME NEW w \in Workers, Step(w), ~(PutPolicy(w) \/ DeletePolicy(w))
        PROVE  CanBoot' /\ Accepted'
    <2>1. store' = store
      BY <1>2 DEF Step, Create, Drop, Arrives, Ends, Returns, ReadFails, NameTaken, NameFree, DropAbsent,
                  DropFound, Rejected, Enforced, Persisted, PersistFails
    <2>2. \A v \in Workers : v # w => pc'[v] = pc[v] /\ stmt'[v] = stmt[v]
      BY <1>0, <1>2 DEF Step, Create, Drop, Arrives, Ends, Returns, ReadFails, NameTaken, NameFree,
                  DropAbsent, DropFound, Rejected, Enforced, Persisted, PersistFails
    <2>3. CASE Enforced(w)
      <3>1. stmt' = stmt /\ (stmt[w].op # "create" \/ stmt[w].body \notin Bad)
        BY <2>3 DEF Enforced
      <3> QED
        BY <1>1, <2>1, <2>2, <3>1
    <2>4. CASE ~Enforced(w)
      <3>1. pc'[w] # "persist"
        BY <1>0, <1>2, <2>4 DEF Step, Create, Drop, Arrives, Ends, Returns, ReadFails, NameTaken, NameFree,
                  DropAbsent, DropFound, Rejected, Persisted, PersistFails
      <3> QED
        BY <1>1, <2>1, <2>2, <3>1
    <2> QED
      BY <2>3, <2>4
  <1>3. ASSUME NEW w \in Workers, PutPolicy(w) \/ DeletePolicy(w), Step(w)
        PROVE  CanBoot' /\ Accepted'
    <2>1. /\ stmt' = [stmt EXCEPT ![w] = None] /\ pc' = [pc EXCEPT ![w] = "idle"]
          /\ pc[w] = "persist"
      <3>1. pc[w] = "persist"
        BY <1>3 DEF PutPolicy, DeletePolicy
      <3>2. Persisted(w) \/ PersistFails(w)
        BY <1>3, <3>1 DEF Step, Create, Drop, Arrives, ReadFails, NameTaken, NameFree, DropAbsent,
                    DropFound, Rejected, Enforced
      <3> QED
        BY <3>1, <3>2 DEF Persisted, PersistFails, Returns
    <2>2. PICK p : /\ store' = [store EXCEPT ![OrgOf[w]][stmt[w].name] = p]
                   /\ p.body \notin Bad
      <3>1. CASE PutPolicy(w)
        <4>1. [target |-> stmt[w].target, body |-> stmt[w].body].body \notin Bad
          BY <3>1 DEF PutPolicy, Accepted
        <4> QED
          BY <3>1, <4>1 DEF PutPolicy
      <3>2. CASE DeletePolicy(w)
        BY <1>0, <3>2 DEF DeletePolicy, NoPolicy
      <3> QED
        BY <1>3, <3>1, <3>2
    <2>3. stmt[w].name \in Names
      BY <1>0, <2>1 DEF Statements
    <2>4. \A o \in Orgs, n \in Names :
             store'[o][n] = IF o = OrgOf[w] /\ n = stmt[w].name THEN p ELSE store[o][n]
      BY <1>0, <2>2, <2>3
    <2>5. CanBoot'
      BY <2>2, <2>4 DEF CanBoot
    <2>6. Accepted'
      BY <1>0, <2>1 DEF Accepted
    <2> QED
      BY <2>5, <2>6
  <1>4. CASE Crash
    BY <1>4 DEF Crash, CanBoot, Accepted
  <1>5. CASE Boot
    BY <1>5 DEF Boot, CanBoot, Accepted
  <1>6. CASE UNCHANGED vars
    BY <1>6 DEF vars, CanBoot, Accepted
  <1> QED
    BY <1>2, <1>3, <1>4, <1>5, <1>6 DEF Next

\* load_persisted_policies never meets a stored policy the enforcer rejects:
\* whatever fails and whenever the process crashes, the next boot succeeds.
THEOREM AlwaysCanBoot == Spec => []CanBoot
  <1>1. Init => TypeOK /\ CanBoot /\ Accepted
    BY PolicyConstants DEF Init, TypeOK, CanBoot, Accepted, NoPolicy
  <1> QED
    BY <1>1, TypeInductive, AcceptedInductive, PTL DEF Spec

-----------------------------------------------------------------------------
(* The live rules and the meta store agree on every target that has not    *)
(* been crossed.                                                           *)

Active(w) == pc[w] \in {"enforce", "persist"}
Crossed(w) == <<OrgOf[w], stmt[w].target>> \in crossed

\* Two statements past their read share a name or a target.
Clash(v, w) ==
    /\ v # w /\ OrgOf[v] = OrgOf[w] /\ Active(v) /\ Active(w)
    /\ stmt[v].name = stmt[w].name \/ stmt[v].target = stmt[w].target

\* What is stored under a statement's name is what the statement read, or is
\* on a crossed target.
NameIsOwn(w) ==
    LET s == Found(w).target
    IN  s \in Targets /\ ~(stmt[w].op = "drop" /\ s = stmt[w].target) =>
            <<OrgOf[w], s>> \in crossed

\* No other name has the statement's target.
TargetIsOwn(w) ==
    On(OrgOf[w], stmt[w].target) = IF stmt[w].op = "create" THEN {} ELSE {stmt[w].name}

\* Between its two halves a statement's rule is in force and not yet stored.
Halfway(w) ==
    live[OrgOf[w]][stmt[w].target] = IF stmt[w].op = "create" THEN stmt[w].body ELSE None

\* No write for the target is under way, and none has failed, or the one that
\* failed was of a CREATE that took effect.
Settled(o, t) ==
    /\ <<o, t>> \notin crossed
    /\ torn[o][t] = "no" \/ (torn[o][t] = "create" /\ On(o, t) # {})
    /\ \A w \in Workers : OrgOf[w] = o /\ pc[w] = "persist" => stmt[w].target # t

SerialInv ==
    /\ \A w \in Workers : pc[w] # "idle" => up
    /\ \A v, w \in Workers : Clash(v, w) => Crossed(v)
    /\ \A w \in Workers : Active(w) => NameIsOwn(w)
    /\ \A w \in Workers : Active(w) => Crossed(w) \/ TargetIsOwn(w)
    /\ \A w \in Workers : pc[w] = "persist" => Crossed(w) \/ Halfway(w)
    /\ up => \A o \in Orgs, t \in Targets : Settled(o, t) => live[o][t] = Replayed(o, t)

\* A write of the meta store is to the statement's name.
LEMMA WriteShape ==
    ASSUME NEW w \in Workers, PutPolicy(w) \/ DeletePolicy(w)
    PROVE  \E q : /\ store' = [store EXCEPT ![OrgOf[w]][stmt[w].name] = q]
                  /\ q.target = stmt[w].target \/ q.target = None
  <1>1. CASE PutPolicy(w)
    <2> DEFINE q == [target |-> stmt[w].target, body |-> stmt[w].body]
    <2>1. q.target = stmt[w].target
      OBVIOUS
    <2>2. store' = [store EXCEPT ![OrgOf[w]][stmt[w].name] = q]
      BY <1>1 DEF PutPolicy
    <2> HIDE DEF q
    <2> QED
      BY <2>1, <2>2
  <1>2. CASE DeletePolicy(w)
    <2>1. NoPolicy.target = None
      BY DEF NoPolicy
    <2> QED
      BY <1>2, <2>1 DEF DeletePolicy
  <1> QED
    BY <1>1, <1>2

\* A write of the meta store changes what is declared on no target but its own
\* and those that have been crossed.
LEMMA WriteIsLocal ==
    ASSUME TypeOK, SerialInv, NEW w \in Workers, PutPolicy(w) \/ DeletePolicy(w),
           NEW o \in Orgs, NEW t \in Targets, <<o, t>> \notin crossed,
           o # OrgOf[w] \/ t # stmt[w].target
    PROVE  On(o, t)' = On(o, t) /\ Replayed(o, t)' = Replayed(o, t)
  <1>0. /\ store \in [Orgs -> [Names -> Policies \cup {NoPolicy}]]
        /\ stmt[w] \in Statements /\ stmt[w].name \in Names /\ OrgOf[w] \in Orgs
        /\ None \notin Targets /\ Active(w)
    BY PolicyConstants DEF TypeOK, Statements, PutPolicy, DeletePolicy, Active
  <1>1. PICK q : /\ store' = [store EXCEPT ![OrgOf[w]][stmt[w].name] = q]
                 /\ q.target = stmt[w].target \/ q.target = None
    BY WriteShape
  <1>2. \A p \in Orgs, m \in Names :
           store'[p][m] = IF p = OrgOf[w] /\ m = stmt[w].name THEN q ELSE store[p][m]
    BY <1>0, <1>1
  <1>3. ASSUME o = OrgOf[w]
        PROVE  store[o][stmt[w].name].target # t /\ store'[o][stmt[w].name].target # t
    <2>1. NameIsOwn(w)
      BY <1>0 DEF SerialInv
    <2>2. store'[o][stmt[w].name].target # t
      BY <1>0, <1>1, <1>2, <1>3
    <2>3. store[o][stmt[w].name].target # t
      BY <1>3, <2>1 DEF NameIsOwn, Found
    <2> QED
      BY <2>2, <2>3
  <1>4. \A m \in Names : store'[o][m] = store[o][m]
                          \/ (store[o][m].target # t /\ store'[o][m].target # t)
    BY <1>2, <1>3
  <1>5. On(o, t)' = On(o, t)
    BY <1>4 DEF On
  <1>6. \A m \in On(o, t) : store'[o][m] = store[o][m]
    BY <1>4 DEF On
  <1>7. On(o, t) # {} => Max(On(o, t)) \in On(o, t)
    BY LastName DEF On
  <1> QED
    BY <1>5, <1>6, <1>7 DEF Replayed

\* SerialInv is inductive.
LEMMA SerialInductive == TypeOK /\ SerialInv /\ [Next]_vars => SerialInv'
  <1> SUFFICES ASSUME TypeOK, SerialInv, [Next]_vars PROVE SerialInv'
    OBVIOUS
  <1>0. /\ pc \in [Workers -> {"idle", "read", "enforce", "persist"}]
        /\ stmt \in [Workers -> Statements \cup {None}]
        /\ \A w \in Workers : pc[w] # "idle" => stmt[w] \in Statements /\ HasItsKind(w)
        /\ live \in [Orgs -> [Targets -> Bodies \cup {None}]]
        /\ store \in [Orgs -> [Names -> Policies \cup {NoPolicy}]]
        /\ torn \in [Orgs -> [Targets -> {"no", "create", "drop"}]]
        /\ OrgOf \in [Workers -> Orgs] /\ None \notin Targets
    BY PolicyConstants DEF TypeOK
  <1>a. /\ \A w \in Workers : pc[w] # "idle" => up
        /\ \A v, w \in Workers : Clash(v, w) => Crossed(v)
        /\ \A w \in Workers : Active(w) => NameIsOwn(w)
        /\ \A w \in Workers : Active(w) => Crossed(w) \/ TargetIsOwn(w)
        /\ \A w \in Workers : pc[w] = "persist" => Crossed(w) \/ Halfway(w)
        /\ up => \A o \in Orgs, t \in Targets : Settled(o, t) => live[o][t] = Replayed(o, t)
    BY DEF SerialInv
  <1> HIDE DEF TypeOK, SerialInv
  \* A step before the rule change: only the worker's own statement moves.
  <1>1. ASSUME NEW w \in Workers, up' = up, live' = live, store' = store, torn' = torn,
               crossed \subseteq crossed',
               \A v \in Workers : v # w => pc'[v] = pc[v] /\ stmt'[v] = stmt[v],
               pc[w] # "persist", pc'[w] # "persist", up,
               Active(w)' => /\ \A v \in Workers : Clash(v, w)' => Crossed(v)' /\ Crossed(w)'
                             /\ NameIsOwn(w)' /\ (Crossed(w)' \/ TargetIsOwn(w)')
        PROVE  SerialInv'
    <2>1. \A v \in Workers : v # w =>
             /\ Active(v)' <=> Active(v)
             /\ Crossed(v) => Crossed(v)'
             /\ NameIsOwn(v) => NameIsOwn(v)'
             /\ TargetIsOwn(v) => TargetIsOwn(v)'
             /\ Halfway(v)' <=> Halfway(v)
      BY <1>1 DEF Active, Crossed, NameIsOwn, Found, TargetIsOwn, On, Halfway
    <2>2. ASSUME NEW v \in Workers, NEW u \in Workers, Clash(v, u)' PROVE Crossed(v)'
      <3>1. CASE u = w
        BY <1>1, <2>2, <3>1 DEF Clash
      <3>2. CASE v = w
        <4>1. Clash(u, w)' /\ Active(w)'
          BY <2>2, <3>2 DEF Clash
        <4> QED
          BY <1>1, <3>2, <4>1
      <3>3. CASE u # w /\ v # w
        BY <1>1, <1>a, <2>1, <2>2, <3>3 DEF Clash, Active
      <3> QED
        BY <3>1, <3>2, <3>3
    <2>3. ASSUME NEW v \in Workers, Active(v)'
          PROVE  NameIsOwn(v)' /\ (Crossed(v)' \/ TargetIsOwn(v)')
      BY <1>1, <1>a, <2>1, <2>3
    <2>4. ASSUME NEW v \in Workers, pc'[v] = "persist" PROVE Crossed(v)' \/ Halfway(v)'
      BY <1>1, <1>a, <2>1, <2>4
    <2>5. ASSUME NEW o \in Orgs, NEW t \in Targets, Settled(o, t)'
          PROVE  live'[o][t] = Replayed(o, t)'
      <3>1. Settled(o, t)
        BY <2>5, <1>1 DEF Settled, On
      <3>2. Replayed(o, t)' = Replayed(o, t)
        BY <1>1 DEF Replayed, On
      <3> QED
        BY <3>1, <3>2, <1>a, <1>1
    <2> QED
      BY <1>1, <2>2, <2>3, <2>4, <2>5 DEF SerialInv
  <1>2. ASSUME NEW w \in Workers, Create(w) \/ Drop(w) PROVE SerialInv'
    <2>1. PICK s : Arrives(w, s)
      BY <1>2 DEF Create, Drop
    <2>2. /\ up /\ up' = up /\ live' = live /\ store' = store /\ torn' = torn
          /\ crossed' = crossed /\ pc[w] = "idle" /\ pc'[w] = "read"
          /\ \A v \in Workers : v # w => pc'[v] = pc[v] /\ stmt'[v] = stmt[v]
      BY <1>0, <2>1 DEF Arrives
    <2>3. ~Active(w)'
      BY <2>2 DEF Active
    <2> QED
      BY <1>1, <2>2, <2>3
  <1>3. ASSUME NEW w \in Workers, Ends(w), pc[w] \in {"read", "enforce"} PROVE SerialInv'
    <2>1. /\ up' = up /\ live' = live /\ store' = store /\ torn' = torn
          /\ crossed' = crossed /\ pc'[w] = "idle"
          /\ \A v \in Workers : v # w => pc'[v] = pc[v] /\ stmt'[v] = stmt[v]
      BY <1>0, <1>3 DEF Ends, Returns
    <2>2. ~Active(w)'
      BY <2>1 DEF Active
    <2> QED
      BY <1>1, <1>3, <1>a, <2>1, <2>2
  \* A statement passes its read: whom it meets is crossed, and so is it.
  <1>4. ASSUME NEW w \in Workers, NEW t \in Targets, Cross(w, t),
               stmt'[w].target = t, stmt'[w].name = stmt[w].name,
               \A v \in Workers : v # w => pc'[v] = pc[v] /\ stmt'[v] = stmt[v]
        PROVE  /\ crossed \subseteq crossed'
               /\ \A v \in Workers : Clash(v, w)' => Crossed(v)' /\ Crossed(w)'
               /\ Crossed(w)' \/ On(OrgOf[w], t) \subseteq {stmt[w].name}
    <2>1. /\ crossed \subseteq crossed'
          /\ \A v \in Rivals(w, t) : <<OrgOf[w], stmt[v].target>> \in crossed'
          /\ ~Alone(w, t) => <<OrgOf[w], t>> \in crossed'
      BY <1>4 DEF Cross
    <2>2. ASSUME NEW v \in Workers, Clash(v, w)' PROVE Crossed(v)' /\ Crossed(w)'
      <3>1. v \in Rivals(w, t)
        BY <1>4, <2>2 DEF Clash, Active, Rivals
      <3>2. v # w /\ OrgOf[v] = OrgOf[w] /\ ~Alone(w, t)
        BY <2>2, <3>1 DEF Clash, Alone
      <3> QED
        BY <1>4, <2>1, <3>1, <3>2 DEF Crossed
    <2>3. Crossed(w)' \/ On(OrgOf[w], t) \subseteq {stmt[w].name}
      BY <1>4, <2>1 DEF Crossed, Alone
    <2> QED
      BY <2>1, <2>2, <2>3
  <1>5. ASSUME NEW w \in Workers, NameFree(w) PROVE SerialInv'
    <2>1. /\ up' = up /\ live' = live /\ store' = store /\ torn' = torn
          /\ pc'[w] = "enforce" /\ pc[w] = "read" /\ Cross(w, stmt[w].target)
          /\ stmt' = stmt /\ stmt[w].op = "create" /\ store[OrgOf[w]][stmt[w].name] = NoPolicy
          /\ \A v \in Workers : v # w => pc'[v] = pc[v]
      BY <1>0, <1>5 DEF NameFree, Taken, Stored
    <2>2. stmt[w].target \in Targets
      BY <1>0, <2>1 DEF HasItsKind
    <2>3. NameIsOwn(w)'
      BY <1>0, <2>1 DEF NameIsOwn, Found, NoPolicy
    <2>4. stmt[w].name \notin On(OrgOf[w], stmt[w].target)
      BY <1>0, <2>1, <2>2 DEF On, NoPolicy
    <2>5. /\ crossed \subseteq crossed'
          /\ \A v \in Workers : Clash(v, w)' => Crossed(v)' /\ Crossed(w)'
          /\ Crossed(w)' \/ On(OrgOf[w], stmt[w].target) \subseteq {stmt[w].name}
      BY <1>4, <2>1, <2>2
    <2>6. Crossed(w)' \/ TargetIsOwn(w)'
      BY <2>1, <2>4, <2>5 DEF TargetIsOwn, On
    <2> QED
      BY <1>1, <1>a, <2>1, <2>3, <2>5, <2>6
  <1>6. ASSUME NEW w \in Workers, DropFound(w) PROVE SerialInv'
    <2>1. /\ up' = up /\ live' = live /\ store' = store /\ torn' = torn
          /\ pc'[w] = "enforce" /\ pc[w] = "read" /\ Cross(w, Found(w).target)
          /\ stmt' = [stmt EXCEPT ![w].target = Found(w).target]
          /\ stmt[w].op = "drop" /\ Stored(OrgOf[w], stmt[w].name)
          /\ \A v \in Workers : v # w => pc'[v] = pc[v]
      BY <1>0, <1>6 DEF DropFound, GetOfKind
    <2>2. stmt[w] \in Statements /\ stmt[w].name \in Names /\ OrgOf[w] \in Orgs
      BY <1>0, <2>1 DEF Statements
    <2>3. stmt'[w] = [stmt[w] EXCEPT !.target = Found(w).target]
      BY <1>0, <2>1
    <2>4. /\ stmt'[w].op = "drop" /\ stmt'[w].name = stmt[w].name
          /\ stmt'[w].target = Found(w).target
      BY <2>1, <2>2, <2>3 DEF Statements
    <2>5. \A v \in Workers : v # w => stmt'[v] = stmt[v]
      BY <1>0, <2>1
    <2>6. Found(w).target \in Targets
      BY <1>0, <2>1, <2>2 DEF Stored, Found, Policies
    <2>7. NameIsOwn(w)'
      BY <2>1, <2>4 DEF NameIsOwn, Found
    <2>8. stmt[w].name \in On(OrgOf[w], Found(w).target)
      BY <2>2 DEF On, Found
    <2>9. /\ crossed \subseteq crossed'
          /\ \A v \in Workers : Clash(v, w)' => Crossed(v)' /\ Crossed(w)'
          /\ Crossed(w)' \/ On(OrgOf[w], Found(w).target) \subseteq {stmt[w].name}
      BY <1>4, <2>1, <2>4, <2>5, <2>6
    <2>10. Crossed(w)' \/ TargetIsOwn(w)'
      BY <2>1, <2>4, <2>8, <2>9 DEF TargetIsOwn, On
    <2> QED
      BY <1>1, <1>a, <2>1, <2>5, <2>7, <2>9, <2>10
  \* The rule change: the target is no longer settled.
  <1>7. ASSUME NEW w \in Workers, Enforced(w) PROVE SerialInv'
    <2> DEFINE o == OrgOf[w]
               t == stmt[w].target
               b == IF stmt[w].op = "create" THEN stmt[w].body ELSE None
    <2>1. /\ up' = up /\ store' = store /\ stmt' = stmt /\ torn' = torn /\ crossed' = crossed
          /\ pc[w] = "enforce" /\ pc'[w] = "persist"
          /\ \A v \in Workers : v # w => pc'[v] = pc[v]
      BY <1>0, <1>7 DEF Enforced
    <2>2. live' = [live EXCEPT ![o][t] = b]
      BY <1>7 DEF Enforced, Upserted, Removed
    <2>3. o \in Orgs /\ t \in Targets
      BY <1>0, <2>1 DEF HasItsKind
    <2> HIDE DEF o, t, b
    <2>4. /\ live'[o][t] = b
          /\ \A p \in Orgs, s \in Targets : p # o \/ s # t => live'[p][s] = live[p][s]
      BY <1>0, <2>2, <2>3
    <2>5. \A v \in Workers : /\ Active(v)' <=> Active(v)
                             /\ Crossed(v)' <=> Crossed(v)
                             /\ NameIsOwn(v)' <=> NameIsOwn(v)
                             /\ TargetIsOwn(v)' <=> TargetIsOwn(v)
      BY <2>1 DEF Active, Crossed, NameIsOwn, Found, TargetIsOwn, On
    <2>6. \A u, v \in Workers : Clash(u, v)' <=> Clash(u, v)
      BY <2>1, <2>5 DEF Clash
    <2>7. ASSUME NEW v \in Workers, pc'[v] = "persist" PROVE Crossed(v)' \/ Halfway(v)'
      <3>1. CASE v = w
        BY <3>1, <2>1, <2>4 DEF Halfway, o, t, b
      <3>2. CASE v # w
        <4>1. pc[v] = "persist" /\ Active(v) /\ Active(w)
          BY <3>2, <2>1, <2>7 DEF Active
        <4>2. CASE OrgOf[v] = o /\ stmt[v].target = t
          <5>1. Clash(v, w)
            BY <3>2, <4>1, <4>2 DEF Clash, o, t
          <5> QED
            BY <5>1, <1>a, <2>5
        <4>3. CASE ~(OrgOf[v] = o /\ stmt[v].target = t)
          <5>1. OrgOf[v] \in Orgs /\ stmt[v].target \in Targets
            BY <4>1, <1>0 DEF HasItsKind
          <5>2. live'[OrgOf[v]][stmt[v].target] = live[OrgOf[v]][stmt[v].target]
            BY <4>3, <5>1, <2>4
          <5> QED
            BY <4>1, <5>2, <1>a, <2>1, <2>5 DEF Halfway
        <4> QED
          BY <4>2, <4>3
      <3> QED
        BY <3>1, <3>2
    <2>8. ASSUME NEW p \in Orgs, NEW s \in Targets, Settled(p, s)', up
          PROVE  live'[p][s] = Replayed(p, s)'
      <3>1. p # o \/ s # t
        BY <2>8, <2>1 DEF Settled, o, t
      <3>2. Settled(p, s)
        BY <2>8, <2>1 DEF Settled, On
      <3>3. Replayed(p, s)' = Replayed(p, s)
        BY <2>1 DEF Replayed, On
      <3> QED
        BY <3>1, <3>2, <3>3, <1>a, <2>4, <2>8
    <2>9. \A v \in Workers : pc'[v] # "idle" => up'
      BY <1>a, <2>1
    <2> QED
      BY <1>a, <2>1, <2>5, <2>6, <2>7, <2>8, <2>9 DEF SerialInv
  \* The meta store answers: the target is settled again, or torn.
  <1>8. ASSUME NEW w \in Workers, Persisted(w) \/ PersistFails(w) PROVE SerialInv'
    <2> DEFINE o == OrgOf[w]
               n == stmt[w].name
               t == stmt[w].target
    <2>1. /\ up' = up /\ live' = live /\ crossed' = crossed
          /\ pc[w] = "persist" /\ pc'[w] = "idle"
          /\ \A v \in Workers : v # w => pc'[v] = pc[v] /\ stmt'[v] = stmt[v]
          /\ PutPolicy(w) \/ DeletePolicy(w) \/ store' = store
      BY <1>0, <1>8 DEF Persisted, PersistFails, Returns, PutPolicy, DeletePolicy
    <2>2. /\ o \in Orgs /\ n \in Names /\ t \in Targets /\ stmt[w] \in Statements
          /\ stmt[w].op = "create" \/ stmt[w].op = "drop"
      BY <1>0, <2>1 DEF HasItsKind, Statements
    <2>3. /\ \A p \in Orgs, s \in Targets : p # o \/ s # t => torn'[p][s] = torn[p][s]
          /\ Persisted(w) \/ torn'[o][t] = stmt[w].op
      BY <1>0, <1>8, <2>2 DEF Persisted, PersistFails, Tear
    <2>4. \A p \in Orgs, s \in Targets :
             <<p, s>> \notin crossed /\ (p # o \/ s # t) =>
                On(p, s)' = On(p, s) /\ Replayed(p, s)' = Replayed(p, s)
      <3>1. CASE store' = store
        BY <3>1 DEF On, Replayed
      <3>2. CASE store' # store
        BY <2>1, <3>2, WriteIsLocal
      <3> QED
        BY <3>1, <3>2
    <2>5. \A v \in Workers : v # w => /\ Active(v)' <=> Active(v)
                                      /\ Crossed(v)' <=> Crossed(v)
                                      /\ Halfway(v)' <=> Halfway(v)
      BY <2>1 DEF Active, Crossed, Halfway
    <2>6. ~Active(w)' /\ Active(w)
      BY <2>1 DEF Active
    <2>7. ASSUME NEW u \in Workers, NEW v \in Workers, Clash(u, v)' PROVE Crossed(u)'
      <3>1. u # w /\ v # w
        BY <2>6, <2>7 DEF Clash
      <3>2. Clash(u, v)
        BY <2>1, <2>5, <2>7, <3>1 DEF Clash
      <3> QED
        BY <1>a, <2>5, <3>1, <3>2
    <2>8. ASSUME NEW v \in Workers, Active(v)' PROVE NameIsOwn(v)'
      <3>1. v # w /\ Active(v) /\ NameIsOwn(v) /\ stmt'[v] = stmt[v]
        BY <1>a, <2>1, <2>5, <2>6, <2>8
      <3>2. OrgOf[v] \in Orgs /\ stmt[v].name \in Names
        BY <1>0, <3>1 DEF Active, Statements
      <3>3. CASE store'[OrgOf[v]][stmt[v].name] = store[OrgOf[v]][stmt[v].name]
        BY <2>1, <3>1, <3>3 DEF NameIsOwn, Found
      <3>4. CASE store'[OrgOf[v]][stmt[v].name] # store[OrgOf[v]][stmt[v].name]
        <4>1. PICK q : /\ store' = [store EXCEPT ![o][n] = q]
                       /\ q.target = t \/ q.target = None
          BY <2>1, <3>4, WriteShape
        <4>2. OrgOf[v] = o /\ stmt[v].name = n /\ store'[o][n] = q
          BY <1>0, <2>2, <3>2, <3>4, <4>1
        <4>3. Clash(w, v)
          BY <2>6, <3>1, <4>2 DEF Clash
        <4>4. <<o, t>> \in crossed'
          BY <1>a, <2>1, <4>3 DEF Crossed
        <4> QED
          BY <1>0, <3>1, <4>1, <4>2, <4>4 DEF NameIsOwn, Found
      <3> QED
        BY <3>3, <3>4
    <2>9. ASSUME NEW v \in Workers, Active(v)' PROVE Crossed(v)' \/ TargetIsOwn(v)'
      <3>1. v # w /\ Active(v) /\ (Crossed(v) \/ TargetIsOwn(v)) /\ stmt'[v] = stmt[v]
        BY <1>a, <2>1, <2>5, <2>6, <2>9
      <3>2. OrgOf[v] \in Orgs /\ stmt[v].target \in Targets
        BY <1>0, <3>1 DEF Active, HasItsKind
      <3>3. CASE Crossed(v)
        BY <2>5, <3>1, <3>3
      <3>4. CASE ~Crossed(v)
        <4>1. ~Clash(v, w)
          BY <1>a, <3>4
        <4>2. OrgOf[v] # o \/ stmt[v].target # t
          BY <2>6, <3>1, <4>1 DEF Clash
        <4>3. On(OrgOf[v], stmt[v].target)' = On(OrgOf[v], stmt[v].target)
          BY <2>1, <2>4, <3>1, <3>2, <3>4, <4>2 DEF Crossed, On
        <4> QED
          BY <3>1, <3>4, <4>3 DEF TargetIsOwn, On
      <3> QED
        BY <3>3, <3>4
    <2>10. ASSUME NEW v \in Workers, pc'[v] = "persist" PROVE Crossed(v)' \/ Halfway(v)'
      BY <1>a, <2>1, <2>5, <2>10
    <2>11. ASSUME NEW p \in Orgs, NEW s \in Targets, Settled(p, s)', up
           PROVE  live'[p][s] = Replayed(p, s)'
      <3>1. CASE p # o \/ s # t
        <4>1. <<p, s>> \notin crossed
          BY <2>1, <2>11 DEF Settled
        <4>2. On(p, s)' = On(p, s) /\ Replayed(p, s)' = Replayed(p, s)
          BY <2>4, <3>1, <4>1
        <4>3. \A v \in Workers : OrgOf[v] = p /\ pc[v] = "persist" => stmt[v].target # s
          BY <2>1, <2>11, <3>1 DEF Settled
        <4>4. torn[p][s] = "no" \/ (torn[p][s] = "create" /\ On(p, s) # {})
          BY <2>3, <2>11, <3>1, <4>2 DEF Settled
        <4>5. Settled(p, s)
          BY <4>1, <4>3, <4>4 DEF Settled
        <4> QED
          BY <1>a, <2>1, <2>11, <4>2, <4>5
      <3>2. CASE p = o /\ s = t
        <4>1. ~Crossed(w) /\ TargetIsOwn(w) /\ Halfway(w)
          BY <1>a, <2>1, <2>6, <2>11, <3>2 DEF Settled, Crossed
        <4>2. CASE PutPolicy(w)
          <5>1. /\ store'[o][n] = [target |-> t, body |-> stmt[w].body] /\ stmt[w].op = "create"
                /\ \A m \in Names : m # n => store'[o][m] = store[o][m]
            BY <1>0, <2>2, <4>2 DEF PutPolicy
          <5>2. store'[o][n].target = t /\ store'[o][n].body = stmt[w].body
            BY <5>1
          <5>3. \A m \in Names : store[o][m].target # t
            BY <4>1, <5>1 DEF TargetIsOwn, On
          <5>4. On(p, s)' = {n}
            BY <2>2, <3>2, <5>1, <5>2, <5>3 DEF On
          <5>5. Max({n}) = n
            BY <2>2, LastName
          <5>6. Replayed(p, s)' = store'[o][n].body
            BY <3>2, <5>4, <5>5 DEF Replayed
          <5> QED
            BY <2>1, <3>2, <4>1, <5>1, <5>2, <5>6 DEF Halfway
        <4>3. CASE DeletePolicy(w)
          <5>1. /\ store'[o][n] = NoPolicy /\ stmt[w].op = "drop"
                /\ \A m \in Names : m # n => store'[o][m] = store[o][m]
            BY <1>0, <2>2, <4>3 DEF DeletePolicy
          <5>2. \A m \in Names : m # n => store[o][m].target # t
            BY <4>1, <5>1 DEF TargetIsOwn, On
          <5>3. On(p, s)' = {}
            BY <1>0, <2>2, <3>2, <5>1, <5>2 DEF On, NoPolicy
          <5> QED
            BY <2>1, <3>2, <4>1, <5>1, <5>3 DEF Halfway, Replayed
        <4>4. CASE ~PutPolicy(w) /\ ~DeletePolicy(w)
          <5>1. PersistFails(w) /\ store' = store /\ torn'[o][t] = stmt[w].op
            BY <1>8, <2>1, <2>3, <4>4 DEF Persisted
          <5>2. torn'[o][t] = "create" /\ On(p, s)' # {}
            BY <2>2, <2>11, <3>2, <5>1 DEF Settled
          <5>3. On(o, t) = {} /\ On(p, s)' = On(o, t)
            BY <2>2, <3>2, <4>1, <5>1, <5>2 DEF TargetIsOwn, On
          <5> QED
            BY <5>2, <5>3
        <4> QED
          BY <4>2, <4>3, <4>4
      <3> QED
        BY <3>1, <3>2
    <2>12. \A v \in Workers : pc'[v] # "idle" => up'
      BY <1>a, <2>1
    <2> QED
      BY <2>1, <2>7, <2>8, <2>9, <2>10, <2>11, <2>12 DEF SerialInv
  <1>9. CASE Crash
    <2>1. /\ up' = FALSE /\ \A v \in Workers : pc'[v] = "idle"
      BY <1>9 DEF Crash
    <2>2. \A v \in Workers : ~Active(v)'
      BY <2>1 DEF Active
    <2> QED
      BY <2>1, <2>2 DEF SerialInv, Clash
  <1>10. CASE Boot
    <2>1. /\ ~up /\ pc' = pc /\ store' = store
          /\ \A p \in Orgs, s \in Targets : live'[p][s] = Replayed(p, s)
      BY <1>10 DEF Boot
    <2>2. \A v \in Workers : pc'[v] = "idle" /\ ~Active(v)'
      BY <1>a, <2>1 DEF Active
    <2>3. \A p \in Orgs, s \in Targets : Replayed(p, s)' = Replayed(p, s)
      BY <2>1 DEF Replayed, On
    <2> QED
      BY <2>1, <2>2, <2>3 DEF SerialInv, Clash
  <1>11. CASE UNCHANGED vars
    <2>1. /\ up' = up /\ pc' = pc /\ stmt' = stmt /\ live' = live /\ store' = store
          /\ torn' = torn /\ crossed' = crossed
      BY <1>11 DEF vars
    <2>2. \A v \in Workers : /\ Active(v)' <=> Active(v)
                             /\ Crossed(v)' <=> Crossed(v)
                             /\ NameIsOwn(v)' <=> NameIsOwn(v)
                             /\ TargetIsOwn(v)' <=> TargetIsOwn(v)
                             /\ Halfway(v)' <=> Halfway(v)
      BY <2>1 DEF Active, Crossed, NameIsOwn, Found, TargetIsOwn, On, Halfway
    <2>3. \A u, v \in Workers : Clash(u, v)' <=> Clash(u, v)
      BY <2>1, <2>2 DEF Clash
    <2>4. \A o \in Orgs, t \in Targets : /\ Settled(o, t)' <=> Settled(o, t)
                                         /\ Replayed(o, t)' = Replayed(o, t)
      BY <2>1 DEF Settled, Replayed, On
    <2> QED
      BY <1>a, <2>1, <2>2, <2>3, <2>4 DEF SerialInv
  <1>12. ASSUME NEW w \in Workers, Rejected(w) PROVE Ends(w) /\ pc[w] \in {"read", "enforce"}
    BY <1>12 DEF Rejected
  <1> QED
    BY <1>2, <1>3, <1>5, <1>6, <1>7, <1>8, <1>9, <1>10, <1>11, <1>12
    DEF Next, Step, ReadFails, NameTaken, DropAbsent

LEMMA SerialInit == Init => TypeOK /\ SerialInv
  <1> SUFFICES ASSUME Init PROVE TypeOK /\ SerialInv
    OBVIOUS
  <1>1. TypeOK
    BY DEF Init, TypeOK
  <1>2. \A v \in Workers : pc[v] = "idle" /\ ~Active(v)
    BY DEF Init, Active
  <1>3. \A o \in Orgs, t \in Targets : On(o, t) = {}
    BY PolicyConstants DEF Init, On, NoPolicy
  <1>4. \A o \in Orgs, t \in Targets : live[o][t] = Replayed(o, t)
    BY <1>3 DEF Init, Replayed
  <1> QED
    BY <1>1, <1>2, <1>4 DEF SerialInv, Clash

\* Whenever no statement of an organisation is under way, what is in force for
\* it is what a restart would put in force, on every target but those whose
\* last write failed and those that statements of the organisation crossed on
\* since the boot: for any number of organisations, sessions, names and
\* targets, through crashes, refused rules, failed reads and failed writes.
THEOREM LiveAlwaysMatchesStore == Spec => []LiveMatchesStore
  <1>1. SerialInv => LiveMatchesStore
    <2> SUFFICES ASSUME SerialInv, up, NEW o \in Orgs, NEW t \in Targets,
                        Quiet(o), torn[o][t] = "no", <<o, t>> \notin crossed
                 PROVE  live[o][t] = Replayed(o, t)
      BY DEF LiveMatchesStore
    <2>1. Settled(o, t)
      BY DEF Settled, Quiet
    <2> QED
      BY <2>1 DEF SerialInv
  <1> QED
    BY <1>1, SerialInit, TypeInductive, SerialInductive, PTL DEF Spec

\* A CREATE whose put_policy fails only ever enforces more than is stored:
\* whenever no statement of an organisation is under way, the last name stored
\* with a target has its policy in force, on every target but those where a
\* DROP failed to persist and those that have been crossed since the boot.
THEOREM StoredAlwaysEnforced == Spec => []StoredIsEnforced
  <1>1. TypeOK /\ SerialInv => StoredIsEnforced
    <2> SUFFICES ASSUME TypeOK, SerialInv, up, NEW o \in Orgs, NEW n \in Names,
                        Quiet(o), Stored(o, n), n = Max(On(o, store[o][n].target)),
                        torn[o][store[o][n].target] # "drop",
                        <<o, store[o][n].target>> \notin crossed
                 PROVE  live[o][store[o][n].target] = store[o][n].body
      BY DEF StoredIsEnforced
    <2> DEFINE t == store[o][n].target
    <2>1. t \in Targets
      BY DEF TypeOK, Stored, Policies
    <2>2. n \in On(o, t)
      BY DEF On
    <2>3. torn[o][t] = "no" \/ torn[o][t] = "create"
      BY <2>1 DEF TypeOK
    <2>4. Settled(o, t)
      BY <2>2, <2>3 DEF Settled, Quiet
    <2>5. live[o][t] = Replayed(o, t)
      BY <2>1, <2>4 DEF SerialInv
    <2> QED
      BY <2>2, <2>5 DEF Replayed
  <1> QED
    BY <1>1, SerialInit, TypeInductive, SerialInductive, PTL DEF Spec
=============================================================================
