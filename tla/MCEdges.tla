------------------------------ MODULE MCEdges ------------------------------
(***************************************************************************)
(* Where the server meets the outside, for TLC: the lease object of the    *)
(* schedulers (SchedulerLease), connections that arrive                    *)
(* (ConnectionAdmission), HTTP sources (HttpScan), their tokens            *)
(* (TokenCache), the SQL that is sent to a source (FederatedPlan) and the  *)
(* stores (MetaStores).                                                    *)
(*                                                                         *)
(* The six share no state, so an invariant of one cannot depend on the     *)
(* steps of another, and TLC explores their disjoint sum: moving is the    *)
(* component a behaviour belongs to.  Four have their variables in Edges,  *)
(* HttpScan has its own, and r1, r2, ... hold those of FederatedPlan.      *)
(***************************************************************************)
EXTENDS HttpScan, Edges

CONSTANT Invalid

VARIABLES r1, r2, r3, r4, r5, r6, r7, r8, r9, r10, r11

rest == <<r1, r2, r3, r4, r5, r6, r7, r8, r9, r10, r11>>
all == <<moving, vars, leaseVars, admissionVars, storeVars, tokenVars, rest>>

\* Two schedulers; the clock of the second is ahead by one unit.
Clocks == <<0, 1>>

\* Three attempts from one or two addresses as one or two users: one of each
\* kind up to renaming; everything is limited or nothing is.
Split == {<<1, 1, 1>>, <<1, 1, 2>>}
Attempts == {[ip |-> i, user |-> u] : i \in Split, u \in Split \cup {<<1, 2, 1>>}}
AllOrNothing == {{"rate", "global", "ip", "identity"}, {}}

\* One catalog binding and one other object.
OneBinding == {<<"default", "c">>}
OneObject == {<<"o", "x">>}

-----------------------------------------------------------------------------
(* HTTP scans: tables with nulls, duplicates and values too wide for the   *)
(* column (two bits); one or two filters of every form.                    *)

Cmp(rel, lit, flipped) == <<[k |-> "cmp", op |-> rel, lit |-> lit, flipped |-> flipped]>>
Test(k) == <<[k |-> k]>>
Filters ==
    {Cmp("eq", 1, FALSE), Cmp("lt", 1, TRUE), Cmp("ne", 0, FALSE), Cmp("eq", Null, TRUE), Test("notnull"),
     Cmp("ge", 0, FALSE) \o <<[k |-> "not", args |-> <<1>>]>>, <<[k |-> "opaque", lit |-> 0]>>,
     Test("isnull") \o Cmp("le", 0, TRUE) \o <<[k |-> "or", args |-> <<1, 2>>]>>,
     Cmp("eq", Null, FALSE) \o Cmp("gt", 0, FALSE) \o <<[k |-> "and", args |-> <<1, 2>>]>>}
SmallScans ==
    {s \in [kind : {"rest", "odata"}, table : {<<>>, <<1, Null, 0>>, <<0, 1, 1, -2>>, <<1, 0, 5, 1>>},
            filters : {<<>>} \cup {<<f>> : f \in Filters} \cup {<<f, g>> : f \in Filters, g \in Filters},
            limit : {Absent, 0, 2}, page : {1, 2}, mapped : BOOLEAN, honours : BOOLEAN,
            nulls : {"false", "unknown"}, required : BOOLEAN] :
        /\ s.kind = "odata" => ~s.mapped /\ ~s.honours
        /\ s.kind = "rest" => s.nulls = "false" /\ (s.mapped \/ ~s.honours)}

-----------------------------------------------------------------------------
(* Federated plans: joins of two or three tables, of every type, over legs *)
(* with a row filter at every place the optimizer leaves one.              *)

Scan(t) == [k |-> "scan", table |-> t]
Filter(t, p) == [k |-> "filter", table |-> t, input |-> p]
Project(p) == [k |-> "project", input |-> p]
Alias(p) == [k |-> "alias", input |-> p]
Dedup(t, p) == [k |-> "dedup", table |-> t, input |-> p]
Join(type, l, r, on) == [k |-> "join", type |-> type, left |-> l, right |-> r, on |-> on]
Legs(t) ==
    LET filtered == Filter(t, Scan(t))
    IN  {Scan(t), filtered, Project(filtered), Alias(Project(filtered)), Dedup(t, filtered), Alias(Dedup(t, Scan(t)))}
JoinTypes == {"Inner", "Left", "Right", "Full", "LeftSemi", "RightSemi", "LeftAnti", "RightAnti", "LeftMark", "RightMark"}
\* A table whose columns the join has.
Of(join) == IF join.type \in {"RightSemi", "RightAnti", "RightMark"} THEN "B" ELSE "A"
Joins == {Join(type, l, r, <<"A", "B">>) : type \in JoinTypes, l \in Legs("A"), r \in Legs("B")}
Queries ==
    Joins \cup {Dedup(Of(j), j) : j \in Joins} \cup {Filter(Of(j), j) : j \in Joins}
          \cup {Join(type, j, r, <<Of(j), "C">>) : type \in JoinTypes, j \in Joins,
                                                  r \in {Filter("C", Scan("C")), Dedup("C", Scan("C"))}}
Row(id, key, ok) == [id |-> id, key |-> key, ok |-> ok]
Contents ==
    [A |-> {Row(1, 1, TRUE), Row(2, 1, FALSE), Row(3, 2, FALSE), Row(4, 3, TRUE)},
     B |-> {Row(1, 1, TRUE), Row(2, 1, TRUE), Row(3, 2, FALSE), Row(4, 4, FALSE)},
     C |-> {Row(1, 1, TRUE), Row(2, 1, FALSE), Row(3, 4, TRUE)}]
F == INSTANCE FederatedPlan WITH
    Data <- {Contents}, Unparsers <- {{}, {"dedup"}}, Contexts <- {"local", "ballista"},
    plan <- r1, data <- r2, unparser <- r3, context <- r4, above <- r5, phase <- r6, rules <- r7,
    wrapped <- r8, kept <- r9, sent <- r10, answer <- r11

-----------------------------------------------------------------------------
ASSUME EdgeConstants ==
    /\ T!TokenAssumption /\ L!TimingAssumption /\ L!SkewAssumption /\ L!BudgetAssumption
    /\ A!AdmissionBounds /\ M!StoreConstants /\ ScansAreScans

\* A component that does not move has no state.
NoLease ==
    /\ time = None /\ lease = None /\ mode = None /\ req = None /\ term = None /\ wake = None
    /\ faults = None /\ exits = None /\ stolenAt = None /\ vacantSince = None
NoAdmission ==
    /\ clock = None /\ bucket = None /\ free = None /\ perIp = None /\ perUser = None /\ gauge = None
    /\ sessions = None /\ named = None /\ pc = None /\ ip = None /\ user = None /\ enabled = None
    /\ stamp = None /\ passed = None /\ rewound = None
NoStore ==
    /\ backend = None /\ disk = None /\ mem = None /\ tmp = None /\ lock = None /\ at = None
    /\ op = None /\ seen = None /\ view = None /\ done = None /\ want = None /\ doubt = None
NoToken == now = None /\ cached = None /\ call = None /\ handed = None
NoScan ==
    /\ scan = None /\ phase = None /\ request = None /\ cursor = None /\ pages = None /\ out = None
    /\ truncated = None
NoPlan ==
    /\ r1 = None /\ r2 = None /\ r3 = None /\ r4 = None /\ r5 = None /\ r6 = None
    /\ r7 = None /\ r8 = None /\ r9 = None /\ r10 = None /\ r11 = None

EdgesInit ==
    \/ moving = "token" /\ T!Init /\ NoLease /\ NoAdmission /\ NoStore /\ NoScan /\ NoPlan
    \/ moving = "lease" /\ L!Init /\ NoToken /\ NoAdmission /\ NoStore /\ NoScan /\ NoPlan
    \/ moving = "admission" /\ A!Init /\ NoToken /\ NoLease /\ NoStore /\ NoScan /\ NoPlan
    \/ moving = "store" /\ M!Init /\ NoToken /\ NoLease /\ NoAdmission /\ NoScan /\ NoPlan
    \/ moving = "http" /\ Init /\ NoToken /\ NoLease /\ NoAdmission /\ NoStore /\ NoPlan
    \/ moving = "federated" /\ F!Init /\ NoToken /\ NoLease /\ NoAdmission /\ NoStore /\ NoScan

EdgesNext ==
    /\ UNCHANGED moving
    /\ \/ moving = "token" /\ T!Next /\ UNCHANGED <<leaseVars, admissionVars, storeVars, vars, rest>>
       \/ moving = "lease" /\ L!Next /\ UNCHANGED <<tokenVars, admissionVars, storeVars, vars, rest>>
       \/ moving = "admission" /\ A!Next /\ UNCHANGED <<tokenVars, leaseVars, storeVars, vars, rest>>
       \/ moving = "store" /\ M!Next /\ UNCHANGED <<tokenVars, leaseVars, admissionVars, vars, rest>>
       \/ moving = "http" /\ Next /\ UNCHANGED <<tokenVars, leaseVars, admissionVars, storeVars, rest>>
       \/ moving = "federated" /\ F!Next /\ UNCHANGED <<tokenVars, leaseVars, admissionVars, storeVars, vars>>

EdgesSpec == EdgesInit /\ [][EdgesNext]_all

-----------------------------------------------------------------------------
(* The property of FederatedPlan; the others are in Edges and HttpScan.    *)

\* FederatedPlan: the source's answer is what the plan asks for.
FederationSound == moving = "federated" => F!FederationSound
=============================================================================
