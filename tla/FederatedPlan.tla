---------------------------- MODULE FederatedPlan ----------------------------
(***************************************************************************)
(* How a query whose tables live in one SQL source reaches it as SQL       *)
(* (dataglot-core's federation guards, dataglot-federation's              *)
(* rls_isolation.rs): the optimizer rules that refuse plans which the      *)
(* unparser would corrupt, the isolation of row filters, and the physical  *)
(* rules that keep a filter above the federated node.                      *)
(*                                                                         *)
(* A plan is [k, ..] with k among scan, filter, project, alias, dedup and  *)
(* join; filter, project, alias and dedup have an input.  A row filter is  *)
(* on one table.  A row of a plan gives, for each table, the row of that   *)
(* table or Null; rows of a table are [id, key, ok], and dedup keeps the   *)
(* key.  A mark join comes with the disjunction above it, ok OR EXISTS.    *)
(***************************************************************************)
EXTENDS Naturals, Sequences, SequencesExt

CONSTANTS
    Null, Invalid,
    Queries,     \* the federated plans that may be asked for
    Data,        \* the contents the tables may have: table -> set of rows
    Unparsers,   \* which bugs the unparser has: subsets of {"dedup"}
    Contexts     \* "local", "ballista"

VARIABLES
    plan,        \* as the optimizer left it
    data, unparser, context,
    above,       \* a filter on this table stands above the federated node, or Null
    phase,       \* guards, isolate, physical, done or rejected
    rules,       \* physical rules still to run
    wrapped,     \* the federated node is inside a FederationFilterGuard
    kept,        \* the filter above is still there
    sent,        \* what is unparsed
    answer

vars == <<plan, data, unparser, context, above, phase, rules, wrapped, kept, sent, answer>>
given == <<plan, data, unparser, context, above>>

Tables == DOMAIN data
Preserving == {"LeftSemi", "LeftAnti", "LeftMark", "RightSemi", "RightAnti", "RightMark"}
Marks == {"LeftMark", "RightMark"}
RightFirst == {"RightSemi", "RightAnti", "RightMark"}

\* The physical rules that matter: WrapFederationNodes is put before the
\* default list, with FilterPushdown; the distributed factory keeps neither.
LocalRules == <<"wrap", "pushdown">>
ClusterRules == <<>>

Init ==
    /\ plan \in Queries /\ data \in Data /\ unparser \in Unparsers /\ context \in Contexts
    /\ above \in Tables \cup {Null}
    /\ phase = "guards" /\ rules = (IF context = "local" THEN LocalRules ELSE ClusterRules) /\ wrapped = FALSE
    /\ kept = (above # Null) /\ sent = plan /\ answer = Invalid

-----------------------------------------------------------------------------
(* What a plan means, and what the SQL that is made of it means.           *)

Ok(row, t) == row[t] # Null /\ row[t].ok
Same(l, r, on) == l[on[1]] # Null /\ r[on[2]] # Null /\ l[on[1]].key = r[on[2]].key
Merge(l, r) == [t \in Tables |-> IF l[t] # Null THEN l[t] ELSE r[t]]
Deduped(row) == [t \in Tables |-> IF row[t] = Null THEN Null ELSE [id |-> 0, key |-> row[t].key, ok |-> FALSE]]

\* The rows of a join: M says which pairs match.
Joined(type, L, R, on, M(_, _)) ==
    LET both == {Merge(l, r) : <<l, r>> \in {p \in L \X R : M(p[1], p[2])}}
        lone == {l \in L : \A r \in R : ~M(l, r)}
        loneR == {r \in R : \A l \in L : ~M(l, r)}
    IN  CASE type = "Inner" -> both
          [] type = "Left" -> both \cup lone
          [] type = "Right" -> both \cup loneR
          [] type = "Full" -> both \cup lone \cup loneR
          [] type = "LeftSemi" -> L \ lone
          [] type = "RightSemi" -> R \ loneR
          [] type = "LeftAnti" -> lone
          [] type = "RightAnti" -> loneR
          [] type = "LeftMark" -> (L \ lone) \cup {l \in L : Ok(l, on[1])}
          [] type = "RightMark" -> (R \ loneR) \cup {r \in R : Ok(r, on[2])}

ScanRows(t) == {[u \in Tables |-> IF u = t THEN row ELSE Null] : row \in data[t]}

RECURSIVE Rows(_)
\* The rows the query asks for.
Rows(p) ==
    CASE p.k = "scan" -> ScanRows(p.table)
      [] p.k = "filter" -> {row \in Rows(p.input) : Ok(row, p.table)}
      [] p.k \in {"project", "alias"} -> Rows(p.input)
      [] p.k = "dedup" -> {Deduped(row) : row \in Rows(p.input)}
      [] p.k = "join" -> Joined(p.type, Rows(p.left), Rows(p.right), p.on, LAMBDA l, r : Same(l, r, p.on))

\* leg_exposes_filter: a Filter at the top, or under projections.
RECURSIVE LegExposesFilter(_)
LegExposesFilter(p) ==
    CASE p.k = "filter" -> TRUE
      [] p.k = "project" -> LegExposesFilter(p.input)
      [] OTHER -> FALSE

RECURSIVE Exposed(_), Bare(_)
\* The tables whose exposed filters the unparser takes off a join's leg, and
\* the leg without them.
Exposed(p) ==
    CASE p.k = "filter" -> {p.table} \cup Exposed(p.input)
      [] p.k = "project" -> Exposed(p.input)
      [] OTHER -> {}
Bare(p) == IF p.k \in {"filter", "project"} THEN Bare(p.input) ELSE p

RECURSIVE Sql(_, _)
\* The rows of the SQL that the unparser makes of a plan: the filters exposed
\* on the legs go into ON, those of the probe leg of [NOT] EXISTS are lost,
\* and a DISTINCT in a derived table is lost by DataFusion 53.
Sql(p, derived) ==
    LET probe == IF p.type \in RightFirst THEN Exposed(p.left) ELSE Exposed(p.right)
        folded == (Exposed(p.left) \cup Exposed(p.right)) \ (IF p.type \in Preserving THEN probe ELSE {})
        matches(l, r) == Same(l, r, p.on) /\ \A t \in folded : Ok(Merge(l, r), t)
        inner(right) == IF p.type \in Preserving THEN (right # (p.type \in RightFirst)) \/ derived ELSE TRUE
    IN  CASE p.k = "scan" -> ScanRows(p.table)
          [] p.k = "filter" -> {row \in Sql(p.input, derived) : Ok(row, p.table)}
          [] p.k = "project" -> Sql(p.input, derived)
          [] p.k = "alias" -> Sql(p.input, TRUE)
          [] p.k = "dedup" -> {IF derived /\ "dedup" \in unparser THEN [Deduped(row) EXCEPT ![p.table].id = row[p.table].id]
                                                                 ELSE Deduped(row) : row \in Sql(p.input, TRUE)}
          [] p.k = "join" -> Joined(p.type, Sql(Bare(p.left), inner(FALSE)), Sql(Bare(p.right), inner(TRUE)),
                                    p.on, matches)

-----------------------------------------------------------------------------
(* The guards: FederatedDedupUnparseGuard, then FederatedMarkJoinGuard.    *)

RECURSIVE PlanLosesDedup(_, _)
PlanLosesDedup(p, derived) ==
    CASE p.k = "dedup" -> derived \/ PlanLosesDedup(p.input, TRUE)
      [] p.k = "alias" -> PlanLosesDedup(p.input, TRUE)
      [] p.k = "scan" -> FALSE
      [] p.k = "join" ->
            CASE p.type \in RightFirst -> PlanLosesDedup(p.right, derived)
              [] p.type \in Preserving \ RightFirst -> PlanLosesDedup(p.left, derived)
              [] OTHER -> PlanLosesDedup(p.left, TRUE) \/ PlanLosesDedup(p.right, TRUE)
      [] OTHER -> PlanLosesDedup(p.input, derived)

RECURSIVE PlanContainsMarkJoin(_)
PlanContainsMarkJoin(p) ==
    CASE p.k = "scan" -> FALSE
      [] p.k = "join" -> p.type \in Marks \/ PlanContainsMarkJoin(p.left) \/ PlanContainsMarkJoin(p.right)
      [] OTHER -> PlanContainsMarkJoin(p.input)

Guards ==
    /\ phase = "guards"
    /\ phase' = IF PlanLosesDedup(plan, FALSE) \/ PlanContainsMarkJoin(plan) THEN "rejected" ELSE "isolate"
    /\ UNCHANGED <<given, rules, wrapped, kept, sent, answer>>

-----------------------------------------------------------------------------
(* isolate_outer_join_filters, on the federated plan just before unparse.  *)

RECURSIVE Relations(_)
\* The relations that qualify the columns of a plan.
Relations(p) ==
    CASE p.k = "scan" -> {p.table}
      [] p.k = "join" -> CASE p.type \in RightFirst -> Relations(p.right)
                           [] p.type \in Preserving \ RightFirst -> Relations(p.left)
                           [] OTHER -> Relations(p.left) \cup Relations(p.right)
      [] OTHER -> Relations(p.input)

\* barrier_for_join_leg: the leg as a derived table, if it exposes a filter
\* and one relation qualifies all of its columns.
BarrierForJoinLeg(p) ==
    IF LegExposesFilter(p) /\ \E t \in Tables : Relations(p) = {t}
      THEN [k |-> "alias", input |-> [k |-> "project", input |-> p]]
      ELSE p

\* Mutant: only the preserved leg of a semi or an anti join is isolated.
Fixed_Preserved(type) ==
    CASE type \in {"Left", "LeftMark", "LeftSemi", "LeftAnti"} -> {"left"}
      [] type \in {"Right", "RightMark", "RightSemi", "RightAnti"} -> {"right"}
      [] type = "Full" -> {"left", "right"}
      [] OTHER -> {}
\* The legs that isolate_in_plan fixes.
Fixed(type) ==
    CASE type \in {"Left", "LeftMark"} -> {"left"}
      [] type \in {"Right", "RightMark"} -> {"right"}
      [] type = "Inner" -> {}
      [] OTHER -> {"left", "right"}

RECURSIVE IsolateInPlan(_)
IsolateInPlan(p) ==
    CASE p.k = "scan" -> p
      [] p.k = "join" ->
            LET leg(side) == IF side \in Fixed(p.type) THEN BarrierForJoinLeg(p[side]) ELSE p[side]
            IN  [p EXCEPT !.left = IsolateInPlan(leg("left")), !.right = IsolateInPlan(leg("right"))]
      [] OTHER -> [p EXCEPT !.input = IsolateInPlan(@)]

Isolate ==
    /\ phase = "isolate"
    /\ sent' = IsolateInPlan(plan)
    /\ phase' = "physical"
    /\ UNCHANGED <<given, rules, wrapped, kept, answer>>

-----------------------------------------------------------------------------
(* Physical planning and execution.                                        *)

\* WrapFederationNodes; FilterPushdown removes the filter above a federated
\* node, which claims it and ignores it, unless the guard declines for it.
Optimize ==
    /\ phase = "physical" /\ rules # <<>>
    /\ wrapped' = (wrapped \/ Head(rules) = "wrap")
    /\ kept' = (kept /\ (Head(rules) = "pushdown" => wrapped))
    /\ rules' = Tail(rules)
    /\ UNCHANGED <<given, phase, sent, answer>>

\* The source runs the SQL; the filter above runs on what comes back.
Execute ==
    LET rows == Sql(sent, FALSE)
    IN  /\ phase = "physical" /\ rules = <<>>
        /\ answer' = IF PlanContainsMarkJoin(sent) THEN Invalid
                     ELSE {row \in rows : kept => Ok(row, above)}
        /\ phase' = "done"
        /\ UNCHANGED <<given, rules, wrapped, kept, sent>>

Next == Guards \/ Isolate \/ Optimize \/ Execute

Spec == Init /\ [][Next]_vars

-----------------------------------------------------------------------------
(* Properties.                                                             *)

\* A federated query that is not refused returns exactly the rows the plan
\* asks for, duplicates included: no row filter vanishes into an ON or an
\* EXISTS, no DISTINCT is lost, and no filter above the federated node is
\* taken for pushed, whatever the joins and wherever the filters sit.
FederationSound ==
    phase = "done" => answer = {row \in Rows(plan) : above # Null => Ok(row, above)}
=============================================================================
