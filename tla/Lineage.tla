------------------------------ MODULE Lineage -------------------------------
(***************************************************************************)
(* Column lineage (dataglot-core, lineage.rs) and the masks that follow it *)
(* (dataglot-server, propagation.rs): at start-up the query of every       *)
(* derived product is planned, the columns it is made from become edges of *)
(* a graph, and a configured mask is extended to every column that         *)
(* descends from the one it covers.                                        *)
(*                                                                         *)
(* Plans are those of PlanRewrite.  In an aggregate node the plain columns *)
(* are the grouping keys and the other expressions the aggregates.         *)
(***************************************************************************)
EXTENDS PlanRewrite

\* TransformationType, by rank: the stronger of two is the more derived one.
Identity == 0
Transformation == 1
Aggregation == 2
Combine(a, b) == IF a >= b THEN a ELSE b

\* The fields of a plan's output.
RECURSIVE Schema(_)
Schema(p) ==
    CASE p.op = "scan" -> {Field(p.rel, c) : c \in Columns}
      [] p.op = "alias" -> {Field(p.rel, f.col) : f \in Schema(p.ins[1])}
      [] p.op \in {"project", "aggregate"} -> {e.out : e \in p.exprs}
      [] p.op = "join" -> Schema(p.ins[1]) \cup Schema(p.ins[2])
      [] OTHER -> Schema(p.ins[1])

\* dataset_of: whatever the session's defaults are, these complete a name.
DatasetOf(rel) == Upgrade(rel, <<"default", "public">>)

-----------------------------------------------------------------------------
(* The lineage of a plan: for every output field, how each source field    *)
(* contributes to it.                                                      *)

\* merge_contribution, for two or more sets of contributions.
Merge(contribs) ==
    [f \in UNION {DOMAIN c : c \in contribs} |->
        LET ranks == {c[f] : c \in {c \in contribs : f \in DOMAIN c}}
        IN  CHOOSE r \in ranks : \A q \in ranks : Combine(r, q) = r]

\* The input field a reference means: by its qualified name, else by its name
\* alone if only one field has it.
Resolve(ref, fields) ==
    LET named == {f \in fields : f.col = ref.col}
    IN  IF ref \in fields THEN {ref} ELSE IF Cardinality(named) = 1 THEN named ELSE {}

\* expr_contributions.  The references inside a subquery are not among those
\* of the expression.
ExprContributions(e, in, extra) ==
    Merge({[f \in DOMAIN in[g] |-> IF e.bare THEN in[g][f] ELSE Combine(in[g][f], extra)] :
              g \in UNION {Resolve(r, DOMAIN in) : r \in e.refs}})

RECURSIVE LineageMap(_)
LineageMap(p) ==
    LET in(i) == LineageMap(p.ins[i])
        \* A column of a union gathers the column of every branch.
        named(m, col) == {m[g] : g \in {g \in DOMAIN m : g.col = col}}
        exprs(f) == {e \in p.exprs : e.out = f}
    IN  CASE p.op = "scan" -> [f \in Schema(p) |-> Field(DatasetOf(p.rel), f.col) :> Identity]
          [] p.op = "alias" -> [f \in Schema(p) |-> Merge(named(in(1), f.col))]
          [] p.op = "project" ->
                [f \in Schema(p) |-> Merge({ExprContributions(e, in(1), Transformation) : e \in exprs(f)})]
          [] p.op = "aggregate" ->
                [f \in Schema(p) |-> Merge({ExprContributions(e, in(1), Aggregation) : e \in exprs(f)})]
          [] p.op = "join" -> in(1) @@ in(2)
          [] p.op = "union" -> [f \in Schema(p) |-> Merge(named(in(1), f.col) \cup named(in(2), f.col))]
          [] OTHER -> in(1)

-----------------------------------------------------------------------------
(* The graph: edges are [from, to, transform].                             *)

\* add_product: an edge that exists already keeps the stronger transformation.
AddProduct(graph, dataset, map) ==
    LET derived == UNION {{[from |-> s, to |-> Field(dataset, f.col), transform |-> map[f][s]] :
                              s \in DOMAIN map[f]} : f \in DOMAIN map}
        all == graph \cup derived
    IN  {e \in all : \A d \in all :
            d.from = e.from /\ d.to = e.to => Combine(e.transform, d.transform) = e.transform}

\* A product is [dataset, plan, plans]: plans is FALSE when its query cannot
\* be planned at start-up; the product is then skipped.
BuildLineageGraph(products) ==
    FoldLeft(LAMBDA g, p : IF p.plans THEN AddProduct(g, p.dataset, LineageMap(p.plan)) ELSE g,
             {}, products)

\* Mutant: only what is made directly from the column descends from it.
Descendants_Direct(graph, root) ==
    {e.to : e \in {e \in graph : e.from = root /\ e.transform # Aggregation}}
\* descendants(root, false): an aggregate ends the chain.
RECURSIVE Reach(_, _)
Reach(graph, seen) ==
    LET next == {e.to : e \in {e \in graph : e.from \in seen /\ e.transform # Aggregation}} \ seen
    IN  IF next = {} THEN seen ELSE Reach(graph, seen \cup next)
Descendants(graph, root) == Reach(graph, {root}) \ {root}

\* A mask that leaves out the catalog or schema matches a source in any.
MaskMatchesSource(mask, source) == \E i \in 1..3 : mask.table = SubSeq(source.rel, i, 3)

\* The configured masks, then one for every descendant that has none, for
\* everybody, whatever the groups of the mask it comes from.
PropagateMasks(configured, graph) ==
    LET Covers(masks, f) == \E p \in DOMAIN masks : Field(DatasetOf(masks[p].table), masks[p].column) = f
        From(mask) == {src \in {e.from : e \in graph} : src.col = mask.column /\ MaskMatchesSource(mask, src)}
        Extend(masks, mask) ==
            LET due == {f \in UNION {Descendants(graph, src) : src \in From(mask)} : ~Covers(masks, f)}
            IN  masks \o SetToSeq({[mask EXCEPT !.table = f.rel, !.column = f.col, !.groups = None] : f \in due})
    IN  FoldLeft(Extend, configured, configured)
=============================================================================
