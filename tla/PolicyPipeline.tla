--------------------------- MODULE PolicyPipeline ---------------------------
(***************************************************************************)
(* One query on its way through the policies of a session: analyzer, then  *)
(* up to three optimizer passes, each of which starts with the policy rule *)
(* (dataglot-server, create_session) and reads the rule store's current    *)
(* enforcer and the current grants, while other sessions create and drop   *)
(* masks and row filters and republish grants.                             *)
(*                                                                         *)
(* A session may have asked for another default catalog than the server's. *)
(***************************************************************************)
EXTENDS Lineage, RuleStore

CONSTANTS
    Configs,       \* start-up configurations, see Init, and the queries asked under each
    GrantSets,     \* what GRANT and REVOKE may publish
    MaxPasses      \* the optimizer's own limit

VARIABLES
    boot,       \* the configuration the server started with
    access,     \* denials, whitelists and grants in force
    phase,      \* idle, analyze, policy, others, done or refused
    plan,       \* the query's plan
    session,    \* the query's session: identity and default catalog
    passes,     \* optimizer passes begun
    first       \* history: what was in force when the first pass ran, and the query

vars == <<boot, store, access, phase, plan, session, passes, first>>
query == <<phase, plan, session, passes, first>>

Init ==
    /\ \E c \in Configs :
          /\ boot = c
          /\ store = [masks |-> PropagateMasks(c.masks, BuildLineageGraph(c.products)),
                      filters |-> c.filters, governance |-> c.governance]
          /\ StoreInit
          /\ access = [denials |-> c.denials, whitelists |-> c.whitelists, grants |-> c.grants]
    /\ phase = "idle" /\ plan = None /\ session = None /\ passes = 0 /\ first = None

-----------------------------------------------------------------------------
(* The grants; the store's operations are in RuleStore.                    *)

\* Bound: what changes after the query was planned does not concern it.
Planning == phase \notin {"done", "refused"}

PublishGrants(g) ==
    /\ access.grants # None
    /\ access' = [access EXCEPT !.grants = g]
    /\ UNCHANGED <<boot, store, query>>

-----------------------------------------------------------------------------
(* The query.                                                              *)

StartQuery ==
    /\ phase = "idle"
    /\ plan' \in boot.queries
    /\ session' \in Sessions
    /\ phase' = "analyze"
    /\ UNCHANGED <<boot, store, access, passes, first>>

Refuse == phase' = "refused" /\ plan' = None /\ UNCHANGED passes

\* The whitelist is the first analyzer rule.
Analyze ==
    /\ phase = "analyze"
    /\ IF WhitelistRefuses(plan, access.whitelists, session.id)
          THEN Refuse
          ELSE /\ plan' = WhitelistRewrite(plan, access.whitelists, session.id)
               /\ phase' = "policy" /\ UNCHANGED passes
    /\ UNCHANGED <<boot, store, access, session, first>>

\* The policy rule: denials, grants, then the store's current layers.
PolicyPass ==
    /\ phase = "policy"
    /\ IF \/ DenyRefuses(plan, access.denials, session.id)
          \/ GrantRefuses(plan, access.grants, Defaults, session.id)
          THEN Refuse
          ELSE /\ plan' = StoreRewrite(plan, store, Defaults, session.id)
               /\ phase' = "others" /\ passes' = passes + 1
    /\ first' = IF first = None THEN [store |-> store, access |-> access, plan |-> plan] ELSE first
    /\ UNCHANGED <<boot, store, access, session>>

\* A projection of all the columns of its input, as they are.
IdentityProjection(p) ==
    /\ p.op = "project"
    /\ \A e \in p.exprs : e.bare /\ e.refs = {e.out}
    /\ {e.out : e \in p.exprs} = Schema(p.ins[1])

RECURSIVE Collapse(_)
Collapse(p) ==
    IF IdentityProjection(p) THEN Collapse(p.ins[1])
    ELSE [p EXCEPT !.ins = [i \in DOMAIN p.ins |-> Collapse(p.ins[i])]]

\* The other optimizer rules; the plan may have stopped changing.
OtherRules ==
    /\ phase = "others"
    /\ plan' \in {plan, Collapse(plan)}
    /\ \/ passes < MaxPasses /\ phase' = "policy"
       \/ phase' = "done"
    /\ UNCHANGED <<boot, store, access, session, passes, first>>

Next ==
    \/ Planning /\ StoreNext /\ UNCHANGED <<boot, access, query>>
    \/ Planning /\ \E g \in GrantSets : PublishGrants(g)
    \/ StartQuery \/ Analyze \/ PolicyPass \/ OtherRules

Spec == Init /\ [][Next]_vars

-----------------------------------------------------------------------------
(* What a plan reads: reference definitions, on the tables themselves.     *)

\* The table a reference of the session names.
TableOf(rel) == Upgrade(rel, <<session.catalog, Defaults[2]>>)

\* An inlined view: the name of a product over the product's plan.
IsView(p) ==
    /\ p.op = "alias" /\ p.ins[1].op # "scan"
    /\ \E q \in Range(boot.products) : q.dataset = TableOf(p.rel)

\* The columns of tables and views that an output field of a plan shows, where
\* outer is what the fields of the enclosing query show; without the
\* aggregates, those whose values it has.
RECURSIVE Shows(_, _, _)
Shows(p, outer, aggregates) ==
    LET in(i) == Shows(p.ins[i], outer, aggregates)
        AllOf(m) == UNION {m[f] : f \in DOMAIN m}
        Named(m, col) == UNION {m[g] : g \in {g \in DOMAIN m : g.col = col}}
        View(f) == IF IsView(p) THEN {Field(TableOf(p.rel), f.col)} ELSE {}
        Of(e) == UNION ({in(1)[r] : r \in e.refs \cap Schema(p.ins[1])}
                          \cup {outer[r] : r \in e.outer \cap DOMAIN outer}
                          \cup {AllOf(Shows(s, in(1) @@ outer, aggregates)) : s \in Range(e.sub)})
        exprs(f) == {e \in p.exprs : e.out = f /\ (p.op = "project" \/ e.bare \/ aggregates)}
    IN  CASE p.op = "scan" -> [f \in Schema(p) |-> {Field(TableOf(p.rel), f.col)}]
          [] p.op = "alias" -> [f \in Schema(p) |-> Named(in(1), f.col) \cup View(f)]
          [] p.op \in {"project", "aggregate"} -> [f \in Schema(p) |-> UNION {Of(e) : e \in exprs(f)}]
          [] p.op = "join" -> in(1) @@ in(2)
          [] p.op = "union" -> [f \in Schema(p) |-> Named(in(1), f.col) \cup Named(in(2), f.col)]
          [] OTHER -> in(1)
Shown == LET all == Shows(plan, <<>>, TRUE) IN UNION {all[f] : f \in DOMAIN all}

\* The scans of a plan, each with the filters between it and the first node
\* above it that is neither a filter nor its alias.
RECURSIVE Guarded(_, _)
Guarded(p, above) ==
    CASE p.op = "scan" -> {[rel |-> p.rel, by |-> above]}
      [] p.op \in {"filter", "alias"} ->
            UNION {Guarded(i, above \cup p.rules) : i \in Below(p)}
               \cup UNION {Guarded(s, {}) : s \in Subqueries(p)}
      [] OTHER -> UNION {Guarded(i, {}) : i \in Below(p) \cup Subqueries(p)}

\* The references through which a plan reads tables, and views.
ReadRefs(p) == {s.rel : s \in Guarded(p, {})}
ViewRefs(p) == {n.rel : n \in {n \in AllNodes(p) : IsView(n)}}

\* The same alias stands for two tables in one plan.
AliasClash(p) ==
    \E n, m \in {n \in MainNodes(p) : n.op = "alias" /\ n.ins[1].op = "scan"} :
        n.rel = m.rel /\ n.ins[1].rel # m.ins[1].rel

\* The nodes that reach p's output under their own names: no projection or
\* aggregate, where a policy would find them, is in between.
RECURSIVE Open(_)
Open(p) == IF p.op \in {"project", "aggregate"} THEN {} ELSE {p} \cup UNION {Open(q) : q \in Below(p)}

\* The tables and views that an alias over something else than a scan renames
\* before a policy has seen their columns.
Renamed(p) ==
    LET over == {n.ins[1] : n \in {n \in AllNodes(p) : n.op = "alias" /\ n.ins[1].op # "scan"}}
    IN  {TableOf(q.rel) : q \in {q \in UNION {Open(i) : i \in over} : q.op = "scan" \/ IsView(q)}}

\* A subquery has columns of the enclosing query in its output.
Correlated(p) == p.op \in {"project", "aggregate"} /\ \E e \in p.exprs : e.outer # {}

OwnDefaults == session.catalog = Defaults[1]

\* The columns whose values a product's column has, directly or by way of
\* other products.
RECURSIVE Origins(_)
Origins(f) ==
    LET direct == UNION {UNION {Shows(q.plan, <<>>, FALSE)[g] : g \in {g \in Schema(q.plan) : g.col = f.col}} :
                            q \in {q \in Range(boot.products) : q.dataset = f.rel}}
    IN  direct \cup UNION {Origins(g) : g \in direct}

\* A product whose lineage can be followed to the end: it is planned at
\* start-up from tables written in full, has no subquery in an expression,
\* and does not put an aggregate and a plain column into one.
Traceable(q) ==
    LET ops == {n.op : n \in AllNodes(q.plan)}
    IN  /\ q.plans
        /\ \A rel \in ReadRefs(q.plan) : Len(rel) = 3
        /\ \A n \in AllNodes(q.plan) : Subqueries(n) = {}
        /\ "aggregate" \notin ops \/ ops \cap {"join", "union"} = {}

-----------------------------------------------------------------------------
(* Properties.                                                             *)

\* The enforcers can tell whose columns the query reads: no alias of it, or of
\* one of its subqueries, stands for two tables, and no subquery hands on a
\* column of the query around it, which is not masked or hidden there.
NamesClear == \A n \in AllNodes(first.plan) : ~AliasClash(n) /\ ~Correlated(n)

\* The columns a finished query shows of tables and views whose names reach a
\* projection or aggregate: an alias over a join, or over a view, is not
\* resolved ("only SubqueryAlias whose immediate input is a TableScan").
Resolvable == {f \in Shown : f.rel \notin Renamed(first.plan)}

\* A finished query shows no column that a mask in force at its first pass
\* covers for its session, however the query nests the table and whatever the
\* rules became meanwhile.  The limits: one alias for two tables, columns of
\* the enclosing query in a subquery's output (NamesClear), an alias over
\* something else than a table (Resolvable), and a session whose default
\* catalog is not the server's.
NamedMasksHold ==
    phase = "done" /\ OwnDefaults /\ NamesClear =>
        \A f \in Resolvable : \A p \in DOMAIN first.store.masks :
            LET m == first.store.masks[p]
            IN  ~(m.column = f.col /\ Names(m.table, f.rel) /\ InForce(m, session.id))

\* The configuration has a mask of its own for this column, if only for some
\* group: "a configured mask always wins over a propagated one".
MaskedByHand(f) == \E m \in Range(boot.masks) : Field(DatasetOf(m.table), m.column) = f

\* A finished query shows no column of a derived product, materialised or a
\* view, that has, through any chain of products, the values of a column that a
\* configured mask in force covers: one rule on the source is enough (the
\* limits of NamedMasksHold, products that Traceable excludes, and a product's
\* column that has a configured mask itself, which then alone decides).
DerivedMasksHold ==
    phase = "done" /\ OwnDefaults /\ NamesClear /\ (\A q \in Range(boot.products) : Traceable(q)) =>
        \A f \in Resolvable : \A m \in Range(boot.masks), g \in Origins(f) :
            ~(m.column = g.col /\ Names(m.table, g.rel) /\ InForce(m, session.id)) \/ MaskedByHand(f)

\* A finished query shows no value of a masked column, neither of the table
\* that a mask names nor of a product made from it.
MasksHold == NamedMasksHold /\ DerivedMasksHold

\* Every scan of a finished query, in subqueries too, is directly under the
\* filters through which its session had to see the table at the first pass:
\* the most specific ones of its own tenant, else of the operator, provided
\* no filter is written with more parts than the scan.
FiltersHold ==
    phase = "done" =>
        \A s \in Guarded(plan, {}) :
            (\A f \in Range(first.store.filters) :
                Names(f.table, TableOf(s.rel)) /\ InForce(f, session.id) => Len(f.table) <= Len(s.rel))
            => Due(first.store.filters, TableOf(s.rel), session.id) \subseteq s.by

\* A finished query reads only tables that its session was granted (in grant
\* mode) and not denied when its first pass ran, subqueries included.
AccessHolds ==
    phase = "done" =>
        \A rel \in ReadRefs(first.plan) :
            /\ \A d \in first.access.denials :
                  d.column = None /\ DenialApplies(d, session.id) /\ Len(d.table) <= Len(rel)
                      => ~Names(d.table, TableOf(rel))
            /\ OwnDefaults /\ first.access.grants # None /\ ~session.id.super
                  => \E g \in first.access.grants : g.object = TableOf(rel) /\ GrantApplies(g, session.id)

\* A finished query shows no column that the whitelists in force on its table
\* leave out, under the first three limits of NamedMasksHold, if the whitelists
\* are written with no more parts than the query's references.
WhitelistsHold ==
    phase = "done" /\ NamesClear =>
        \A f \in Resolvable :
            LET ws == Range(first.access.whitelists)
                lists == {w \in ws : Names(w.table, f.rel) /\ InForce(w, session.id)}
                read == {rel \in ReadRefs(first.plan) \cup ViewRefs(first.plan) : TableOf(rel) = f.rel}
            IN  lists # {} /\ (\A w \in lists, rel \in read : Len(w.table) <= Len(rel))
                    => \E w \in lists : f.col \in w.columns

\* A finished query reads only what its session may: tables it was granted and
\* not denied, columns its whitelists list.
ReadsAllowed == AccessHolds /\ WhitelistsHold

\* "The expansion is recomputed whenever the enforcer is rebuilt (which is
\* whenever masks change), so enforcement stays a function of current state":
\* as DerivedMasksHold, for the masks in force when the first pass ran.
PropagationCurrent ==
    phase = "done" /\ OwnDefaults /\ NamesClear /\ (\A q \in Range(boot.products) : Traceable(q)) =>
        \A f \in Resolvable : \A m \in Range(first.store.masks), g \in Origins(f) :
            ~(m.column = g.col /\ Names(m.table, g.rel) /\ InForce(m, session.id))

\* "Reports the mask / row-filter / deny decisions": a column that the policy
\* rule masks is reported by the explain of the same enforcer.
ExplainReportsMasks ==
    phase = "others" /\ passes = 1 =>
        (first.store.masks # <<>> /\ StoreRewrite(first.plan, [first.store EXCEPT !.filters = <<>>],
                                                  Defaults, session.id) # first.plan
            => MutableExplain(first.plan, first.store, Defaults, session.id) # {})
=============================================================================
