------------------------- MODULE MCPolicyPipeline ---------------------------
(* An instance of PolicyPipeline for TLC: two tables, t and u, of one       *)
(* schema, and t again in a second catalog.                                 *)
EXTENDS PolicyPipeline

T == <<"c", "s", "t">>
U == <<"c", "s", "u">>
RefsT == {<<"t">>, <<"s", "t">>, T}

Scan(rel) == Node("scan", rel, {}, <<>>)
As(name, p) == Node("alias", <<name>>, {}, <<p>>)
Col(rel, c) == [out |-> Field(rel, c), refs |-> {Field(rel, c)}, outer |-> {}, bare |-> TRUE, sub |-> <<>>]
Fun(rel, c) == [Col(rel, c) EXCEPT !.out = Field(<<>>, "f"), !.bare = FALSE]
Outer(rel, c) == [Fun(rel, c) EXCEPT !.refs = {}, !.outer = {Field(rel, c)}]
SubExpr(p) == [Outer(<<>>, "a") EXCEPT !.out = Field(<<>>, "q"), !.outer = {}, !.sub = <<p>>]
Select(es, p) == Node("project", <<>>, es, <<p>>)
All(rel, p) == Select({Col(rel, c) : c \in Columns}, p)
One(rel, p) == Select({Col(rel, "a")}, p)
Group(rel, p) == Select({Col(rel, "a")}, Node("aggregate", <<>>, {Col(rel, "a")}, <<p>>))
Max_(rel, p) == Select({[Col(<<>>, "f") EXCEPT !.bare = TRUE]}, Node("aggregate", <<>>, {Fun(rel, "a")}, <<p>>))
Where(e, p) == Node("filter", <<>>, {e}, <<p>>)
Join(l, r) == Node("join", <<>>, {}, <<l, r>>)

\* One table, written in each way and aliased or not.
Simple == {All(r, Scan(r)) : r \in RefsT} \cup {All(<<"x">>, As("x", Scan(r))) : r \in {<<"t">>, T}}
Computed == {Select({Fun(<<"t">>, "a")}, Scan(<<"t">>)), Group(<<"x">>, As("x", Scan(T))),
             Max_(<<"s", "t">>, Scan(<<"s", "t">>))}
\* Subqueries in FROM, WHERE and SELECT, joins, a filter and a sort.
Nested == {One(<<"y">>, As("y", One(<<"x">>, As("x", Scan(<<"t">>))))),
           One(<<"u">>, Where(SubExpr(One(<<"t">>, Scan(<<"t">>))), Scan(<<"u">>))),
           Select({SubExpr(One(<<"s", "t">>, Scan(<<"s", "t">>)))}, Scan(<<"u">>)),
           Select({Col(<<"x">>, "a"), Col(<<"y">>, "b")}, Join(As("x", Scan(<<"t">>)), As("y", Scan(<<"u">>)))),
           Select({Col(<<"x">>, "a"), Col(<<"z">>, "b")},
                  Join(As("x", Scan(<<"t">>)), As("z", All(<<"x">>, As("x", Scan(<<"u">>)))))),
           One(<<"t">>, Where(Fun(<<"t">>, "b"), Node("sort", <<>>, {Col(<<"t">>, "a")}, <<Scan(<<"t">>)>>)))}
\* An alias over a join; a subquery that compares with, or hands on, a column
\* of the query around it.
Outward == {One(<<"y">>, As("y", Join(Scan(<<"t">>), As("z", Select({Fun(<<"u">>, "b")}, Scan(<<"u">>)))))),
            Select({SubExpr(Select({Outer(<<"t">>, "a")}, Scan(<<"u">>)))}, Scan(<<"t">>)),
            One(<<"x">>, Where(SubExpr(One(<<"u">>, Where(Outer(<<"x">>, "a"), Scan(<<"u">>)))),
                               As("x", Scan(<<"t">>))))}
V == <<"c", "s", "v">>
W == <<"c", "s", "w">>
\* Derived products, materialised as tables of their own; and a live one, a
\* view over t that the planner inlines.
Derived == {All(<<"v">>, Scan(<<"v">>)), One(<<"x">>, As("x", Scan(W)))}
PlanV == All(<<"x">>, As("x", Scan(T)))
View(rel) == Node("alias", rel, {}, <<PlanV>>)
Live == {All(<<"v">>, View(<<"v">>)), One(<<"x">>, As("x", View(V)))}
Queries == Simple \cup Computed \cup Nested \cup Outward

Id(org, gs) == [Anonymous EXCEPT !.org = org, !.groups = gs, !.user = "ann", !.roles = {"r"}]
In(c, id) == [id |-> id, catalog |-> c]
MCSessions == {In("c", id) : id \in {Id("o1", {}), Id("o1", {"g"}), Id("o2", {"g"}), Anonymous}}
                \cup {In("d", Id("o1", {"g"})), In("c", [Id("o2", {}) EXCEPT !.super = TRUE])}

Mask(rel, org, gs) == [table |-> rel, column |-> "a", org |-> org, groups |-> gs, body |-> "null"]
RowFilter(rel, org, gs) == [table |-> rel, org |-> org, groups |-> gs, body |-> "mine"]
MCTenantMasks == {Mask(<<"s", "t">>, "o1", None)}
MCTenantFilters == {RowFilter(<<"t">>, "o1", None)}

Usage(who, org) == [grantee |-> who, org |-> org, object |-> <<"c">>]
SelectOn(who, org, table) == [grantee |-> who, org |-> org, object |-> table]
MCGrantSets == {{Usage("ann", "o1"), SelectOn("r", "o1", T), SelectOn("ann", "o1", U)},
                {Usage("r", "o1"), SelectOn("ann", "o1", U)}}

Plain == [masks |-> <<>>, filters |-> <<>>, governance |-> [policies |-> {}, columns |-> {}],
          products |-> <<>>, queries |-> Queries, denials |-> {}, whitelists |-> <<>>, grants |-> None]
Tagged == [policies |-> {[id |-> "p1", tag |-> "pii", group |-> "g", kind |-> "mask"],
                         [id |-> "p2", tag |-> "pii", group |-> "g", kind |-> "filter"]},
           columns |-> {[table |-> <<"t">>, column |-> "a", tags |-> {"pii"}]}]
\* v has t's columns, w is made from v or from t.
Union(l, r) == Node("union", <<>>, {}, <<l, r>>)
Product(dataset, p) == [dataset |-> dataset, plan |-> p, plans |-> TRUE]
ProductV == Product(V, PlanV)
MCProducts == {<<ProductV, Product(W, p)>> : p \in {Group(V, Scan(V)), All(V, Where(Fun(V, "b"), Scan(V))),
                                                     Max_(V, Scan(V)), Union(One(V, Scan(V)), One(T, Scan(T)))}}
                \cup {<<[ProductV EXCEPT !.plans = FALSE]>>,
                      <<Product(V, All(<<"t">>, Scan(<<"t">>))), Product(W, Select({SubExpr(One(V, Scan(V)))}, Scan(V)))>>}
MCConfigs ==
    {[Plain EXCEPT !.products = ps, !.queries = Derived, !.masks = ms] :
        ps \in MCProducts, ms \in {<<Mask(T, None, {"g"})>>, <<Mask(<<"t">>, None, None)>>,
                                   <<Mask(T, None, None), Mask(V, None, {"g"})>>}} \cup
    {[Plain EXCEPT !.products = <<ProductV>>, !.queries = Live, !.masks = ms] :
        ms \in {<<Mask(T, None, {"g"})>>, <<Mask(<<"s", "v">>, None, None)>>,
                <<Mask(T, None, None), Mask(V, None, {"g"})>>}} \cup
    {[Plain EXCEPT !.products = <<ProductV>>, !.queries = Live,
                   !.whitelists = <<[table |-> <<"v">>, columns |-> {"b"}, org |-> None, groups |-> None]>>]} \cup
    {[Plain EXCEPT !.masks = ms] : ms \in {<<>>,
        <<Mask(<<"t">>, None, {"g"})>>, <<Mask(T, None, None)>>,
        <<Mask(<<"t">>, None, None), Mask(T, None, {"g"})>>}}
    \cup {[Plain EXCEPT !.filters = fs] : fs \in {
        <<RowFilter(<<"s", "t">>, None, None)>>,
        <<RowFilter(<<"t">>, None, None), RowFilter(T, None, {"g"})>>}}
    \cup {[Plain EXCEPT !.governance = Tagged, !.masks = <<Mask(<<"s", "t">>, None, None)>>,
                             !.queries = Simple]}
    \cup {[Plain EXCEPT !.denials = {[table |-> <<"t">>, column |-> c, groups |-> {"g"}]}] : c \in {None, "a"}}
    \cup {[Plain EXCEPT !.whitelists = ws] : ws \in {
        <<[table |-> <<"t">>, columns |-> {"b"}, org |-> "o1", groups |-> None]>>,
        <<[table |-> <<"t">>, columns |-> {"b"}, org |-> None, groups |-> None],
          [table |-> <<"s", "t">>, columns |-> {"a"}, org |-> None, groups |-> {"g"}]>>}}
    \cup {[Plain EXCEPT !.grants = {}]}

\* Every way in which the queries write a table.
MCReferences == UNION {ReadRefs(q) : q \in Queries \cup Derived \cup Live}
MCDefaults == <<"c", "s">>
=============================================================================
