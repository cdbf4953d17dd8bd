---------------------------- MODULE PlanRewrite -----------------------------
(***************************************************************************)
(* What the policy enforcers do to a logical plan (crates/dataglot-policy),*)
(* layer by layer: the whitelist at the analyzer stage, then access        *)
(* denials, grants, tags, column masks and row filters at every optimizer  *)
(* pass.                                                                   *)
(*                                                                         *)
(* A plan node is [op, rel, exprs, ins, rules]: rel is the reference of a  *)
(* scan or the name of an alias, ins the inputs, rules the row filters a   *)
(* policy put there.  An expression is [out, refs, outer, bare, sub]: the  *)
(* field it produces, the columns it reads, the columns of the enclosing   *)
(* query it reads (no enforcer looks at those), whether it is a plain      *)
(* column, and the plan of an embedded subquery, if any.                   *)
(*                                                                         *)
(* A view is inlined when the query is planned: an alias, under the name   *)
(* the query writes, over the view's own plan.                             *)
(***************************************************************************)
EXTENDS RuleResolution, SequencesExt

Field(rel, col) == [rel |-> rel, col |-> col]
Node(op, rel, exprs, ins) == [op |-> op, rel |-> rel, exprs |-> exprs, ins |-> ins, rules |-> {}]

\* Subqueries of a node's expressions, and the nodes directly below it.
Subqueries(plan) == UNION {Range(e.sub) : e \in plan.exprs}
Below(plan) == Range(plan.ins)

RECURSIVE AllNodes(_)
\* try_for_each_table_scan, collect_plan_columns: inputs and subqueries.
AllNodes(plan) == {plan} \cup UNION {AllNodes(p) : p \in Below(plan) \cup Subqueries(plan)}

RECURSIVE MainNodes(_)
\* The nodes of the plan itself, without its subqueries.
MainNodes(plan) == {plan} \cup UNION {MainNodes(p) : p \in Below(plan)}

\* Mutant: scans in embedded subqueries are not visited.
Scans_MainTree(plan) == {n.rel : n \in {n \in MainNodes(plan) : n.op = "scan"}}
Scans(plan) == {n.rel : n \in {n \in AllNodes(plan) : n.op = "scan"}}
PlanColumns(plan) == UNION {UNION {e.refs : e \in n.exprs} : n \in AllNodes(plan)}

RECURSIVE AliasTargets(_)
\* collect_alias_targets: the table behind an alias; of two aliases with one
\* name the one visited last stays.  Subqueries have their own.
AliasTargets(plan) ==
    FoldLeft(LAMBDA acc, p : AliasTargets(p) @@ acc,
             IF plan.op = "alias" /\ plan.ins[1].op = "scan"
                THEN plan.rel :> plan.ins[1].rel ELSE <<>>,
             plan.ins)

\* The candidates of a column's relation, then those of the table behind it.
WithAlias(rel, aliases, Cands(_)) ==
    Cands(rel) \o (IF rel \in DOMAIN aliases THEN Cands(aliases[rel]) ELSE <<>>)

-----------------------------------------------------------------------------
(* The whitelist: columns that are not listed are pruned from a projection *)
(* and refused everywhere else.                                            *)

Hidden(ref, aliases, whitelists, id) ==
    LET visible == VisibleColumns(whitelists, WithAlias(ref.rel, aliases, MatchCandidates), id)
    IN  ref.rel # <<>> /\ visible # None /\ ref.col \notin visible

Touches(e, aliases, whitelists, id) == \E r \in e.refs : Hidden(r, aliases, whitelists, id)

\* enforce_node: the expressions that stay, and whether the node is refused.
KeptExprs(node, aliases, whitelists, id) ==
    IF node.op # "project" THEN node.exprs
    ELSE {e \in node.exprs : ~(e.bare /\ Touches(e, aliases, whitelists, id))}
NodeRefused(node, aliases, whitelists, id) ==
    LET kept == KeptExprs(node, aliases, whitelists, id)
    IN  \/ \E e \in kept : Touches(e, aliases, whitelists, id)
        \/ node.op = "project" /\ kept = {}

RECURSIVE WhitelistNode(_, _, _, _)
WhitelistRewrite(plan, whitelists, id) ==
    WhitelistNode(plan, AliasTargets(plan), whitelists, id)
WhitelistNode(plan, aliases, whitelists, id) ==
    [plan EXCEPT
        !.exprs = {[e EXCEPT !.sub = [i \in DOMAIN e.sub |-> WhitelistRewrite(e.sub[i], whitelists, id)]] :
                      e \in KeptExprs(plan, aliases, whitelists, id)},
        !.ins = [i \in DOMAIN plan.ins |-> WhitelistNode(plan.ins[i], aliases, whitelists, id)]]

RECURSIVE WhitelistRefuses(_, _, _)
WhitelistRefuses(plan, whitelists, id) ==
    \E n \in MainNodes(plan) :
        \/ NodeRefused(n, AliasTargets(plan), whitelists, id)
        \/ \E s \in Subqueries(n) : WhitelistRefuses(s, whitelists, id)

-----------------------------------------------------------------------------
(* Denials and grants refuse a query and never change it.                  *)

DenyRefuses(plan, denials, id) ==
    \E d \in denials :
        /\ DenialApplies(d, id)
        /\ \/ d.column = None /\ \E rel \in Scans(plan) : TableMatches(d, rel)
           \/ \E r \in PlanColumns(plan) : r.col = d.column /\ r.rel # <<>> /\ TableMatches(d, r.rel)

\* grants = None: open mode.
GrantRefuses(plan, grants, defaults, id) ==
    /\ grants # None /\ ~id.super
    /\ \E rel \in Scans(plan) : MissingPrivilege(grants, rel, defaults, id)

-----------------------------------------------------------------------------
(* Column masks.                                                           *)

Masked(ref, aliases, masks, defaults, id) ==
    /\ ref.rel # <<>>
    /\ LET Cands(rel) == CandidateRefs(rel, defaults)
       IN  LookupMask(masks, WithAlias(ref.rel, aliases, Cands), ref.col, id) # 0

\* mask_expr: the mask takes the column's place, the field keeps its name.
MaskExpr(e, aliases, masks, defaults, id) ==
    LET gone == {r \in e.refs : Masked(r, aliases, masks, defaults, id)}
    IN  [e EXCEPT !.refs = @ \ gone, !.bare = @ /\ gone = {}]

\* The nodes whose own expressions see the column itself.
Unmasked == {"filter", "join", "scan", "sort"}

RECURSIVE MaskNode(_, _, _, _, _)
MaskRewrite(plan, masks, defaults, id) ==
    MaskNode(plan, AliasTargets(plan), masks, defaults, id)
MaskNode(plan, aliases, masks, defaults, id) ==
    LET Own(e) == IF plan.op \in Unmasked THEN e ELSE MaskExpr(e, aliases, masks, defaults, id)
    IN  [plan EXCEPT
            !.exprs = {[Own(e) EXCEPT !.sub =
                           [i \in DOMAIN e.sub |-> MaskRewrite(e.sub[i], masks, defaults, id)]] :
                          e \in plan.exprs},
            !.ins = [i \in DOMAIN plan.ins |-> MaskNode(plan.ins[i], aliases, masks, defaults, id)]]

-----------------------------------------------------------------------------
(* Row filters: a filter goes above every scan, or above its alias.        *)

\* The filters a scan needs, or a scan under an alias.
NodeFilters(plan, filters, id) ==
    LET Preds(rel) == {filters[p] : p \in ResolvePredicate(filters, rel, id)}
    IN  CASE plan.op = "scan" -> Preds(plan.rel)
          [] plan.op = "alias" /\ plan.ins[1].op = "scan" -> Preds(plan.ins[1].rel)
          [] OTHER -> {}

\* transform_down: what has been wrapped is not descended into again.
RECURSIVE FilterRewrite(_, _, _)
FilterRewrite(plan, filters, id) ==
    LET subs == [plan EXCEPT !.exprs =
                    {[e EXCEPT !.sub = [i \in DOMAIN e.sub |-> FilterRewrite(e.sub[i], filters, id)]] :
                        e \in plan.exprs}]
        preds == NodeFilters(plan, filters, id)
    IN  IF preds # {} THEN [Node("filter", <<>>, {}, <<subs>>) EXCEPT !.rules = preds]
        ELSE [subs EXCEPT !.ins = [i \in DOMAIN plan.ins |-> FilterRewrite(plan.ins[i], filters, id)]]

-----------------------------------------------------------------------------
(* The layers together.                                                    *)

\* The composed layers of the rule store: tags, masks, filters.  The tag
\* layer's masks and filters are built for the identity, without defaults.
StoreRewrite(plan, store, defaults, id) ==
    LET tagged == FilterRewrite(MaskRewrite(plan, SetToSeq(TagMasks(store.governance, id)), None, id),
                                SetToSeq(TagFilters(store.governance, id)), id)
    IN  FilterRewrite(MaskRewrite(tagged, store.masks, defaults, id), store.filters, id)

\* Every session's enforcer holds the store's layers behind a MutableEnforcer,
\* which forwards rewrite and inherits the explain that reports nothing.
MutableExplain(plan, store, defaults, id) == {}
=============================================================================
