----------------------------- MODULE RuleStore ------------------------------
(***************************************************************************)
(* The masks and row filters of a running server (dataglot-policy,         *)
(* store.rs): two lists, in the order the rules were registered, that      *)
(* CREATE and DROP change and every lookup of RuleResolution goes through. *)
(* A change is applied to the lists and the enforcers are built from them; *)
(* if that fails the lists are put back.                                   *)
(***************************************************************************)
EXTENDS RuleResolution, Retain, Functions

CONSTANTS
    Sessions,      \* who asks: an identity and the connection's default catalog
    References,    \* how queries may write a table
    Defaults,      \* the server's default catalog and schema
    TenantMasks,   \* what CREATE MASK may create
    TenantFilters, \* what CREATE ROW FILTER may create
    MaxRules       \* bound: masks and filters in the store

ASSUME ReferencesAreSequences ==
    /\ \A rel \in References : rel \in Seq(Range(rel))
    /\ Defaults = None \/ Defaults \in Seq(Range(Defaults))

VARIABLE store     \* the rule store: masks, filters, governance

\* Two lists; the server does not start with rules that cannot be built.
StoreInit ==
    /\ store \in [masks : Seq(Range(store.masks)), filters : Seq(Range(store.filters)),
                  governance : {store.governance}]
    /\ MasksBuild(store.masks) /\ FiltersBuild(store.filters)

\* RuleStore::apply: rules that cannot be built leave the store as it is.
Publish(s) == store' = IF MasksBuild(s.masks) /\ FiltersBuild(s.filters) THEN s ELSE store

\* The first of the rules at the places p is replaced in place, unless it does
\* the same already; with none there is one rule more.
UpsertAt(rules, rule, p) ==
    LET first == CHOOSE i \in p : \A j \in p : i <= j
    IN  IF p = {} THEN Append(rules, rule)
        ELSE IF rules[first].body = rule.body THEN rules
        ELSE [rules EXCEPT ![first] = rule]

\* The rules of a mask's column, or of a filter's table, and its organisation.
SameMask(m) ==
    {p \in DOMAIN store.masks : /\ store.masks[p].table = m.table
                                /\ store.masks[p].column = m.column
                                /\ store.masks[p].org = m.org}
SameFilter(f) ==
    {p \in DOMAIN store.filters : store.filters[p].table = f.table /\ store.filters[p].org = f.org}

Room == Len(store.masks) + Len(store.filters) < MaxRules

CreateMask(m) == Room /\ Publish([store EXCEPT !.masks = UpsertAt(@, m, SameMask(m))])
DropMask(m) == Publish([store EXCEPT !.masks = Retain(@, DOMAIN @ \ SameMask(m))])
CreateFilter(f) == Room /\ Publish([store EXCEPT !.filters = UpsertAt(@, f, SameFilter(f))])
DropFilter(f) == Publish([store EXCEPT !.filters = Retain(@, DOMAIN @ \ SameFilter(f))])

StoreNext ==
    \/ \E m \in TenantMasks : CreateMask(m) \/ DropMask(m)
    \/ \E f \in TenantFilters : CreateFilter(f) \/ DropFilter(f)

StoreSpec == StoreInit /\ [][StoreNext]_store

-----------------------------------------------------------------------------
(* Properties.                                                             *)

\* The rules that a step adds to the store or takes from it.
Changed ==
    LET Diff(a, b) == (a \ b) \cup (b \ a)
    IN  Diff(Range(store.masks), Range(store'.masks)) \cup Diff(Range(store.filters), Range(store'.filters))

\* The mask that decides about a column, and the filters about a table.
Decides(masks, rel, c, id) ==
    LET p == LookupMask(masks, CandidateRefs(rel, Defaults), c, id)
    IN  IF p = 0 THEN None ELSE masks[p]
Predicates(filters, rel, id) == {filters[p] : p \in ResolvePredicate(filters, rel, id)}

\* A rule's table, written with any of its parts, is this table.
Names(table, full) == \E i \in 1..3 : table = SubSeq(full, i, 3)

\* The filters through which an identity has to see a table: the most specific
\* ones of its own tenant, else of the operator.
Due(filters, full, id) ==
    LET forTable == {f \in Range(filters) : Names(f.table, full) /\ InForce(f, id)}
        own == {f \in forTable : f.org # None}
        tier == IF own # {} THEN own ELSE forTable
    IN  {f \in tier : \A g \in tier : Len(g.table) <= Len(f.table)}

\* What a tenant creates or drops changes nothing for the sessions of others:
\* the same mask decides about every column, the same filters about every
\* table, whatever the order of the rules has become.
TenantIsolation ==
    [][\A id \in {s.id : s \in Sessions}, rel \in References :
          (\A x \in Changed : x.org \notin {None, id.org}) =>
              /\ \A c \in Columns : Decides(store.masks, rel, c, id) = Decides(store'.masks, rel, c, id)
              /\ Predicates(store.filters, rel, id) = Predicates(store'.filters, rel, id)]_store
=============================================================================
