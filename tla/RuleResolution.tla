--------------------------- MODULE RuleResolution ---------------------------
(***************************************************************************)
(* Which policy rule decides (crates/dataglot-policy): the lookups that    *)
(* the enforcers make for one table reference or one column, for one       *)
(* session identity.  Nothing here walks a plan: see PlanRewrite.          *)
(*                                                                         *)
(* A table reference is the sequence of the parts it is written with:      *)
(* <<catalog, schema, table>>, <<schema, table>> or <<table>>.  A rule's   *)
(* org None means operator-wide, its groups None all subjects; the rules   *)
(* of one kind are a sequence, in the order they were registered, and a    *)
(* rule's body is what it does to the column or the rows.                  *)
(***************************************************************************)
EXTENDS Integers, Sequences, FiniteSets

CONSTANTS
    None,      \* Rust's Option::None
    Columns    \* the columns of every table

\* Identity: what a session is known by when its query is planned.
\*   [org, groups : org_groups, user, roles, super : is_superuser]
Anonymous == [org |-> None, groups |-> {}, user |-> None, roles |-> {}, super |-> FALSE]

-----------------------------------------------------------------------------
(* What all the enforcers share.                                           *)

\* The keys under which a rule may be registered, most- to least-qualified.
MatchCandidates(rel) == [i \in 1..Len(rel) |-> SubSeq(rel, i, Len(rel))]

OrgRuleApplies(org, id) == org = None \/ org = id.org

SubjectMatches(groups, id) == groups = None \/ groups \cap id.groups # {}

\* A rule registered for org and groups is in force for the identity.
InForce(rule, id) == OrgRuleApplies(rule.org, id) /\ SubjectMatches(rule.groups, id)

-----------------------------------------------------------------------------
(* Column masks.                                                           *)

\* A reference with missing parts, completed with the session's defaults.
Upgrade(rel, defaults) ==
    CASE Len(rel) = 1 -> defaults \o rel
      [] Len(rel) = 2 -> <<defaults[1]>> \o rel
      [] OTHER -> rel

CandidateRefs(rel, defaults) ==
    MatchCandidates(IF defaults = None THEN rel ELSE Upgrade(rel, defaults))

\* The place of a table among the candidates; 0: it is none of them.
PlaceOf(table, cands) ==
    IF \E i \in DOMAIN cands : cands[i] = table
       THEN CHOOSE i \in DOMAIN cands : cands[i] = table /\ \A j \in 1..(i - 1) : cands[j] # table
       ELSE 0

\* A tenant's mask beats an operator-wide one, then a group's beats everybody's.
ApplicableRank(rule) == (IF rule.org # None THEN 2 ELSE 0) + (IF rule.groups # None THEN 1 ELSE 0)

\* The positions of the masks that could decide about the column.
Contenders(masks, cands, col, id) ==
    {p \in DOMAIN masks : /\ masks[p].column = col
                          /\ PlaceOf(masks[p].table, cands) # 0
                          /\ InForce(masks[p], id)}

\* p is found before q, or beats it later: a higher rank wins, on equal ranks
\* the earlier candidate, and under one candidate the earlier entry.
Beats(masks, cands, p, q) ==
    LET rp == ApplicableRank(masks[p])  rq == ApplicableRank(masks[q])
        cp == PlaceOf(masks[p].table, cands)  cq == PlaceOf(masks[q].table, cands)
    IN  rp > rq \/ (rp = rq /\ (cp < cq \/ (cp = cq /\ p <= q)))

\* Mutant: the most qualified mask decides alone, whether or not it is in force.
LookupMask_FirstKey(masks, cands, col, id) ==
    LET keyed == {p \in DOMAIN masks : masks[p].column = col /\ PlaceOf(masks[p].table, cands) # 0}
    IN  IF keyed = {} THEN 0
        ELSE LET p == CHOOSE q \in keyed : \A r \in keyed :
                          PlaceOf(masks[q].table, cands) <= PlaceOf(masks[r].table, cands)
             IN  IF InForce(masks[p], id) THEN p ELSE 0
\* The position of the mask that replaces the column; 0: the column is shown.
LookupMask(masks, cands, col, id) ==
    LET contenders == Contenders(masks, cands, col, id)
    IN  IF contenders = {} THEN 0
        ELSE CHOOSE p \in contenders : \A q \in contenders : Beats(masks, cands, p, q)

\* ColumnMaskingEnforcer::new and RowFilterEnforcer::new refuse two rules of
\* one scope on one column or table.
SameScope(a, b) == a.org = b.org /\ a.groups = b.groups
MasksBuild(masks) ==
    \A p, q \in DOMAIN masks : p # q /\ SameScope(masks[p], masks[q])
        => masks[p].table # masks[q].table \/ masks[p].column # masks[q].column
FiltersBuild(filters) ==
    \A p, q \in DOMAIN filters : p # q /\ SameScope(filters[p], filters[q])
        => filters[p].table # filters[q].table

-----------------------------------------------------------------------------
(* Row filters.                                                            *)

\* The positions of the filters in force on one candidate key: a tenant's
\* own ones, or the operator-wide ones.
TierAt(filters, cand, tenant, id) ==
    {p \in DOMAIN filters : /\ filters[p].table = cand
                            /\ (filters[p].org # None) = tenant
                            /\ InForce(filters[p], id)}

\* The first candidate with such filters; all of them are AND-ed.
Tier(filters, rel, tenant, id) ==
    LET cands == MatchCandidates(rel)
        hit == {i \in DOMAIN cands : TierAt(filters, cands[i], tenant, id) # {}}
    IN  IF hit = {} THEN {}
        ELSE TierAt(filters, cands[CHOOSE i \in hit : \A j \in hit : i <= j], tenant, id)

\* Mutant: only the first candidate key that has an entry is consulted.
ResolvePredicate_FirstKey(filters, rel, id) ==
    LET cands == MatchCandidates(rel)
        keyed == {i \in DOMAIN cands : \E p \in DOMAIN filters : filters[p].table = cands[i]}
    IN  IF keyed = {} THEN {}
        ELSE LET c == cands[CHOOSE i \in keyed : \A j \in keyed : i <= j]
             IN  IF TierAt(filters, c, TRUE, id) # {} THEN TierAt(filters, c, TRUE, id)
                 ELSE TierAt(filters, c, FALSE, id)
\* A tenant's filters replace the operator-wide ones.  {}: every row is seen.
ResolvePredicate(filters, rel, id) ==
    LET tenant == Tier(filters, rel, TRUE, id)
    IN  IF tenant # {} THEN tenant ELSE Tier(filters, rel, FALSE, id)

-----------------------------------------------------------------------------
(* Whitelists, denials and grants.                                         *)

\* The columns the whitelists in force show; None: the table is unrestricted.
VisibleColumns(whitelists, cands, id) ==
    LET inForce == {p \in DOMAIN whitelists : /\ PlaceOf(whitelists[p].table, cands) # 0
                                              /\ InForce(whitelists[p], id)}
    IN  IF inForce = {} THEN None ELSE UNION {whitelists[p].columns : p \in inForce}

\* A denial without groups is for everybody; denials have no organisation.
DenialApplies(denial, id) == denial.groups = {} \/ denial.groups \cap id.groups # {}
TableMatches(denial, rel) == PlaceOf(denial.table, MatchCandidates(rel)) # 0

\* A grant is in force for its grantee, a user or a role, of its organisation.
GrantApplies(grant, id) ==
    /\ OrgRuleApplies(grant.org, id)
    /\ grant.grantee = id.user \/ grant.grantee \in id.roles

SystemSchemas == {"pg_catalog", "information_schema"}

HoldsUsage(grants, full, id) ==
    \E g \in grants : g.object = <<full[1]>> /\ GrantApplies(g, id)
HoldsSelect(grants, full, id) ==
    \E g \in grants : g.object = full /\ GrantApplies(g, id)

\* resolve_full and missing_privilege: the reference is completed with the
\* server's defaults; without defaults a short one is not governed.
MissingPrivilege(grants, rel, defaults, id) ==
    /\ Len(rel) = 3 \/ defaults # None
    /\ LET full == IF Len(rel) = 3 THEN rel ELSE Upgrade(rel, defaults)
       IN  /\ full[2] \notin SystemSchemas
           /\ ~HoldsUsage(grants, full, id) \/ ~HoldsSelect(grants, full, id)

-----------------------------------------------------------------------------
(* Tags: a governance is [policies, columns]; a policy masks the columns   *)
(* its tag is on, or filters their tables, for one group.  The             *)
(* organisation that owns the policy is not consulted.                     *)

PolicyApplies(policy, id) == policy.group \in id.groups

\* The policies of a kind that the tags of an annotated column bring.
PoliciesOn(governance, column, kind, id) ==
    {p \in governance.policies : p.tag \in column.tags /\ p.kind = kind /\ PolicyApplies(p, id)}

\* resolve_for_identity: one mask per column, and per table the distinct
\* filters AND-ed; both for everybody, as the identity was looked at here.
TagMasks(governance, id) ==
    {[table |-> c.table, column |-> c.column, org |-> None, groups |-> None] :
        c \in {c \in governance.columns : PoliciesOn(governance, c, "mask", id) # {}}}
TagFilters(governance, id) ==
    {[table |-> c.table, org |-> None, groups |-> None] :
        c \in {c \in governance.columns : PoliciesOn(governance, c, "filter", id) # {}}}
=============================================================================
