------------------------------ MODULE HttpScan ------------------------------
(***************************************************************************)
(* One scan of an HTTP source (dataglot-federation, rest/ and odata/): a   *)
(* REST endpoint or an OData entity set, both read page by page.           *)
(*                                                                         *)
(* The connector says of every filter whether the source evaluates it: an  *)
(* OData filter that translates is Exact and DataFusion drops it; a REST   *)
(* equality is an Inexact hint that DataFusion checks again; any other is  *)
(* Unsupported.  The limit reaches the scan when no filter stays above it. *)
(*                                                                         *)
(* The table has one integer column.  A filter is the sequence of its      *)
(* nodes, the arguments of a node before it and the root last: a node is   *)
(* [k, op, lit, flipped], or [k, args] with the places of its arguments;   *)
(* k = "opaque" stands for LIKE, functions and all that has no translation.*)
(*                                                                         *)
(* The configured URL of a REST source has no parameter of its own with    *)
(* the name of a pushed one: url_with_pushdown would replace it, and the   *)
(* filtered scan would then read rows the plain scan does not.             *)
(***************************************************************************)
EXTENDS Integers, Functions, Retain

CONSTANTS
    Null, Absent,    \* SQL's NULL and Rust's Option::None
    Scans,       \* the scans that may be asked for, see Init
    Width,       \* bits of an integer column (16 and 32 in the code)
    MaxPages     \* the connector's own limit (16 for OData, 10000 for REST)

VARIABLES
    scan,        \* what was asked of which source
    phase,       \* plan, fetch, done or failed
    request,     \* what the first request says: [filters, top]
    cursor,      \* rows of the answer that were fetched already
    pages,       \* pages fetched
    out,         \* rows the scan produces
    truncated    \* the page limit was met with a next page pending

vars == <<scan, phase, request, cursor, pages, out, truncated>>

Leaves == {"cmp", "isnull", "notnull", "opaque"}
Arity(k) == CASE k = "not" -> 1 [] k \in {"and", "or"} -> 2 [] OTHER -> 0
IsNode(n, i) ==
    /\ n.k \in Leaves \cup {"not", "and", "or"}
    /\ n.k \notin Leaves => \A a \in 1 .. Arity(n.k) : n.args[a] \in 1 .. (i - 1)
    /\ n.k = "cmp" => n \in [k : {"cmp"}, op : {"eq", "ne", "lt", "le", "gt", "ge"},
                             lit : Int \cup {Null}, flipped : BOOLEAN]
IsFilter(f) == f # <<>> /\ f \in Seq(Range(f)) /\ \A i \in DOMAIN f : IsNode(f[i], i)

\* A scan is [kind, table, filters, limit, page, mapped, honours, nulls,
\* required]: page, the rows of a page; mapped, the column has a query
\* parameter (REST); honours, the API looks at it; nulls, how the OData
\* service compares with null; required, the column is not nullable.
ScansAreScans ==
    /\ Null \notin Int /\ Absent \notin Nat /\ Width \in Nat \ {0} /\ MaxPages \in Nat \ {0}
    /\ \A s \in Scans :
          /\ s.kind \in {"rest", "odata"} /\ s.nulls \in {"false", "unknown"}
          /\ s.table \in Seq(Int \cup {Null})
          /\ s.filters \in Seq(Range(s.filters)) /\ \A f \in Range(s.filters) : IsFilter(f)
          /\ s.limit \in Nat \cup {Absent} /\ s.page \in Nat \ {0}

Init ==
    /\ scan \in Scans
    /\ phase = "plan" /\ request = Absent /\ cursor = 0 /\ pages = 0
    /\ out = <<>> /\ truncated = FALSE

Take(s, n) == IF n = Absent \/ Len(s) <= n THEN s ELSE SubSeq(s, 1, n)

-----------------------------------------------------------------------------
(* What a filter means, to SQL and to an OData service.                    *)

Holds(op, a, b) ==
    CASE op = "eq" -> a = b [] op = "ne" -> a # b [] op = "lt" -> a < b
      [] op = "le" -> a <= b [] op = "gt" -> a > b [] op = "ge" -> a >= b

Truth(b) == IF b THEN "true" ELSE "false"
Not3(t) == CASE t = "true" -> "false" [] t = "false" -> "true" [] OTHER -> t
And3(s, t) == IF "false" \in {s, t} THEN "false" ELSE IF s = t THEN s ELSE "unknown"
Or3(s, t) == Not3(And3(Not3(s), Not3(t)))

\* flip_op: the operator once the literal is on the right.
FlipOp(op) == CASE op = "lt" -> "gt" [] op = "le" -> "ge" [] op = "gt" -> "lt" [] op = "ge" -> "le"
                [] OTHER -> op

\* The value of a node, from those of the nodes before it or as a leaf.
NodeValue(n, val, leaf) ==
    CASE n.k = "not" -> Not3(val[n.args[1]])
      [] n.k = "and" -> And3(val[n.args[1]], val[n.args[2]])
      [] n.k = "or" -> Or3(val[n.args[1]], val[n.args[2]])
      [] OTHER -> leaf

\* The value of a filter whose leaves have these values.
Value(f, leaf) ==
    LET val[i \in DOMAIN f] == NodeValue(f[i], val, leaf[i])
    IN  val[Len(f)]

\* SQL's value of a filter for a row, in three-valued logic.
SqlLeaf(n, v) ==
    CASE n.k = "cmp" -> IF Null \in {v, n.lit} THEN "unknown"
                        ELSE Truth(IF n.flipped THEN Holds(n.op, n.lit, v) ELSE Holds(n.op, v, n.lit))
      [] n.k = "isnull" -> Truth(v = Null)
      [] n.k = "notnull" -> Truth(v # Null)
      [] OTHER -> IF v = Null THEN "unknown" ELSE Truth(v = n.lit)
Sql(f, v) == Value(f, [i \in DOMAIN f |-> SqlLeaf(f[i], v)])

\* The service's value of a $filter: with nulls = "false" null is a value that
\* equals itself only and is in no order (OData 4); with "unknown" as in SQL.
ServiceLeaf(n, v, nulls) ==
    CASE n.k = "cmp" -> IF Null \notin {v, n.lit} \/ (nulls = "false" /\ n.op \in {"eq", "ne"})
                          THEN Truth(Holds(n.op, v, n.lit))
                          ELSE IF nulls = "false" THEN "false" ELSE "unknown"
      [] n.k = "isnull" -> Truth(v = Null)
      [] OTHER -> Truth(v # Null)
Service(f, v, nulls) == Value(f, [i \in DOMAIN f |-> ServiceLeaf(f[i], v, nulls)])

-----------------------------------------------------------------------------
(* Planning.                                                               *)

\* Mutant: a comparison with NULL is rendered like any other literal.
RendersScalar_Null(lit) == TRUE
RendersScalar(lit) == lit # Null

\* translate_expr: the $filter fragment, or None if a part has none.
Translates(n) == n.k # "opaque" /\ (n.k = "cmp" => RendersScalar(n.lit))
TranslateComparison(n) == [n EXCEPT !.op = IF n.flipped THEN FlipOp(@) ELSE @, !.flipped = FALSE]
TranslateExpr(f) ==
    IF \A i \in DOMAIN f : Translates(f[i])
       THEN [i \in DOMAIN f |-> IF f[i].k = "cmp" THEN TranslateComparison(f[i]) ELSE f[i]]
       ELSE Absent

\* is_pushable: an equality, in either order, on a mapped column.
IsPushable(f) == Len(f) = 1 /\ f[1].k = "cmp" /\ f[1].op = "eq" /\ scan.mapped /\ f[1].lit # Null

\* supports_filters_pushdown.
Verdict(f) ==
    CASE scan.kind = "odata" /\ TranslateExpr(f) # Absent -> "exact"
      [] scan.kind = "rest" /\ IsPushable(f) -> "inexact"
      [] OTHER -> "unsupported"

\* The filters with one of these verdicts.
Judged(verdicts) == Retain(scan.filters, {i \in DOMAIN scan.filters : Verdict(scan.filters[i]) \in verdicts})

\* DataFusion: the filters that stay above the scan.
Residual == Judged({"inexact", "unsupported"})

Plan ==
    /\ phase = "plan"
    /\ request' = [filters |-> Judged({"exact", "inexact"}),
                   top |-> IF Residual = <<>> THEN scan.limit ELSE Absent]
    /\ phase' = "fetch"
    /\ UNCHANGED <<scan, cursor, pages, out, truncated>>

-----------------------------------------------------------------------------
(* Fetching.                                                               *)

\* The rows the source answers the request with, over all its pages.
Serves(v) ==
    CASE scan.kind = "odata" ->
            \A i \in DOMAIN request.filters : Service(TranslateExpr(request.filters[i]), v, scan.nulls) = "true"
      [] scan.kind = "rest" /\ scan.honours -> \A i \in DOMAIN request.filters : v = request.filters[i][1].lit
      [] OTHER -> TRUE
Answer ==
    LET rows == Retain(scan.table, {i \in DOMAIN scan.table : Serves(scan.table[i])})
    IN  IF scan.kind = "odata" THEN Take(rows, request.top) ELSE rows

\* cell_int and the cast to the column's width; no value of the wrong type.
Decode(v) == IF v = Null THEN v ELSE ((v + 2^(Width - 1)) % 2^Width) - 2^(Width - 1)

\* The rows of the limit that are still wanted; the scan of OData leaves it
\* to the service.
Remaining == request.top - Len(out)

FetchPage ==
    LET rows == Take(SubSeq(Answer, cursor + 1, Len(Answer)), scan.page)
        batch == [i \in DOMAIN rows |-> Decode(rows[i])]
        more == cursor + scan.page < Len(Answer)
        enough == scan.kind = "rest" /\ request.top # Absent /\ Len(rows) >= Remaining
    IN  /\ phase = "fetch"
        /\ ~(scan.required /\ Null \in Range(rows))
        /\ cursor' = cursor + Len(rows)
        /\ pages' = pages + 1
        /\ out' = out \o (IF enough THEN Take(batch, Remaining) ELSE batch)
        /\ phase' = IF ~enough /\ more /\ pages' < MaxPages THEN "fetch" ELSE "done"
        /\ truncated' = (~enough /\ more /\ pages' = MaxPages)
        /\ UNCHANGED <<scan, request>>

\* No token, no connection, an error status, a body or a cell that does not
\* decode: the error is all the query sees of the pages before.
FetchFails ==
    /\ phase = "fetch"
    /\ phase' = "failed" /\ out' = <<>>
    /\ UNCHANGED <<scan, request, cursor, pages, truncated>>

Next == Plan \/ FetchPage \/ FetchFails

Spec == Init /\ [][Next]_vars

-----------------------------------------------------------------------------
(* Properties.                                                             *)

\* The rows that pass filters in SQL.
Where(rows, filters) ==
    Retain(rows, {i \in DOMAIN rows : \A j \in DOMAIN filters : Sql(filters[j], rows[i]) = "true"})

\* DataFusion above the scan.
Result == Take(Where(out, Residual), scan.limit)

Negates(f) == \E i \in DOMAIN f : f[i].k = "not" \/ (f[i].k = "cmp" /\ f[i].op = "ne")

\* A scan that ends without an error returned exactly the rows that SQL asks
\* for, up to the limit and in order, whatever was pushed and however the
\* answer was cut into pages.  Three limits, all of the code: the page cap,
\* a value wider than its column, and an OData service that compares null as a
\* value, when the filter negates a comparison.
ScanExact ==
    phase = "done" /\ ~truncated
    /\ (\A i \in DOMAIN scan.table : scan.table[i] = Decode(scan.table[i]))
    /\ (scan.kind = "odata" /\ scan.nulls = "false" => \A i \in DOMAIN scan.filters : ~Negates(scan.filters[i]))
    => Result = Take(Where(scan.table, scan.filters), scan.limit)
=============================================================================
