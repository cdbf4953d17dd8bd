--------------------------- MODULE MCPolicyRules ---------------------------
EXTENDS PolicyRules, TLC

CONSTANTS w1, w2, w3

\* Two sessions of organisation "a" and one of "b".
MCSessions == [w \in Workers |-> IF w = w3 THEN "b" ELSE "a"]
MCSymmetry == Permutations({w1, w2})

\* In "a" a target has two names and a name two targets, and one policy is
\* refused.
MCPolicy(o, n, t, b) == [org |-> o, name |-> n, target |-> t, body |-> b]
MCDeclared ==
    {MCPolicy("a", 1, "m1", "x"), MCPolicy("a", 1, "m1", "bad"),
     MCPolicy("a", 2, "m1", "y"), MCPolicy("a", 2, "f1", "x"), MCPolicy("b", 1, "m1", "x")}
=============================================================================
