--------------------------- MODULE ReadPathProofs ---------------------------
(***************************************************************************)
(* Proofs about what a query reads: the rules that the enforcers find for  *)
(* a reference (RuleStore, RuleResolution) and the rows that a scan of an  *)
(* HTTP source returns (HttpScan), for any rules, references, filters,     *)
(* tables and pages.                                                       *)
(*                                                                         *)
(* Both are about sequences from which elements are kept or dropped, so    *)
(* the first part is about Retain.  What needs an induction over data (the *)
(* n-th kept position exists, a filter has a value, the service's value of *)
(* a filter agrees with SQL's) is shown on a least counterexample, which   *)
(* LeastExists provides.                                                   *)
(***************************************************************************)
EXTENDS RuleStore, HttpScan, FiniteSetTheorems, SequenceTheorems, WellFoundedInduction, TLAPS

\* A set of numbers has a least one.
LEMMA LeastExists ==
    ASSUME NEW S \in SUBSET Nat, S # {}
    PROVE  \E n \in S : \A m \in S : n <= m
<1>1. PICK n \in S : \A m \in S : <<m, n>> \notin OpToRel(<, Nat)
  BY WFMin, NatLessThanWellFounded, Zenon
<1>2. \A m \in S : ~(m < n)
  <2> SUFFICES ASSUME NEW m \in S, m < n PROVE FALSE
    OBVIOUS
  <2>1. m \in Nat /\ n \in Nat OBVIOUS
  <2>2. <<m, n>> \in OpToRel(<, Nat) BY <2>1, Zenon DEF OpToRel
  <2> QED BY <1>1, <2>2, Zenon
<1> QED
  BY <1>2

-----------------------------------------------------------------------------
(* Retain: the positions that are kept are enumerated in their order.      *)

Rank(K, p) == Cardinality({q \in K : q <= p})

\* The rank of a position grows with it and reaches every number up to the
\* number of positions.
LEMMA RankCounts ==
    ASSUME NEW K \in SUBSET Nat, IsFiniteSet(K)
    PROVE  /\ \A p \in K : Rank(K, p) \in 1 .. Cardinality(K)
           /\ \A p, q \in K : p < q => Rank(K, p) < Rank(K, q)
           /\ \A n \in 1 .. Cardinality(K) : \E p \in K : Rank(K, p) = n
<1> DEFINE Upto(p) == {q \in K : q <= p}
           rank == [p \in K |-> Cardinality(Upto(p))]
           N == Cardinality(K)
<1>0. N \in Nat BY FS_CardinalityType
<1>1. ASSUME NEW p \in K PROVE IsFiniteSet(Upto(p)) /\ Cardinality(Upto(p)) \in 1 .. N
  <2>1. Upto(p) \in SUBSET K OBVIOUS
  <2>2. IsFiniteSet(Upto(p)) /\ Cardinality(Upto(p)) <= N BY <2>1, FS_Subset
  <2>3. Cardinality(Upto(p)) \in Nat BY <2>2, FS_CardinalityType
  <2>4. p \in Upto(p) OBVIOUS
  <2>5. Cardinality(Upto(p)) # 0 BY <2>2, <2>4, FS_EmptySet
  <2> QED BY <2>2, <2>3, <2>5, <1>0
<1>2. ASSUME NEW p \in K, NEW q \in K, p < q PROVE Cardinality(Upto(p)) < Cardinality(Upto(q))
  <2>1. p \in Nat /\ q \in Nat OBVIOUS
  <2>2. Upto(p) \in SUBSET Upto(q)
    <3> SUFFICES ASSUME NEW r \in K, r <= p PROVE r <= q
      OBVIOUS
    <3>1. r \in Nat OBVIOUS
    <3> QED BY <1>2, <2>1, <3>1
  <2>3. q \in Upto(q) /\ q \notin Upto(p) BY <1>2, <2>1
  <2>4. IsFiniteSet(Upto(q)) BY <1>1
  <2>5. Cardinality(Upto(p)) <= Cardinality(Upto(q)) BY <2>2, <2>4, FS_Subset
  <2>6. Cardinality(Upto(p)) # Cardinality(Upto(q))
    <3>1. Upto(p) # Upto(q) BY <2>3
    <3> HIDE DEF Upto
    <3> QED BY <2>2, <2>4, <3>1, FS_Subset
  <2>7. Cardinality(Upto(p)) \in 1 .. N /\ Cardinality(Upto(q)) \in 1 .. N BY <1>1
  <2> HIDE DEF Upto, N
  <2> QED BY <2>5, <2>6, <2>7, <1>0
<1>3. rank \in [K -> 1 .. N] BY <1>1
<1>4. IsInjective(rank)
  <2> SUFFICES ASSUME NEW p \in K, NEW q \in K, p # q PROVE rank[p] # rank[q]
    BY DEF IsInjective
  <2>1. p < q \/ q < p OBVIOUS
  <2>2. rank[p] = Cardinality(Upto(p)) /\ rank[q] = Cardinality(Upto(q)) OBVIOUS
  <2>3. Cardinality(Upto(p)) \in 1 .. N /\ Cardinality(Upto(q)) \in 1 .. N BY <1>1
  <2> HIDE DEF Upto, N, rank
  <2> QED BY <1>2, <2>1, <2>2, <2>3, <1>0
<1>5. rank \in Injection(K, 1 .. N) BY <1>3, <1>4 DEF Injection
<1>6. IsFiniteSet(1 .. N) /\ Cardinality(1 .. N) = N
  <2> HIDE DEF N
  <2> QED BY <1>0, FS_Interval
<1>7. rank \in Surjection(K, 1 .. N) BY <1>5, <1>6, FS_Injection
<1>8. \A n \in 1 .. N : \E p \in K : rank[p] = n BY <1>7 DEF Surjection
<1> QED BY <1>1, <1>2, <1>8 DEF Rank

\* So Nth enumerates the positions, each once and in order.
LEMMA NthEnumerates ==
    ASSUME NEW K \in SUBSET Nat, IsFiniteSet(K)
    PROVE  /\ Cardinality(K) \in Nat
           /\ \A n \in 1 .. Cardinality(K) : Nth(K, n) \in K
           /\ \A n, m \in 1 .. Cardinality(K) : n < m <=> Nth(K, n) < Nth(K, m)
           /\ \A p \in K : \E n \in 1 .. Cardinality(K) : Nth(K, n) = p
<1>0. Cardinality(K) \in Nat BY FS_CardinalityType
<1>1. ASSUME NEW n \in 1 .. Cardinality(K) PROVE Nth(K, n) \in K /\ Rank(K, Nth(K, n)) = n
  <2>1. \E p \in K : Cardinality({q \in K : q <= p}) = n BY RankCounts DEF Rank
  <2> QED BY <2>1 DEF Nth, Rank
<1>2. ASSUME NEW n \in 1 .. Cardinality(K), NEW m \in 1 .. Cardinality(K) PROVE n < m <=> Nth(K, n) < Nth(K, m)
  <2> DEFINE a == Nth(K, n)
             b == Nth(K, m)
  <2>1. a \in K /\ b \in K /\ Rank(K, a) = n /\ Rank(K, b) = m BY <1>1
  <2>2. a \in Nat /\ b \in Nat BY <2>1
  <2>3. (a < b => n < m) /\ (b < a => m < n) BY <2>1, RankCounts
  <2>4. a = b => n = m BY <2>1
  <2>5. n \in Nat /\ m \in Nat BY <1>0
  <2> HIDE DEF a, b
  <2> QED BY <2>2, <2>3, <2>4, <2>5 DEF a, b
<1>3. ASSUME NEW p \in K PROVE \E n \in 1 .. Cardinality(K) : Nth(K, n) = p
  <2>1. Rank(K, p) \in 1 .. Cardinality(K) BY RankCounts
  <2> DEFINE q == Nth(K, Rank(K, p))
  <2>2. q \in K /\ Rank(K, q) = Rank(K, p) BY <1>1, <2>1
  <2>3. q \in Nat /\ p \in Nat /\ Rank(K, p) \in Nat
    <3> HIDE DEF q
    <3> QED BY <1>0, <2>1, <2>2
  <2>4. (p < q => Rank(K, p) < Rank(K, q)) /\ (q < p => Rank(K, q) < Rank(K, p)) BY <2>2, RankCounts
  <2>5. q = p
    <3> HIDE DEF q
    <3> QED BY <2>2, <2>3, <2>4
  <2> QED BY <2>1, <2>5
<1> QED BY <1>0, <1>1, <1>2, <1>3

\* What is retained of a list is a list: its n-th element is the one at the
\* n-th position.
LEMMA RetainIsList ==
    ASSUME NEW S, NEW s \in Seq(S), NEW K \in SUBSET DOMAIN s
    PROVE  /\ IsFiniteSet(K) /\ K \in SUBSET Nat /\ Cardinality(K) \in Nat
           /\ Retain(s, K) \in Seq(S)
           /\ Len(Retain(s, K)) = Cardinality(K)
           /\ DOMAIN Retain(s, K) = 1 .. Cardinality(K)
           /\ \A n \in 1 .. Cardinality(K) : Nth(K, n) \in K /\ Retain(s, K)[n] = s[Nth(K, n)]
<1>1. Len(s) \in Nat /\ DOMAIN s = 1 .. Len(s) BY LenProperties
<1>2. IsFiniteSet(DOMAIN s) /\ DOMAIN s \in SUBSET Nat BY <1>1, FS_Interval
<1>3. IsFiniteSet(K) /\ K \in SUBSET Nat BY <1>2, FS_Subset
<1>4. Cardinality(K) \in Nat /\ \A n \in 1 .. Cardinality(K) : Nth(K, n) \in K BY <1>3, NthEnumerates
<1>5. \A n \in 1 .. Cardinality(K) : s[Nth(K, n)] \in S
  BY <1>1, <1>4, ElementOfSeq
<1>6. Retain(s, K) \in [1 .. Cardinality(K) -> S] BY <1>5 DEF Retain
<1>7. Retain(s, K) \in Seq(S) BY <1>4, <1>6
<1>8. DOMAIN Retain(s, K) = 1 .. Cardinality(K) BY DEF Retain
<1>9. Len(Retain(s, K)) = Cardinality(K) BY <1>4, <1>7, <1>8, LenProperties
<1> QED BY <1>3, <1>4, <1>7, <1>8, <1>9 DEF Retain

-----------------------------------------------------------------------------
(* What is retained of what is retained.                                   *)

\* Nth is the only enumeration of the positions in their order.
LEMMA NthIsUnique ==
    ASSUME NEW K \in SUBSET Nat, IsFiniteSet(K), NEW N \in Nat, NEW h \in [1 .. N -> K],
           \A n, m \in 1 .. N : n < m => h[n] < h[m],
           \A p \in K : \E n \in 1 .. N : h[n] = p
    PROVE  Cardinality(K) = N /\ \A n \in 1 .. N : Nth(K, n) = h[n]
<1>1. ASSUME NEW n \in 1 .. N PROVE n \in Nat /\ h[n] \in K /\ h[n] \in Nat
  <2>1. h[n] \in K OBVIOUS
  <2>2. \A p \in K : p \in Nat OBVIOUS
  <2>3. n \in Nat OBVIOUS
  <2> QED BY <2>1, <2>2, <2>3, Zenon
<1>2. h \in Bijection(1 .. N, K)
  <2>1. \A n, m \in 1 .. N : h[n] = h[m] => n = m
    <3> SUFFICES ASSUME NEW n \in 1 .. N, NEW m \in 1 .. N, h[n] = h[m], n # m PROVE FALSE
      OBVIOUS
    <3>1. n < m \/ m < n OBVIOUS
    <3>2. h[n] < h[m] \/ h[m] < h[n] BY <3>1
    <3> QED BY <1>1, <3>2
  <2>2. h \in Injection(1 .. N, K) BY <2>1 DEF Injection, IsInjective
  <2>3. h \in Surjection(1 .. N, K) BY DEF Surjection
  <2> QED BY <2>2, <2>3 DEF Bijection
<1>3. Cardinality(K) = N
  <2>1. IsFiniteSet(1 .. N) /\ Cardinality(1 .. N) = N BY FS_Interval
  <2>2. ExistsBijection(1 .. N, K) BY <1>2 DEF ExistsBijection
  <2> QED BY <2>1, <2>2, FS_Bijection
<1>4. /\ \A n \in 1 .. N : Nth(K, n) \in K
      /\ \A n, m \in 1 .. N : n < m <=> Nth(K, n) < Nth(K, m)
      /\ \A p \in K : \E n \in 1 .. N : Nth(K, n) = p
  BY <1>3, NthEnumerates
<1> DEFINE Wrong == {n \in 1 .. N : Nth(K, n) # h[n]}
<1>5. Wrong = {}
  <2> SUFFICES ASSUME Wrong # {} PROVE FALSE
    OBVIOUS
  <2>1. Wrong \in SUBSET Nat OBVIOUS
  <2>2. PICK n \in Wrong : \A m \in Wrong : n <= m BY <2>1, LeastExists
  <2>3. n \in 1 .. N /\ Nth(K, n) # h[n] /\ Nth(K, n) \in K BY <1>4, <2>2
  <2>4. \A m \in 1 .. N : m < n => Nth(K, m) = h[m]
    <3> SUFFICES ASSUME NEW m \in 1 .. N, m < n, m \in Wrong PROVE FALSE
      OBVIOUS
    <3> QED BY <2>2, <2>3
  <2> HIDE DEF Wrong
  <2>5. PICK m \in 1 .. N : h[m] = Nth(K, n) BY <2>3
  <2>6. PICK j \in 1 .. N : Nth(K, j) = h[n] BY <1>1, <1>4, <2>3
  <2>7. m > n
    <3>1. ~(m < n)
      <4> SUFFICES ASSUME m < n PROVE FALSE
        OBVIOUS
      <4>1. Nth(K, m) = Nth(K, n) /\ Nth(K, m) < Nth(K, n) BY <1>4, <2>3, <2>4, <2>5
      <4>2. Nth(K, n) \in Nat BY <2>3
      <4> QED BY <4>1, <4>2
    <3> QED BY <2>3, <2>5, <3>1
  <2>8. h[n] < Nth(K, n) BY <2>3, <2>5, <2>7
  <2>9. j < n BY <1>4, <2>3, <2>6, <2>8
  <2>10. h[j] = h[n] BY <2>4, <2>6, <2>9
  <2>11. h[j] < h[n] BY <2>3, <2>9
  <2> QED BY <1>1, <2>3, <2>10, <2>11
<1> QED BY <1>3, <1>5

\* Retaining everything is nothing.
LEMMA RetainAll ==
    ASSUME NEW S, NEW s \in Seq(S)
    PROVE  Retain(s, DOMAIN s) = s
<1>1. Len(s) \in Nat /\ DOMAIN s = 1 .. Len(s) BY LenProperties
<1> DEFINE N == Len(s)
           h == [n \in 1 .. N |-> n]
<1>2. IsFiniteSet(1 .. N) BY <1>1, FS_Interval
<1>3. 1 .. N \in SUBSET Nat /\ h \in [1 .. N -> 1 .. N]
      /\ (\A n, m \in 1 .. N : n < m => h[n] < h[m]) /\ \A p \in 1 .. N : \E n \in 1 .. N : h[n] = p
  BY <1>1
<1> HIDE DEF h, N
<1>4. Cardinality(1 .. N) = N /\ \A n \in 1 .. N : Nth(1 .. N, n) = h[n]
  BY <1>1, <1>2, <1>3, NthIsUnique DEF N
<1>5. Cardinality(DOMAIN s) = N /\ \A n \in 1 .. N : Nth(DOMAIN s, n) = n BY <1>1, <1>4 DEF h, N
<1>6. Retain(s, DOMAIN s) \in Seq(S) /\ Len(Retain(s, DOMAIN s)) = N
      /\ \A n \in 1 .. N : Retain(s, DOMAIN s)[n] = s[n]
  BY <1>5, RetainIsList
<1> QED BY <1>6, SeqEqual DEF N

\* Two filters one after the other retain what passes both.
LEMMA RetainTwice ==
    ASSUME NEW S, NEW s \in Seq(S), NEW K \in SUBSET DOMAIN s, NEW L \in SUBSET K
    PROVE  Retain(Retain(s, K), {n \in DOMAIN Retain(s, K) : Nth(K, n) \in L}) = Retain(s, L)
<1> DEFINE r == Retain(s, K)
           M == {n \in DOMAIN r : Nth(K, n) \in L}
           N == Cardinality(M)
           h == [m \in 1 .. N |-> Nth(K, Nth(M, m))]
<1>1. /\ IsFiniteSet(K) /\ K \in SUBSET Nat /\ r \in Seq(S)
      /\ DOMAIN r = 1 .. Cardinality(K) /\ \A n \in DOMAIN r : Nth(K, n) \in K /\ r[n] = s[Nth(K, n)]
  BY RetainIsList
<1>2. /\ \A n, m \in DOMAIN r : n < m => Nth(K, n) < Nth(K, m)
      /\ \A p \in K : \E n \in DOMAIN r : Nth(K, n) = p
  BY <1>1, NthEnumerates
<1>3. M \in SUBSET DOMAIN r OBVIOUS
<1>4. \A n \in M : Nth(K, n) \in L OBVIOUS
<1>5. \A p \in L : \E n \in M : Nth(K, n) = p
  <2> SUFFICES ASSUME NEW p \in L PROVE \E n \in M : Nth(K, n) = p
    OBVIOUS
  <2>1. PICK n \in DOMAIN r : Nth(K, n) = p BY <1>2
  <2> QED BY <2>1
<1> HIDE DEF r, M
<1>6. /\ IsFiniteSet(M) /\ M \in SUBSET Nat /\ N \in Nat
      /\ Len(Retain(r, M)) = N /\ Retain(r, M) \in Seq(S)
      /\ \A m \in 1 .. N : Nth(M, m) \in M /\ Retain(r, M)[m] = r[Nth(M, m)]
  BY <1>1, <1>3, RetainIsList
<1>7. /\ \A n, m \in 1 .. N : n < m => Nth(M, n) < Nth(M, m)
      /\ \A p \in M : \E m \in 1 .. N : Nth(M, m) = p
  BY <1>6, NthEnumerates
<1> HIDE DEF N
<1>8. h \in [1 .. N -> L] BY <1>4, <1>6
<1>9. \A n, m \in 1 .. N : n < m => h[n] < h[m]
  <2> SUFFICES ASSUME NEW n \in 1 .. N, NEW m \in 1 .. N, n < m PROVE Nth(K, Nth(M, n)) < Nth(K, Nth(M, m))
    OBVIOUS
  <2>1. Nth(M, n) < Nth(M, m) /\ Nth(M, n) \in DOMAIN r /\ Nth(M, m) \in DOMAIN r BY <1>3, <1>6, <1>7
  <2> QED BY <1>2, <2>1
<1>10. \A p \in L : \E n \in 1 .. N : h[n] = p
  <2> SUFFICES ASSUME NEW p \in L PROVE \E n \in 1 .. N : Nth(K, Nth(M, n)) = p
    OBVIOUS
  <2>1. PICK q \in M : Nth(K, q) = p BY <1>5
  <2>2. PICK n \in 1 .. N : Nth(M, n) = q BY <1>7
  <2> QED BY <2>1, <2>2
<1>11. IsFiniteSet(L) /\ L \in SUBSET Nat /\ L \in SUBSET DOMAIN s BY <1>1, FS_Subset
<1>12. Cardinality(L) = N /\ \A n \in 1 .. N : Nth(L, n) = h[n]
  <2> HIDE DEF h
  <2> QED BY <1>6, <1>8, <1>9, <1>10, <1>11, NthIsUnique
<1>13. Retain(s, L) \in Seq(S) /\ Len(Retain(s, L)) = N /\ \A n \in 1 .. N : Retain(s, L)[n] = s[h[n]]
  <2> HIDE DEF h
  <2> QED BY <1>11, <1>12, RetainIsList
<1>14. \A n \in 1 .. N : Retain(r, M)[n] = s[h[n]]
  <2> SUFFICES ASSUME NEW n \in 1 .. N PROVE Retain(r, M)[n] = s[Nth(K, Nth(M, n))]
    OBVIOUS
  <2>1. Nth(M, n) \in DOMAIN r BY <1>3, <1>6
  <2> QED BY <1>1, <1>6, <2>1
<1>15. Retain(r, M) = Retain(s, L)
  <2> HIDE DEF h
  <2> QED BY <1>6, <1>13, <1>14, SeqEqual
<1> QED BY <1>15 DEF r, M

-----------------------------------------------------------------------------
(* Lookups: two lists whose rules in force for an identity are the same,   *)
(* in the same order, decide alike for it.                                 *)

Own(rules, id) == {p \in DOMAIN rules : InForce(rules[p], id)}

Alike(a, b, id) ==
    \E e \in [Own(a, id) -> Own(b, id)] :
        /\ \A p \in Own(a, id) : b[e[p]] = a[p]
        /\ \A p, q \in Own(a, id) : p < q => e[p] < e[q]
        /\ \A q \in Own(b, id) : \E p \in Own(a, id) : e[p] = q

\* A list of candidates.
IsCands(cands) == \E n \in Nat : DOMAIN cands = 1 .. n

LEMMA PlaceIsNat ==
    ASSUME NEW table, NEW cands, IsCands(cands)
    PROVE  PlaceOf(table, cands) \in Nat
<1>1. PICK n \in Nat : DOMAIN cands = 1 .. n BY DEF IsCands
<1> DEFINE I == {i \in DOMAIN cands : cands[i] = table}
<1>2. CASE I = {}
  BY <1>2 DEF PlaceOf
<1>3. CASE I # {}
  <2>1. I \in SUBSET Nat BY <1>1
  <2>2. PICK i \in I : \A j \in I : i <= j BY <1>3, <2>1, LeastExists
  <2>3. i \in Nat /\ i \in 1 .. n BY <1>1, <2>2
  <2>4. \A j \in 1 .. (i - 1) : cands[j] # table
    <3> SUFFICES ASSUME NEW j \in 1 .. (i - 1), cands[j] = table PROVE FALSE
      OBVIOUS
    <3>1. j \in 1 .. n /\ j < i BY <2>3
    <3>2. j \in I BY <1>1, <3>1
    <3> QED BY <2>2, <2>3, <3>1, <3>2
  <2>5. \E k \in DOMAIN cands : cands[k] = table /\ \A j \in 1 .. (k - 1) : cands[j] # table
    BY <2>2, <2>4
  <2>6. PlaceOf(table, cands) \in DOMAIN cands BY <2>5 DEF PlaceOf
  <2> QED BY <1>1, <2>6
<1> QED BY <1>2, <1>3

\* Among some masks one beats all of them.
LEMMA BestExists ==
    ASSUME NEW masks, NEW cands, IsCands(cands), NEW C \in SUBSET Nat, C # {}
    PROVE  \E p \in C : \A q \in C : Beats(masks, cands, p, q)
<1> DEFINE r(p) == ApplicableRank(masks[p])
           c(p) == PlaceOf(masks[p].table, cands)
<1>1. \A p \in C : r(p) \in 0 .. 3 BY DEF ApplicableRank
<1>2. \A p \in C : c(p) \in Nat BY PlaceIsNat
<1> HIDE DEF r, c
<1>3. PICK p1 \in C : \A q \in C : r(p1) >= r(q)
  <2> DEFINE R == {3 - r(p) : p \in C}
  <2>1. R \in SUBSET Nat
    <3> SUFFICES ASSUME NEW p \in C PROVE 3 - r(p) \in Nat
      OBVIOUS
    <3> QED BY <1>1
  <2>2. PICK n \in R : \A m \in R : n <= m
    <3>1. R # {} OBVIOUS
    <3> QED BY <2>1, <3>1, LeastExists
  <2>3. PICK p \in C : n = 3 - r(p) BY <2>2
  <2>4. ASSUME NEW q \in C PROVE r(p) >= r(q)
    <3>1. 3 - r(q) \in R OBVIOUS
    <3>2. 3 - r(p) <= 3 - r(q) BY <2>2, <2>3, <3>1
    <3> QED BY <1>1, <3>2
  <2> QED BY <2>4
<1> DEFINE C1 == {p \in C : r(p) = r(p1)}
<1>4. PICK p2 \in C1 : \A q \in C1 : c(p2) <= c(q)
  <2> DEFINE P == {c(p) : p \in C1}
  <2>1. P \in SUBSET Nat BY <1>2
  <2>2. c(p1) \in P OBVIOUS
  <2>3. PICK n \in P : \A m \in P : n <= m BY <2>1, <2>2, LeastExists
  <2> QED BY <2>3
<1> DEFINE C2 == {p \in C1 : c(p) = c(p2)}
<1>5. PICK p3 \in C2 : \A q \in C2 : p3 <= q
  <2>1. C2 \in SUBSET Nat OBVIOUS
  <2>2. p2 \in C2 BY <1>4
  <2> QED BY <2>1, <2>2, LeastExists
<1>6. ASSUME NEW q \in C PROVE Beats(masks, cands, p3, q)
  <2>1. r(p3) = r(p1) /\ c(p3) = c(p2) /\ p3 \in C BY <1>5
  <2>2. r(p3) >= r(q) BY <1>3, <2>1
  <2>3. r(p3) = r(q) => c(p3) <= c(q) BY <1>4, <2>1
  <2>4. r(p3) = r(q) /\ c(p3) = c(q) => p3 <= q BY <1>5, <2>1
  <2>5. r(p3) > r(q) \/ (r(p3) = r(q) /\ (c(p3) < c(q) \/ (c(p3) = c(q) /\ p3 <= q)))
    BY <1>1, <1>2, <2>1, <2>2, <2>3, <2>4
  <2> QED BY <2>5 DEF Beats, r, c
<1> QED BY <1>5, <1>6

LEMMA BestIsUnique ==
    ASSUME NEW masks, NEW cands, IsCands(cands), NEW p \in Nat, NEW q \in Nat,
           Beats(masks, cands, p, q), Beats(masks, cands, q, p)
    PROVE  p = q
<1>1. ApplicableRank(masks[p]) \in 0 .. 3 /\ ApplicableRank(masks[q]) \in 0 .. 3 BY DEF ApplicableRank
<1>2. PlaceOf(masks[p].table, cands) \in Nat /\ PlaceOf(masks[q].table, cands) \in Nat BY PlaceIsNat
<1> QED BY <1>1, <1>2 DEF Beats

\* The mask that decides is the same.
LEMMA AlikeDecide ==
    ASSUME NEW a, NEW b, NEW id, NEW rel, NEW c,
           DOMAIN a \in SUBSET (Nat \ {0}), DOMAIN b \in SUBSET (Nat \ {0}),
           Alike(a, b, id), IsCands(CandidateRefs(rel, Defaults))
    PROVE  Decides(a, rel, c, id) = Decides(b, rel, c, id)
<1> DEFINE cands == CandidateRefs(rel, Defaults)
           A == Contenders(a, cands, c, id)
           B == Contenders(b, cands, c, id)
<1> HIDE DEF cands
<1>0. IsCands(cands) BY DEF cands
<1>1. PICK e \in [Own(a, id) -> Own(b, id)] :
        /\ \A p \in Own(a, id) : b[e[p]] = a[p]
        /\ \A p, q \in Own(a, id) : p < q => e[p] < e[q]
        /\ \A q \in Own(b, id) : \E p \in Own(a, id) : e[p] = q
  BY DEF Alike
<1>2. A \in SUBSET Own(a, id) /\ B \in SUBSET Own(b, id) BY DEF Contenders, Own
<1>3. Own(a, id) \in SUBSET (Nat \ {0}) /\ Own(b, id) \in SUBSET (Nat \ {0}) BY DEF Own
<1>4. \A p \in A : e[p] \in B /\ b[e[p]] = a[p]
  <2> SUFFICES ASSUME NEW p \in A PROVE e[p] \in B /\ b[e[p]] = a[p]
    OBVIOUS
  <2>1. p \in Own(a, id) /\ e[p] \in Own(b, id) /\ b[e[p]] = a[p] BY <1>1, <1>2
  <2>2. e[p] \in DOMAIN b BY <2>1 DEF Own
  <2> QED BY <2>1, <2>2 DEF Contenders
<1>5. \A q \in B : \E p \in A : e[p] = q
  <2> SUFFICES ASSUME NEW q \in B PROVE \E p \in A : e[p] = q
    OBVIOUS
  <2>1. PICK p \in Own(a, id) : e[p] = q BY <1>1, <1>2
  <2>2. b[q] = a[p] BY <1>1, <2>1
  <2>3. p \in A BY <2>2 DEF Contenders, Own
  <2> QED BY <2>1, <2>3
<1>6. CASE A = {}
  <2>1. B = {} BY <1>5, <1>6
  <2>2. LookupMask(a, cands, c, id) = 0 /\ LookupMask(b, cands, c, id) = 0 BY <1>6, <2>1 DEF LookupMask
  <2> QED BY <2>2 DEF Decides, cands
<1>7. CASE A # {}
  <2>1. A \in SUBSET Nat /\ B \in SUBSET Nat /\ B # {} BY <1>2, <1>3, <1>4, <1>7
  <2>2. PICK p \in A : p = LookupMask(a, cands, c, id) /\ \A q \in A : Beats(a, cands, p, q)
    <3>1. \E x \in A : \A q \in A : Beats(a, cands, x, q) BY <1>0, <1>7, <2>1, BestExists
    <3> HIDE DEF A
    <3> QED BY <1>7, <3>1 DEF LookupMask, A
  <2>3. PICK y \in B : y = LookupMask(b, cands, c, id) /\ \A q \in B : Beats(b, cands, y, q)
    <3>1. \E x \in B : \A q \in B : Beats(b, cands, x, q) BY <1>0, <2>1, BestExists
    <3> HIDE DEF B
    <3> QED BY <2>1, <3>1 DEF LookupMask, B
  <2>4. \A q \in B : Beats(b, cands, e[p], q)
    <3> SUFFICES ASSUME NEW x \in A PROVE Beats(b, cands, e[p], e[x])
      BY <1>5
    <3>1. Beats(a, cands, p, x) BY <2>2
    <3>2. b[e[p]] = a[p] /\ b[e[x]] = a[x] BY <1>4
    <3>3. p <= x => e[p] <= e[x]
      <4>1. p \in Own(a, id) /\ x \in Own(a, id) BY <1>2
      <4>2. p \in Nat /\ x \in Nat /\ e[p] \in Nat /\ e[x] \in Nat BY <1>3, <4>1
      <4>3. p < x => e[p] < e[x] BY <1>1, <4>1
      <4>4. p = x => e[p] = e[x] OBVIOUS
      <4> HIDE DEF A
      <4> QED BY <4>2, <4>3, <4>4
    <3> HIDE DEF A
    <3> QED BY <3>1, <3>2, <3>3 DEF Beats
  <2>5. e[p] = y
    <3>1. e[p] \in B BY <1>4
    <3>2. e[p] \in Nat /\ y \in Nat BY <2>1, <3>1
    <3>3. Beats(b, cands, e[p], y) /\ Beats(b, cands, y, e[p]) BY <2>3, <2>4, <3>1
    <3> HIDE DEF A, B
    <3> QED BY <1>0, <3>2, <3>3, BestIsUnique
  <2>6. p # 0 /\ y # 0 BY <1>2, <1>3
  <2>7. b[y] = a[p] BY <1>4, <2>5
  <2> HIDE DEF A, B
  <2> QED BY <2>2, <2>3, <2>6, <2>7 DEF Decides, cands
<1> QED BY <1>6, <1>7

\* And so are the filters.
LEMMA AlikeFilter ==
    ASSUME NEW a, NEW b, NEW id, NEW rel, Alike(a, b, id)
    PROVE  Predicates(a, rel, id) = Predicates(b, rel, id)
<1> DEFINE Vals(s, P) == {s[p] : p \in P}
<1>1. PICK e \in [Own(a, id) -> Own(b, id)] :
        /\ \A p \in Own(a, id) : b[e[p]] = a[p]
        /\ \A p, q \in Own(a, id) : p < q => e[p] < e[q]
        /\ \A q \in Own(b, id) : \E p \in Own(a, id) : e[p] = q
  BY DEF Alike
<1>2. ASSUME NEW cand, NEW tenant \in BOOLEAN
      PROVE  Vals(a, TierAt(a, cand, tenant, id)) = Vals(b, TierAt(b, cand, tenant, id))
  <2>1. ASSUME NEW p \in TierAt(a, cand, tenant, id) PROVE e[p] \in TierAt(b, cand, tenant, id) /\ b[e[p]] = a[p]
    <3>1. p \in Own(a, id) BY DEF TierAt, Own
    <3>2. e[p] \in DOMAIN b /\ b[e[p]] = a[p] BY <1>1, <3>1 DEF Own
    <3> QED BY <3>2 DEF TierAt
  <2>2. ASSUME NEW q \in TierAt(b, cand, tenant, id) PROVE \E p \in TierAt(a, cand, tenant, id) : b[q] = a[p]
    <3>1. q \in Own(b, id) BY DEF TierAt, Own
    <3>2. PICK p \in Own(a, id) : e[p] = q BY <1>1, <3>1
    <3>3. p \in DOMAIN a /\ b[q] = a[p] BY <1>1, <3>2 DEF Own
    <3>4. p \in TierAt(a, cand, tenant, id) BY <3>3 DEF TierAt
    <3> QED BY <3>3, <3>4
  <2>3. \A v \in Vals(a, TierAt(a, cand, tenant, id)) : v \in Vals(b, TierAt(b, cand, tenant, id)) BY <2>1
  <2>4. \A v \in Vals(b, TierAt(b, cand, tenant, id)) : v \in Vals(a, TierAt(a, cand, tenant, id)) BY <2>2
  <2> HIDE DEF Vals
  <2> QED BY <2>3, <2>4
<1>3. ASSUME NEW cand, NEW tenant \in BOOLEAN
      PROVE  TierAt(a, cand, tenant, id) = {} <=> TierAt(b, cand, tenant, id) = {}
  <2>1. \A s, P : Vals(s, P) = {} <=> P = {} BY Zenon
  <2> HIDE DEF Vals
  <2> QED BY <1>2, <2>1
<1>4. ASSUME NEW tenant \in BOOLEAN
      PROVE  /\ Vals(a, Tier(a, rel, tenant, id)) = Vals(b, Tier(b, rel, tenant, id))
             /\ Tier(a, rel, tenant, id) = {} <=> Tier(b, rel, tenant, id) = {}
  <2> DEFINE cands == MatchCandidates(rel)
             hitA == {i \in DOMAIN cands : TierAt(a, cands[i], tenant, id) # {}}
             hitB == {i \in DOMAIN cands : TierAt(b, cands[i], tenant, id) # {}}
             n == CHOOSE i \in hitA : \A j \in hitA : i <= j
  <2>1. hitA = hitB BY <1>3
  <2>2. Tier(a, rel, tenant, id) = IF hitA = {} THEN {} ELSE TierAt(a, cands[n], tenant, id) BY Zenon DEF Tier
  <2>3. Tier(b, rel, tenant, id) = IF hitA = {} THEN {} ELSE TierAt(b, cands[n], tenant, id)
    <3> DEFINE m == CHOOSE i \in hitB : \A j \in hitB : i <= j
    <3>1. Tier(b, rel, tenant, id) = IF hitB = {} THEN {} ELSE TierAt(b, cands[m], tenant, id) BY Zenon DEF Tier
    <3>2. m = n BY <2>1
    <3> HIDE DEF hitA, hitB, n, m, cands
    <3> QED BY <2>1, <3>1, <3>2
  <2>4. Vals(a, {}) = Vals(b, {}) OBVIOUS
  <2> HIDE DEF cands, hitA, n, Vals
  <2> QED BY <1>2, <1>3, <2>2, <2>3, <2>4
<1>5. Vals(a, ResolvePredicate(a, rel, id)) = Vals(b, ResolvePredicate(b, rel, id))
  <2> HIDE DEF Vals
  <2> QED BY <1>4 DEF ResolvePredicate
<1> QED BY <1>5 DEF Predicates

-----------------------------------------------------------------------------
(* Every change of the store leaves the lists alike for the others.        *)

LEMMA AlikeSame ==
    ASSUME NEW a, NEW id
    PROVE  Alike(a, a, id)
<1> DEFINE e == [p \in Own(a, id) |-> p]
<1>1. e \in [Own(a, id) -> Own(a, id)] OBVIOUS
<1> QED BY <1>1 DEF Alike

\* A rule of another tenant is added, or takes the place of one of its own.
LEMMA UpsertAlike ==
    ASSUME NEW S, NEW a \in Seq(S), NEW rule, NEW id, NEW P \in SUBSET DOMAIN a,
           \A p \in P : a[p].org = rule.org, rule.org \notin {None, id.org}
    PROVE  Alike(a, UpsertAt(a, rule, P), id)
<1> DEFINE b == UpsertAt(a, rule, P)
           e == [p \in Own(a, id) |-> p]
<1>0. Len(a) \in Nat /\ DOMAIN a = 1 .. Len(a) BY LenProperties
<1>1. ~InForce(rule, id) BY DEF InForce, OrgRuleApplies
<1>2. Own(b, id) = Own(a, id) /\ \A p \in Own(a, id) : b[p] = a[p]
  <2>1. CASE P = {}
    <3>1. b = Append(a, rule) BY <2>1 DEF UpsertAt
    <3>2. a \in Seq(S \cup {rule}) BY SeqMonotonic
    <3>3. /\ DOMAIN b = 1 .. Len(a) + 1 /\ b[Len(a) + 1] = rule
          /\ \A i \in 1 .. Len(a) : b[i] = a[i]
      <4>1. b \in Seq(S \cup {rule}) /\ Len(b) = Len(a) + 1 BY <3>1, <3>2, AppendProperties
      <4>2. DOMAIN b = 1 .. Len(b) BY <4>1, LenProperties
      <4>3. b[Len(a) + 1] = rule /\ \A i \in 1 .. Len(a) : b[i] = a[i] BY <3>1, <3>2, AppendProperties
      <4> QED BY <4>1, <4>2, <4>3
    <3> HIDE DEF b
    <3>4. \A i \in DOMAIN b : i \in DOMAIN a \/ i = Len(a) + 1 BY <1>0, <3>3
    <3>5. \A i \in DOMAIN a : i \in DOMAIN b BY <1>0, <3>3
    <3> QED BY <1>0, <1>1, <3>3, <3>4, <3>5 DEF Own
  <2>2. CASE P # {}
    <3> DEFINE first == CHOOSE i \in P : \A j \in P : i <= j
    <3>1. first \in P
      <4>1. P \in SUBSET Nat BY <1>0
      <4> QED BY <2>2, <4>1, LeastExists
    <3>2. b = a \/ b = [a EXCEPT ![first] = rule] BY <2>2 DEF UpsertAt
    <3>3. ~InForce(a[first], id) BY <3>1 DEF InForce, OrgRuleApplies
    <3> HIDE DEF b, first
    <3>4. CASE b = a BY <3>4
    <3>5. CASE b = [a EXCEPT ![first] = rule]
      <4>1. DOMAIN b = DOMAIN a /\ b[first] = rule /\ \A i \in DOMAIN a : i # first => b[i] = a[i]
        BY <3>1, <3>5
      <4> QED BY <1>1, <3>3, <4>1 DEF Own
    <3> QED BY <3>2, <3>4, <3>5
  <2> QED BY <2>1, <2>2
<1> HIDE DEF b
<1>3. e \in [Own(a, id) -> Own(b, id)] BY <1>2
<1>4. /\ \A p \in Own(a, id) : b[e[p]] = a[p]
      /\ \A p, q \in Own(a, id) : p < q => e[p] < e[q]
      /\ \A q \in Own(b, id) : \E p \in Own(a, id) : e[p] = q
  BY <1>2
<1>5. Alike(a, b, id)
  <2> HIDE DEF e
  <2> QED BY <1>3, <1>4 DEF Alike
<1> QED BY <1>5 DEF b

\* Rules of another tenant are taken out, and the others close up.
LEMMA RetainAlike ==
    ASSUME NEW S, NEW a \in Seq(S), NEW id, NEW P \in SUBSET DOMAIN a,
           \A p \in P : a[p].org \notin {None, id.org}
    PROVE  Alike(a, Retain(a, DOMAIN a \ P), id)
<1> DEFINE K == DOMAIN a \ P
           b == Retain(a, K)
           N == Cardinality(K)
           at(p) == CHOOSE n \in 1 .. N : Nth(K, n) = p
           e == [p \in Own(a, id) |-> at(p)]
<1>0. K \in SUBSET DOMAIN a OBVIOUS
<1>1. /\ IsFiniteSet(K) /\ K \in SUBSET Nat /\ N \in Nat /\ DOMAIN b = 1 .. N
      /\ \A n \in 1 .. N : Nth(K, n) \in K /\ b[n] = a[Nth(K, n)]
  <2> HIDE DEF K
  <2> QED BY <1>0, RetainIsList
<1>2. Own(a, id) \in SUBSET K BY DEF Own, InForce, OrgRuleApplies
<1>3. \A p \in K : at(p) \in 1 .. N /\ Nth(K, at(p)) = p
  <2> HIDE DEF K
  <2> QED BY <1>1, NthEnumerates
<1>4. \A n, m \in 1 .. N : n < m <=> Nth(K, n) < Nth(K, m)
  <2> HIDE DEF K
  <2> QED BY <1>1, NthEnumerates
<1> HIDE DEF b, at, N
<1>5. \A p \in Own(a, id) : e[p] \in Own(b, id) /\ b[e[p]] = a[p]
  <2> SUFFICES ASSUME NEW p \in Own(a, id) PROVE at(p) \in Own(b, id) /\ b[at(p)] = a[p]
    OBVIOUS
  <2>1. at(p) \in 1 .. N /\ Nth(K, at(p)) = p BY <1>2, <1>3
  <2>2. b[at(p)] = a[p] BY <1>1, <2>1
  <2> QED BY <1>1, <2>1, <2>2 DEF Own
<1>6. \A p, q \in Own(a, id) : p < q => e[p] < e[q]
  <2> SUFFICES ASSUME NEW p \in Own(a, id), NEW q \in Own(a, id), p < q PROVE at(p) < at(q)
    OBVIOUS
  <2>1. at(p) \in 1 .. N /\ Nth(K, at(p)) = p /\ at(q) \in 1 .. N /\ Nth(K, at(q)) = q BY <1>2, <1>3
  <2> HIDE DEF K
  <2> QED BY <1>4, <2>1
<1>7. \A n \in Own(b, id) : \E p \in Own(a, id) : e[p] = n
  <2> SUFFICES ASSUME NEW n \in Own(b, id) PROVE \E p \in Own(a, id) : at(p) = n
    OBVIOUS
  <2>1. n \in 1 .. N BY <1>1 DEF Own
  <2> DEFINE p == Nth(K, n)
  <2>2. p \in K /\ b[n] = a[p] BY <1>1, <2>1
  <2>3. p \in Own(a, id) BY <2>2 DEF Own
  <2>4. at(p) \in 1 .. N /\ Nth(K, at(p)) = p BY <1>3, <2>2
  <2>5. at(p) = n
    <3>1. ~(at(p) < n) /\ ~(n < at(p))
      <4>1. p \in Nat BY <1>1, <2>2
      <4>2. ~(p < p) BY <4>1
      <4> HIDE DEF K
      <4> QED BY <1>4, <2>1, <2>4, <4>2
    <3> HIDE DEF p
    <3> QED BY <1>1, <2>1, <2>4, <3>1
  <2> QED BY <2>3, <2>5
<1>8. e \in [Own(a, id) -> Own(b, id)] BY <1>5
<1>9. Alike(a, b, id)
  <2> HIDE DEF e
  <2> QED BY <1>5, <1>6, <1>7, <1>8 DEF Alike
<1> QED BY <1>9 DEF b

-----------------------------------------------------------------------------
(* The store.                                                              *)

\* Both kinds of rules are kept in lists.
Lists == \E M, F, g : store \in [masks : Seq(M), filters : Seq(F), governance : {g}]

LEMMA UpsertIsList ==
    ASSUME NEW S, NEW a \in Seq(S), NEW rule, NEW P \in SUBSET DOMAIN a
    PROVE  UpsertAt(a, rule, P) \in Seq(S \cup {rule})
<1>0. Len(a) \in Nat /\ DOMAIN a = 1 .. Len(a) /\ a \in Seq(S \cup {rule}) BY LenProperties, SeqMonotonic
<1>1. CASE P = {}
  <2>1. Append(a, rule) \in Seq(S \cup {rule}) BY <1>0, AppendProperties
  <2> QED BY <1>1, <2>1 DEF UpsertAt
<1>2. CASE P # {}
  <2> DEFINE first == CHOOSE i \in P : \A j \in P : i <= j
  <2>1. first \in P
    <3>1. P \in SUBSET Nat BY <1>0
    <3> QED BY <1>2, <3>1, LeastExists
  <2>2. UpsertAt(a, rule, P) = a \/ UpsertAt(a, rule, P) = [a EXCEPT ![first] = rule] BY <1>2 DEF UpsertAt
  <2> HIDE DEF first
  <2>3. [a EXCEPT ![first] = rule] \in Seq(S \cup {rule}) BY <1>0, <2>1, ExceptSeq
  <2> QED BY <1>0, <2>2, <2>3
<1> QED BY <1>1, <1>2

\* A step changes one of the two lists, or nothing.
LEMMA StoreSteps ==
    ASSUME Lists, StoreNext
    PROVE  \/ UNCHANGED store
           \/ /\ MasksBuild(store'.masks) /\ FiltersBuild(store'.filters)
              /\ \/ \E m \in TenantMasks :
                       /\ \/ store'.masks = UpsertAt(store.masks, m, SameMask(m))
                          \/ store'.masks = Retain(store.masks, DOMAIN store.masks \ SameMask(m))
                       /\ store' = [store EXCEPT !.masks = store'.masks]
                 \/ \E f \in TenantFilters :
                       /\ \/ store'.filters = UpsertAt(store.filters, f, SameFilter(f))
                          \/ store'.filters = Retain(store.filters, DOMAIN store.filters \ SameFilter(f))
                       /\ store' = [store EXCEPT !.filters = store'.filters]
<1>0. PICK M, F, g : store \in [masks : Seq(M), filters : Seq(F), governance : {g}] BY DEF Lists
<1>1. ASSUME NEW x, Publish([store EXCEPT !.masks = x])
      PROVE  \/ UNCHANGED store
             \/ /\ MasksBuild(store'.masks) /\ FiltersBuild(store'.filters)
                /\ store'.masks = x /\ store' = [store EXCEPT !.masks = store'.masks]
  BY <1>0, <1>1 DEF Publish
<1>2. ASSUME NEW x, Publish([store EXCEPT !.filters = x])
      PROVE  \/ UNCHANGED store
             \/ /\ MasksBuild(store'.masks) /\ FiltersBuild(store'.filters)
                /\ store'.filters = x /\ store' = [store EXCEPT !.filters = store'.filters]
  BY <1>0, <1>2 DEF Publish
<1>3. ASSUME NEW m \in TenantMasks, CreateMask(m)
      PROVE  Publish([store EXCEPT !.masks = UpsertAt(store.masks, m, SameMask(m))])
  BY <1>3 DEF CreateMask
<1>4. ASSUME NEW m \in TenantMasks, DropMask(m)
      PROVE  Publish([store EXCEPT !.masks = Retain(store.masks, DOMAIN store.masks \ SameMask(m))])
  BY <1>4 DEF DropMask
<1>5. ASSUME NEW f \in TenantFilters, CreateFilter(f)
      PROVE  Publish([store EXCEPT !.filters = UpsertAt(store.filters, f, SameFilter(f))])
  BY <1>5 DEF CreateFilter
<1>6. ASSUME NEW f \in TenantFilters, DropFilter(f)
      PROVE  Publish([store EXCEPT !.filters = Retain(store.filters, DOMAIN store.filters \ SameFilter(f))])
  BY <1>6 DEF DropFilter
<1>7. ASSUME NEW m \in TenantMasks, CreateMask(m) \/ DropMask(m)
      PROVE  \/ UNCHANGED store
             \/ /\ MasksBuild(store'.masks) /\ FiltersBuild(store'.filters)
                /\ \/ store'.masks = UpsertAt(store.masks, m, SameMask(m))
                   \/ store'.masks = Retain(store.masks, DOMAIN store.masks \ SameMask(m))
                /\ store' = [store EXCEPT !.masks = store'.masks]
  BY <1>1, <1>3, <1>4, <1>7
<1>8. ASSUME NEW f \in TenantFilters, CreateFilter(f) \/ DropFilter(f)
      PROVE  \/ UNCHANGED store
             \/ /\ MasksBuild(store'.masks) /\ FiltersBuild(store'.filters)
                /\ \/ store'.filters = UpsertAt(store.filters, f, SameFilter(f))
                   \/ store'.filters = Retain(store.filters, DOMAIN store.filters \ SameFilter(f))
                /\ store' = [store EXCEPT !.filters = store'.filters]
  BY <1>2, <1>5, <1>6, <1>8
<1>9. \/ \E m \in TenantMasks : CreateMask(m) \/ DropMask(m)
      \/ \E f \in TenantFilters : CreateFilter(f) \/ DropFilter(f)
  BY DEF StoreNext
<1> QED BY <1>7, <1>8, <1>9

LEMMA ListsKept == Lists /\ [StoreNext]_store => Lists'
<1> SUFFICES ASSUME Lists, [StoreNext]_store PROVE Lists'
  OBVIOUS
<1>0. PICK M, F, g : store \in [masks : Seq(M), filters : Seq(F), governance : {g}] BY DEF Lists
<1>1. CASE UNCHANGED store BY <1>1 DEF Lists
<1>2. ASSUME NEW m, \/ store'.masks = UpsertAt(store.masks, m, SameMask(m))
                    \/ store'.masks = Retain(store.masks, DOMAIN store.masks \ SameMask(m)),
             store' = [store EXCEPT !.masks = store'.masks]
      PROVE  Lists'
  <2>1. store.masks \in Seq(M) BY <1>0
  <2>2. SameMask(m) \in SUBSET DOMAIN store.masks BY DEF SameMask
  <2>3. UpsertAt(store.masks, m, SameMask(m)) \in Seq(M \cup {m}) BY <2>1, <2>2, UpsertIsList
  <2>4. Retain(store.masks, DOMAIN store.masks \ SameMask(m)) \in Seq(M) BY <2>1, RetainIsList
  <2>5. store'.masks \in Seq(M \cup {m}) BY <1>2, <2>3, <2>4, SeqMonotonic
  <2>6. store' \in [masks : Seq(M \cup {m}), filters : Seq(F), governance : {g}] BY <1>0, <1>2, <2>5
  <2> QED BY <2>6 DEF Lists
<1>3. ASSUME NEW f, \/ store'.filters = UpsertAt(store.filters, f, SameFilter(f))
                    \/ store'.filters = Retain(store.filters, DOMAIN store.filters \ SameFilter(f)),
             store' = [store EXCEPT !.filters = store'.filters]
      PROVE  Lists'
  <2>1. store.filters \in Seq(F) BY <1>0
  <2>2. SameFilter(f) \in SUBSET DOMAIN store.filters BY DEF SameFilter
  <2>3. UpsertAt(store.filters, f, SameFilter(f)) \in Seq(F \cup {f}) BY <2>1, <2>2, UpsertIsList
  <2>4. Retain(store.filters, DOMAIN store.filters \ SameFilter(f)) \in Seq(F) BY <2>1, RetainIsList
  <2>5. store'.filters \in Seq(F \cup {f}) BY <1>3, <2>3, <2>4, SeqMonotonic
  <2>6. store' \in [masks : Seq(M), filters : Seq(F \cup {f}), governance : {g}] BY <1>0, <1>3, <2>5
  <2> QED BY <2>6 DEF Lists
<1> QED BY <1>1, <1>2, <1>3, StoreSteps

\* Two rules of one scope on one target are refused, so a rule that an upsert
\* puts into a list was not there before.
LEMMA UpsertIsNew ==
    ASSUME NEW S, NEW a \in Seq(S), NEW rule, NEW P \in SUBSET DOMAIN a,
           \A p \in DOMAIN a : a[p] = rule => p \in P,
           UpsertAt(a, rule, P) # a,
           \A i, j \in DOMAIN UpsertAt(a, rule, P) :
               UpsertAt(a, rule, P)[i] = rule /\ UpsertAt(a, rule, P)[j] = rule => i = j
    PROVE  rule \in Range(UpsertAt(a, rule, P)) /\ rule \notin Range(a)
<1> DEFINE b == UpsertAt(a, rule, P)
<1>0. Len(a) \in Nat /\ DOMAIN a = 1 .. Len(a) /\ a \in Seq(S \cup {rule}) BY LenProperties, SeqMonotonic
<1>1. CASE P = {}
  <2>1. b = Append(a, rule) BY <1>1 DEF UpsertAt
  <2>2. b \in Seq(S \cup {rule}) /\ Len(b) = Len(a) + 1 /\ b[Len(a) + 1] = rule
    <3> HIDE DEF b
    <3>1. rule \in S \cup {rule} OBVIOUS
    <3> QED BY <1>0, <2>1, <3>1, AppendProperties
  <2>3. Len(a) + 1 \in DOMAIN b
    <3>1. DOMAIN b = 1 .. Len(b) BY <2>2, LenProperties
    <3> HIDE DEF b
    <3> QED BY <1>0, <2>2, <3>1
  <2>4. rule \in Range(b) BY <2>2, <2>3 DEF Range
  <2>5. rule \notin Range(a) BY <1>1 DEF Range
  <2> QED BY <2>4, <2>5
<1>2. CASE P # {}
  <2> DEFINE first == CHOOSE i \in P : \A j \in P : i <= j
  <2>1. first \in P
    <3>1. P \in SUBSET Nat BY <1>0
    <3> QED BY <1>2, <3>1, LeastExists
  <2>2. a[first].body # rule.body /\ b = [a EXCEPT ![first] = rule]
    <3>1. b = IF a[first].body = rule.body THEN a ELSE [a EXCEPT ![first] = rule] BY <1>2 DEF UpsertAt
    <3>2. b # a OBVIOUS
    <3> HIDE DEF b, first
    <3> QED BY <3>1, <3>2
  <2> HIDE DEF first, b
  <2>3. DOMAIN b = DOMAIN a /\ b[first] = rule /\ \A i \in DOMAIN a : i # first => b[i] = a[i] BY <2>1, <2>2
  <2>4. \A i, j \in DOMAIN b : b[i] = rule /\ b[j] = rule => i = j BY DEF b
  <2>5. a[first] # rule BY <2>2
  <2>6. \A i \in DOMAIN a : a[i] # rule BY <2>1, <2>3, <2>4, <2>5
  <2>7. rule \in Range(b) /\ rule \notin Range(a) BY <2>1, <2>3, <2>6 DEF Range
  <2> QED BY <2>7 DEF b
<1> QED BY <1>1, <1>2

\* A rule that a drop takes out of a list is nowhere in it afterwards.
LEMMA RetainIsGone ==
    ASSUME NEW S, NEW a \in Seq(S), NEW P \in SUBSET DOMAIN a, NEW p \in P,
           \A q \in DOMAIN a : a[q] = a[p] => q \in P
    PROVE  a[p] \in Range(a) /\ a[p] \notin Range(Retain(a, DOMAIN a \ P))
<1> DEFINE K == DOMAIN a \ P
<1>1. /\ DOMAIN Retain(a, K) = 1 .. Cardinality(K)
      /\ \A n \in 1 .. Cardinality(K) : Nth(K, n) \in K /\ Retain(a, K)[n] = a[Nth(K, n)]
  <2>1. K \in SUBSET DOMAIN a OBVIOUS
  <2> HIDE DEF K
  <2> QED BY <2>1, RetainIsList
<1>2. \A q \in K : a[q] # a[p] OBVIOUS
<1> HIDE DEF K
<1>3. \A n \in DOMAIN Retain(a, K) : Retain(a, K)[n] # a[p] BY <1>1, <1>2
<1>4. a[p] \in Range(a) BY DEF Range
<1>5. a[p] \notin Range(Retain(a, K)) BY <1>3 DEF Range
<1> QED BY <1>4, <1>5 DEF K

\* A change that concerns only rules of other organisations leaves both lists
\* as they were for an identity.
LEMMA ChangeAlike ==
    ASSUME Lists, StoreNext, NEW id, \A x \in Changed : x.org \notin {None, id.org}
    PROVE  Alike(store.masks, store'.masks, id) /\ Alike(store.filters, store'.filters, id)
<1>0. PICK M, F, g : store \in [masks : Seq(M), filters : Seq(F), governance : {g}] BY DEF Lists
<1>1. CASE UNCHANGED store BY <1>1, AlikeSame
<1>2. ASSUME NEW m, MasksBuild(store'.masks), store' = [store EXCEPT !.masks = store'.masks],
             \/ store'.masks = UpsertAt(store.masks, m, SameMask(m))
             \/ store'.masks = Retain(store.masks, DOMAIN store.masks \ SameMask(m))
      PROVE  Alike(store.masks, store'.masks, id) /\ Alike(store.filters, store'.filters, id)
  <2> DEFINE a == store.masks
             b == store'.masks
             P == SameMask(m)
  <2>1. a \in Seq(M) /\ store'.filters = store.filters BY <1>0, <1>2
  <2>2. Alike(store.filters, store'.filters, id) BY <2>1, AlikeSame
  <2>3. P \in SUBSET DOMAIN a /\ \A p \in P : a[p].org = m.org BY DEF SameMask
  <2>4. \A x : x \in (Range(a) \ Range(b)) \cup (Range(b) \ Range(a)) => x.org \notin {None, id.org}
    BY DEF Changed
  <2>5. CASE b = UpsertAt(a, m, P) /\ b # a
    <3>1. \A p \in DOMAIN a : a[p] = m => p \in P BY DEF SameMask
    <3>2. \A i, j \in DOMAIN b : b[i] = m /\ b[j] = m => i = j BY <1>2 DEF MasksBuild, SameScope
    <3> HIDE DEF a, b, P
    <3>3. m \in Range(b) /\ m \notin Range(a) BY <2>1, <2>3, <2>5, <3>1, <3>2, UpsertIsNew
    <3>4. m.org \notin {None, id.org} BY <2>4, <3>3
    <3>5. Alike(a, b, id) BY <2>1, <2>3, <2>5, <3>4, UpsertAlike
    <3> QED BY <2>2, <3>5 DEF a, b
  <2>6. CASE b = Retain(a, DOMAIN a \ P)
    <3>1. ASSUME NEW p \in P PROVE a[p].org \notin {None, id.org}
      <4>1. \A q \in DOMAIN a : a[q] = a[p] => q \in P BY DEF SameMask
      <4> HIDE DEF a, b, P
      <4>2. a[p] \in Range(a) /\ a[p] \notin Range(b) BY <2>1, <2>3, <2>6, <4>1, RetainIsGone
      <4> QED BY <2>4, <4>2
    <3> HIDE DEF a, b, P
    <3>2. Alike(a, b, id) BY <2>1, <2>3, <2>6, <3>1, RetainAlike
    <3> QED BY <2>2, <3>2 DEF a, b
  <2>7. CASE b = a
    <3>1. Alike(a, a, id) BY AlikeSame
    <3> QED BY <2>2, <2>7, <3>1
  <2> QED BY <1>2, <2>5, <2>6, <2>7
<1>3. ASSUME NEW f, FiltersBuild(store'.filters), store' = [store EXCEPT !.filters = store'.filters],
             \/ store'.filters = UpsertAt(store.filters, f, SameFilter(f))
             \/ store'.filters = Retain(store.filters, DOMAIN store.filters \ SameFilter(f))
      PROVE  Alike(store.masks, store'.masks, id) /\ Alike(store.filters, store'.filters, id)
  <2> DEFINE a == store.filters
             b == store'.filters
             P == SameFilter(f)
  <2>1. a \in Seq(F) /\ store'.masks = store.masks BY <1>0, <1>3
  <2>2. Alike(store.masks, store'.masks, id) BY <2>1, AlikeSame
  <2>3. P \in SUBSET DOMAIN a /\ \A p \in P : a[p].org = f.org BY DEF SameFilter
  <2>4. \A x : x \in (Range(a) \ Range(b)) \cup (Range(b) \ Range(a)) => x.org \notin {None, id.org}
    BY DEF Changed
  <2>5. CASE b = UpsertAt(a, f, P) /\ b # a
    <3>1. \A p \in DOMAIN a : a[p] = f => p \in P BY DEF SameFilter
    <3>2. \A i, j \in DOMAIN b : b[i] = f /\ b[j] = f => i = j BY <1>3 DEF FiltersBuild, SameScope
    <3> HIDE DEF a, b, P
    <3>3. f \in Range(b) /\ f \notin Range(a) BY <2>1, <2>3, <2>5, <3>1, <3>2, UpsertIsNew
    <3>4. f.org \notin {None, id.org} BY <2>4, <3>3
    <3>5. Alike(a, b, id) BY <2>1, <2>3, <2>5, <3>4, UpsertAlike
    <3> QED BY <2>2, <3>5 DEF a, b
  <2>6. CASE b = Retain(a, DOMAIN a \ P)
    <3>1. ASSUME NEW p \in P PROVE a[p].org \notin {None, id.org}
      <4>1. \A q \in DOMAIN a : a[q] = a[p] => q \in P BY DEF SameFilter
      <4> HIDE DEF a, b, P
      <4>2. a[p] \in Range(a) /\ a[p] \notin Range(b) BY <2>1, <2>3, <2>6, <4>1, RetainIsGone
      <4> QED BY <2>4, <4>2
    <3> HIDE DEF a, b, P
    <3>2. Alike(a, b, id) BY <2>1, <2>3, <2>6, <3>1, RetainAlike
    <3> QED BY <2>2, <3>2 DEF a, b
  <2>7. CASE b = a
    <3>1. Alike(a, a, id) BY AlikeSame
    <3> QED BY <2>2, <2>7, <3>1
  <2> QED BY <1>3, <2>5, <2>6, <2>7
<1> QED BY <1>1, <1>2, <1>3, StoreSteps

\* The ways a reference may be meant are a list.
LEMMA CandidatesAreList ==
    ASSUME NEW rel \in References
    PROVE  IsCands(CandidateRefs(rel, Defaults))
<1> DEFINE full == IF Defaults = None THEN rel ELSE Upgrade(rel, Defaults)
<1>1. rel \in Seq(Range(rel)) BY ReferencesAreSequences
<1>2. Len(rel) \in Nat BY <1>1, LenProperties
<1>3. Len(full) \in Nat
  <2>1. CASE Defaults = None BY <1>2, <2>1
  <2>2. CASE Defaults # None
    <3> DEFINE S == Range(rel) \cup Range(Defaults) \cup {Defaults[1]}
    <3>1. Defaults \in Seq(Range(Defaults)) BY <2>2, ReferencesAreSequences
    <3>2. rel \in Seq(S) /\ Defaults \in Seq(S) /\ <<Defaults[1]>> \in Seq(S) BY <1>1, <3>1, SeqMonotonic
    <3> HIDE DEF S
    <3>3. Len(Defaults \o rel) \in Nat /\ Len(<<Defaults[1]>> \o rel) \in Nat
      BY <3>2, ConcatProperties, LenProperties
    <3> QED BY <1>2, <2>2, <3>3 DEF Upgrade
  <2> QED BY <2>1, <2>2
<1>4. DOMAIN CandidateRefs(rel, Defaults) = 1 .. Len(full) BY DEF CandidateRefs, MatchCandidates
<1> QED BY <1>3, <1>4 DEF IsCands

\* For any tenants, rules, references and identities: what a tenant creates or
\* drops changes neither the mask of any column nor the filters of any table
\* for the sessions of others.
THEOREM TenantsStayIsolated == StoreSpec => TenantIsolation
<1> DEFINE Isolated ==
        \A id \in {s.id : s \in Sessions}, rel \in References :
            (\A x \in Changed : x.org \notin {None, id.org}) =>
                /\ \A c \in Columns : Decides(store.masks, rel, c, id) = Decides(store'.masks, rel, c, id)
                /\ Predicates(store.filters, rel, id) = Predicates(store'.filters, rel, id)
<1>1. StoreInit => Lists
  BY DEF StoreInit, Lists
<1>2. Lists /\ Lists' /\ [StoreNext]_store => [Isolated]_store
  <2> SUFFICES ASSUME Lists, Lists', StoreNext, NEW id, NEW rel \in References,
                      \A x \in Changed : x.org \notin {None, id.org}
               PROVE  /\ \A c \in Columns : Decides(store.masks, rel, c, id) = Decides(store'.masks, rel, c, id)
                      /\ Predicates(store.filters, rel, id) = Predicates(store'.filters, rel, id)
    OBVIOUS
  <2>1. Alike(store.masks, store'.masks, id) /\ Alike(store.filters, store'.filters, id) BY ChangeAlike
  <2>2. DOMAIN store.masks \in SUBSET (Nat \ {0})
    <3>1. PICK M, F, g : store \in [masks : Seq(M), filters : Seq(F), governance : {g}] BY DEF Lists
    <3>2. store.masks \in Seq(M) BY <3>1
    <3>3. Len(store.masks) \in Nat /\ DOMAIN store.masks = 1 .. Len(store.masks) BY <3>2, LenProperties
    <3> QED BY <3>3
  <2>3. DOMAIN store'.masks \in SUBSET (Nat \ {0})
    <3>1. PICK M, F, g : store' \in [masks : Seq(M), filters : Seq(F), governance : {g}] BY DEF Lists
    <3>2. store'.masks \in Seq(M) BY <3>1
    <3>3. Len(store'.masks) \in Nat /\ DOMAIN store'.masks = 1 .. Len(store'.masks) BY <3>2, LenProperties
    <3> QED BY <3>3
  <2> QED BY <2>1, <2>2, <2>3, AlikeDecide, AlikeFilter, CandidatesAreList
<1>3. Lists /\ [StoreNext]_store => Lists'
  BY ListsKept
<1>4. TenantIsolation <=> [][Isolated]_store
  BY DEF TenantIsolation
<1> HIDE DEF Isolated
<1> QED BY <1>1, <1>2, <1>3, <1>4, PTL DEF StoreSpec

-----------------------------------------------------------------------------
(* The lookups go through the keys a reference may be registered under;    *)
(* what they find is what names the table.                                 *)

IsReference(rel) == rel \in Seq(Range(rel)) /\ Len(rel) \in 1 .. 3
IsDefaults(d) == d \in Seq(Range(d)) /\ Len(d) = 2

\* A completed reference ends with the reference.
LEMMA UpgradeKeepsSuffix ==
    ASSUME NEW rel, IsReference(rel), NEW d, IsDefaults(d)
    PROVE  /\ IsReference(Upgrade(rel, d)) /\ Len(Upgrade(rel, d)) = 3
           /\ \A i \in 1 .. Len(rel) : Upgrade(rel, d)[3 - Len(rel) + i] = rel[i]
<1> DEFINE S == Range(rel) \cup Range(d)
           n == Len(rel)
           pre == IF n = 1 THEN d ELSE IF n = 2 THEN <<d[1]>> ELSE <<>>
           full == pre \o rel
<1>1. rel \in Seq(S) /\ d \in Seq(S) /\ n \in 1 .. 3 /\ Len(d) = 2 BY SeqMonotonic DEF IsReference, IsDefaults
<1>2. pre \in Seq(S) /\ Len(pre) = 3 - n
  <2> HIDE DEF S, n
  <2>1. 1 \in 1 .. Len(d) BY <1>1
  <2>2. d[1] \in S BY <1>1, <2>1, ElementOfSeq
  <2>3. <<d[1]>> \in Seq(S) /\ Len(<<d[1]>>) = 1 /\ <<>> \in Seq(S) /\ Len(<<>>) = 0 BY <2>2
  <2>4. n = 1 \/ n = 2 \/ n = 3 BY <1>1
  <2>5. CASE n = 1
    <3>1. pre = d BY <2>5
    <3> QED BY <1>1, <2>5, <3>1
  <2>6. CASE n = 2
    <3>1. pre = <<d[1]>> BY <2>6
    <3> QED BY <2>3, <2>6, <3>1
  <2>7. CASE n = 3
    <3>1. pre = <<>> BY <2>7
    <3> QED BY <2>3, <2>7, <3>1
  <2> QED BY <2>4, <2>5, <2>6, <2>7
<1>3. Upgrade(rel, d) = full
  <2>1. CASE n = 1 BY <2>1 DEF Upgrade
  <2>2. CASE n = 2 BY <2>2 DEF Upgrade
  <2>3. CASE n = 3
    <3>1. <<>> \o rel = rel BY <1>1, ConcatEmptySeq
    <3> QED BY <2>3, <3>1 DEF Upgrade
  <2> QED BY <1>1, <2>1, <2>2, <2>3
<1> HIDE DEF pre, n
<1>4. /\ full \in Seq(S) /\ Len(full) = Len(pre) + n
      /\ \A i \in 1 .. Len(pre) + n : full[i] = IF i <= Len(pre) THEN pre[i] ELSE rel[i - Len(pre)]
  BY <1>1, <1>2, ConcatProperties DEF n
<1> HIDE DEF full
<1>5. Len(full) = 3 BY <1>1, <1>2, <1>4
<1>6. ASSUME NEW i \in 1 .. n PROVE full[3 - n + i] = rel[i]
  <2> DEFINE k == 3 - n + i
  <2>1. k \in 1 .. Len(pre) + n /\ ~(k <= Len(pre)) /\ k - Len(pre) = i BY <1>1, <1>2
  <2> HIDE DEF k
  <2>2. full[k] = rel[k - Len(pre)] BY <1>4, <2>1
  <2> QED BY <2>1, <2>2 DEF k
<1>7. full \in Seq(Range(full))
  BY <1>4, SeqOfRange
<1> QED BY <1>3, <1>5, <1>6, <1>7 DEF IsReference, n

\* The ends of a reference, and of the table it stands for.
LEMMA Suffixes ==
    ASSUME NEW r, IsReference(r), NEW i \in 1 .. Len(r)
    PROVE  /\ SubSeq(r, i, Len(r)) \in Seq(Range(r)) /\ Len(SubSeq(r, i, Len(r))) = Len(r) - i + 1
           /\ \A k \in 1 .. Len(r) - i + 1 : SubSeq(r, i, Len(r))[k] = r[i + k - 1]
<1>1. r \in Seq(Range(r)) /\ Len(r) \in 1 .. 3 BY DEF IsReference
<1>2. \A k \in i .. Len(r) : r[k] \in Range(r)
  <2>1. \A k \in 1 .. Len(r) : r[k] \in Range(r) BY <1>1, ElementOfSeq
  <2> QED BY <1>1, <2>1
<1>3. i \in Int /\ Len(r) \in Int /\ i <= Len(r) BY <1>1
<1> QED BY <1>2, <1>3, SubSeqProperties

LEMMA SuffixOfUpgrade ==
    ASSUME NEW rel, IsReference(rel), NEW d, IsDefaults(d), NEW i \in 1 .. Len(rel)
    PROVE  SubSeq(rel, i, Len(rel)) = SubSeq(Upgrade(rel, d), 3 - Len(rel) + i, 3)
<1> DEFINE full == Upgrade(rel, d)
           n == Len(rel)
           j == 3 - n + i
           a == SubSeq(rel, i, n)
           b == SubSeq(full, j, 3)
           S == Range(rel) \cup Range(full)
<1>1. IsReference(full) /\ Len(full) = 3 /\ \A k \in 1 .. n : full[3 - n + k] = rel[k] BY UpgradeKeepsSuffix
<1> HIDE DEF full
<1>2. n \in 1 .. 3 /\ j \in 1 .. 3
  <2>1. n \in 1 .. 3 /\ i \in 1 .. n BY DEF IsReference
  <2> HIDE DEF n
  <2> QED BY <2>1
<1>3. a \in Seq(Range(rel)) /\ Len(a) = n - i + 1 /\ \A k \in 1 .. n - i + 1 : a[k] = rel[i + k - 1] BY Suffixes
<1>4. b \in Seq(Range(full)) /\ Len(b) = 3 - j + 1 /\ \A k \in 1 .. 3 - j + 1 : b[k] = full[j + k - 1]
  <2> HIDE DEF j
  <2>1. j \in 1 .. Len(full) BY <1>1, <1>2
  <2>2. /\ SubSeq(full, j, Len(full)) \in Seq(Range(full)) /\ Len(SubSeq(full, j, Len(full))) = Len(full) - j + 1
        /\ \A k \in 1 .. Len(full) - j + 1 : SubSeq(full, j, Len(full))[k] = full[j + k - 1]
    <3>1. IsReference(full) BY <1>1
    <3> QED BY ONLY <2>1, <3>1, Suffixes
  <2> QED BY <1>1, <2>2
<1> HIDE DEF a, b
<1>5. Len(a) = Len(b) BY <1>2, <1>3, <1>4
<1>6. ASSUME NEW k \in 1 .. Len(a) PROVE a[k] = b[k]
  <2>1. k \in 1 .. n - i + 1 /\ k \in 1 .. 3 - j + 1 /\ i + k - 1 \in 1 .. n /\ j + k - 1 = 3 - n + (i + k - 1)
    BY <1>2, <1>3
  <2>2. a[k] = rel[i + k - 1] BY <1>3, <2>1
  <2>3. b[k] = full[j + k - 1] BY <1>4, <2>1
  <2>4. full[3 - n + (i + k - 1)] = rel[i + k - 1] BY <1>1, <2>1
  <2> QED BY <2>1, <2>2, <2>3, <2>4
<1>7. a \in Seq(S) /\ b \in Seq(S) BY <1>3, <1>4, SeqMonotonic
<1>8. a = b BY <1>5, <1>6, <1>7, SeqEqual
<1> QED BY <1>8 DEF a, b, full

\* A rule's table is one of the keys of a reference if it names the reference's
\* table and has no more parts than the reference.
LEMMA KeysName ==
    ASSUME NEW rel, IsReference(rel), NEW d, IsDefaults(d), NEW table
    PROVE  (\E i \in 1 .. Len(rel) : table = SubSeq(rel, i, Len(rel)))
           <=> Names(table, Upgrade(rel, d)) /\ Len(table) <= Len(rel)
<1> DEFINE full == Upgrade(rel, d)
           n == Len(rel)
<1>0. n \in 1 .. 3 BY DEF IsReference
<1>1. IsReference(full) /\ Len(full) = 3 BY UpgradeKeepsSuffix
<1>2. ASSUME NEW i \in 1 .. n, table = SubSeq(rel, i, n) PROVE Names(table, full) /\ Len(table) <= n
  <2>1. table = SubSeq(full, 3 - n + i, 3) BY <1>2, SuffixOfUpgrade
  <2>2. 3 - n + i \in 1 .. 3
    <3>1. i \in 1 .. n OBVIOUS
    <3> HIDE DEF n
    <3> QED BY ONLY <1>0, <3>1
  <2>3. Len(table) = n - i + 1 BY <1>2, Suffixes
  <2>4. Len(table) <= n BY <1>0, <2>3
  <2> HIDE DEF full
  <2> QED BY <2>1, <2>2, <2>4 DEF Names
<1>3. ASSUME Names(table, full), Len(table) <= n PROVE \E i \in 1 .. n : table = SubSeq(rel, i, n)
  <2>1. PICK j \in 1 .. 3 : table = SubSeq(full, j, 3) BY <1>3 DEF Names
  <2>2. Len(table) = 3 - j + 1
    <3> HIDE DEF full
    <3>1. j \in 1 .. Len(full) BY <1>1
    <3>2. Len(SubSeq(full, j, Len(full))) = Len(full) - j + 1 BY <1>1, <3>1, Suffixes
    <3> QED BY <1>1, <2>1, <3>2
  <2> DEFINE i == j - 3 + n
  <2>3. i \in 1 .. n /\ 3 - n + i = j BY <1>0, <1>3, <2>2
  <2> HIDE DEF i
  <2>4. SubSeq(rel, i, n) = SubSeq(full, 3 - n + i, 3) BY <2>3, SuffixOfUpgrade
  <2> QED BY <2>1, <2>3, <2>4
<1> QED BY <1>2, <1>3

LEMMA PlaceFound ==
    ASSUME NEW r, IsReference(r), NEW table
    PROVE  PlaceOf(table, MatchCandidates(r)) # 0 <=> \E i \in 1 .. Len(r) : table = SubSeq(r, i, Len(r))
<1> DEFINE cands == MatchCandidates(r)
           I == {i \in DOMAIN cands : cands[i] = table}
<1>1. Len(r) \in Nat BY DEF IsReference
<1>2. DOMAIN cands = 1 .. Len(r) /\ \A i \in 1 .. Len(r) : cands[i] = SubSeq(r, i, Len(r)) BY DEF MatchCandidates
<1> HIDE DEF cands
<1>3. CASE I = {}
  <2>1. PlaceOf(table, cands) = 0 BY <1>3 DEF PlaceOf
  <2> QED BY <1>2, <1>3, <2>1 DEF cands
<1>4. CASE I # {}
  <2>1. I \in SUBSET Nat BY <1>1, <1>2
  <2>2. PICK i \in I : \A j \in I : i <= j BY <1>4, <2>1, LeastExists
  <2>3. i \in 1 .. Len(r) /\ i \in DOMAIN cands /\ cands[i] = table BY <1>2, <2>2
  <2>4. ASSUME NEW j \in 1 .. (i - 1) PROVE cands[j] # table
    <3>1. j \in 1 .. Len(r) /\ ~(i <= j) BY <1>1, <2>3
    <3> QED BY <1>2, <2>2, <3>1
  <2>5. \E k \in DOMAIN cands : cands[k] = table /\ \A j \in 1 .. (k - 1) : cands[j] # table BY <2>3, <2>4
  <2>6. PlaceOf(table, cands) \in DOMAIN cands BY <2>5 DEF PlaceOf
  <2>7. PlaceOf(table, cands) # 0 BY <1>1, <1>2, <2>6
  <2> QED BY <1>2, <2>3, <2>7 DEF cands
<1> QED BY <1>3, <1>4

\* What the enforcers find for a reference, however it is written, is what
\* names its table: a column is shown only if no mask in force names its table
\* (the lookup completes the reference with the server's defaults); a denial
\* matches, and a whitelist counts, if it names the table with no more parts
\* than the reference has, whatever the session's own defaults are.
THEOREM LookupsFindWhatNames ==
    ASSUME NEW rel, IsReference(rel), Defaults # None, IsDefaults(Defaults), NEW own, IsDefaults(own), NEW id
    PROVE  /\ \A masks, c : DOMAIN masks \in SUBSET (Nat \ {0}) =>
                 (LookupMask(masks, CandidateRefs(rel, Defaults), c, id) = 0
                  <=> ~\E p \in DOMAIN masks : /\ masks[p].column = c /\ InForce(masks[p], id)
                                               /\ Names(masks[p].table, Upgrade(rel, Defaults)))
           /\ \A d : TableMatches(d, rel) <=> Names(d.table, Upgrade(rel, own)) /\ Len(d.table) <= Len(rel)
           /\ \A ws : LET due == {p \in DOMAIN ws : /\ Names(ws[p].table, Upgrade(rel, own))
                                                   /\ Len(ws[p].table) <= Len(rel) /\ InForce(ws[p], id)}
                      IN  VisibleColumns(ws, MatchCandidates(rel), id)
                            = IF due = {} THEN None ELSE UNION {ws[p].columns : p \in due}
<1>1. ASSUME NEW masks, NEW c, DOMAIN masks \in SUBSET (Nat \ {0})
      PROVE  LookupMask(masks, CandidateRefs(rel, Defaults), c, id) = 0
             <=> ~\E p \in DOMAIN masks : /\ masks[p].column = c /\ InForce(masks[p], id)
                                          /\ Names(masks[p].table, Upgrade(rel, Defaults))
  <2> DEFINE full == Upgrade(rel, Defaults)
             cands == MatchCandidates(full)
             C == Contenders(masks, cands, c, id)
  <2>1. IsReference(full) /\ Len(full) = 3 BY UpgradeKeepsSuffix
  <2>2. CandidateRefs(rel, Defaults) = cands BY DEF CandidateRefs
  <2> HIDE DEF full
  <2>3. \A t : PlaceOf(t, cands) # 0 <=> Names(t, full) BY <2>1, PlaceFound DEF Names
  <2>4. C = {p \in DOMAIN masks : /\ masks[p].column = c /\ Names(masks[p].table, full) /\ InForce(masks[p], id)}
    BY <2>3 DEF Contenders
  <2>5. IsCands(cands)
    <3>1. DOMAIN cands = 1 .. Len(full) /\ Len(full) \in Nat BY <2>1 DEF MatchCandidates
    <3> HIDE DEF cands
    <3> QED BY <3>1 DEF IsCands
  <2>6. C # {} => LookupMask(masks, cands, c, id) \in C
    <3> SUFFICES ASSUME C # {} PROVE LookupMask(masks, cands, c, id) \in C
      OBVIOUS
    <3>1. C \in SUBSET Nat BY <1>1 DEF Contenders
    <3> HIDE DEF cands, C
    <3>2. \E p \in C : \A q \in C : Beats(masks, cands, p, q) BY <2>5, <3>1, BestExists
    <3> QED BY <3>2 DEF LookupMask, C
  <2>7. C = {} => LookupMask(masks, cands, c, id) = 0 BY DEF LookupMask
  <2>8. 0 \notin C BY <1>1 DEF Contenders
  <2>9. LookupMask(masks, cands, c, id) = 0 <=> C = {}
    <3> HIDE DEF C, cands
    <3> QED BY <2>6, <2>7, <2>8
  <2> QED BY <2>2, <2>4, <2>9 DEF full
<1>2. ASSUME NEW t
      PROVE  PlaceOf(t, MatchCandidates(rel)) # 0 <=> Names(t, Upgrade(rel, own)) /\ Len(t) <= Len(rel)
  BY PlaceFound, KeysName
<1>3. \A d : TableMatches(d, rel) <=> Names(d.table, Upgrade(rel, own)) /\ Len(d.table) <= Len(rel)
  BY <1>2 DEF TableMatches
<1>4. ASSUME NEW ws
      PROVE  LET due == {p \in DOMAIN ws : /\ Names(ws[p].table, Upgrade(rel, own))
                                          /\ Len(ws[p].table) <= Len(rel) /\ InForce(ws[p], id)}
             IN  VisibleColumns(ws, MatchCandidates(rel), id)
                   = IF due = {} THEN None ELSE UNION {ws[p].columns : p \in due}
  <2> DEFINE due == {p \in DOMAIN ws : /\ Names(ws[p].table, Upgrade(rel, own))
                                      /\ Len(ws[p].table) <= Len(rel) /\ InForce(ws[p], id)}
             inForce == {p \in DOMAIN ws : PlaceOf(ws[p].table, MatchCandidates(rel)) # 0 /\ InForce(ws[p], id)}
  <2>1. inForce = due BY <1>2
  <2>2. VisibleColumns(ws, MatchCandidates(rel), id)
          = IF inForce = {} THEN None ELSE UNION {ws[p].columns : p \in inForce}
    BY DEF VisibleColumns
  <2> HIDE DEF due, inForce
  <2>3. VisibleColumns(ws, MatchCandidates(rel), id) = IF due = {} THEN None ELSE UNION {ws[p].columns : p \in due}
    BY <2>1, <2>2
  <2> QED BY <2>3 DEF due
<1> QED BY <1>1, <1>3, <1>4

\* The filters in force on a table, of the identity's tenant or of the operator.
OfTier(filters, full, tenant, id) ==
    {f \in Range(filters) : Names(f.table, full) /\ InForce(f, id) /\ (f.org # None) = tenant}

\* The first key with filters has the most specific ones.
LEMMA TierIsMostSpecific ==
    ASSUME NEW S, NEW filters \in Seq(S), NEW rel, IsReference(rel), NEW own, IsDefaults(own), NEW id,
           NEW tenant \in BOOLEAN,
           \A f \in Range(filters) : Names(f.table, Upgrade(rel, own)) /\ InForce(f, id) => Len(f.table) <= Len(rel)
    PROVE  LET F == OfTier(filters, Upgrade(rel, own), tenant, id)
           IN  /\ Tier(filters, rel, tenant, id) = {} <=> F = {}
               /\ {filters[p] : p \in Tier(filters, rel, tenant, id)}
                    = {f \in F : \A g \in F : Len(g.table) <= Len(f.table)}
<1> DEFINE n == Len(rel)
           full == Upgrade(rel, own)
           cands == MatchCandidates(rel)
           F == OfTier(filters, full, tenant, id)
           At(i) == TierAt(filters, cands[i], tenant, id)
           hit == {i \in 1 .. n : At(i) # {}}
           T == Tier(filters, rel, tenant, id)
           best == {f \in F : \A g \in F : Len(g.table) <= Len(f.table)}
<1>0. n \in 1 .. 3 BY DEF IsReference
<1>1. DOMAIN cands = 1 .. n /\ \A i \in 1 .. n : cands[i] = SubSeq(rel, i, n) BY DEF MatchCandidates
<1>2. \A i \in 1 .. n : Len(cands[i]) = n - i + 1 BY <1>1, Suffixes
<1>3. ASSUME NEW f \in F PROVE \E i \in 1 .. n : \E p \in At(i) : f = filters[p] /\ f.table = cands[i]
  <2>1. f \in Range(filters) /\ Names(f.table, full) /\ InForce(f, id) /\ (f.org # None) = tenant BY DEF OfTier
  <2>2. PICK p \in DOMAIN filters : f = filters[p] BY <2>1 DEF Range
  <2>3. PICK i \in 1 .. n : f.table = SubSeq(rel, i, n) BY <2>1, KeysName
  <2>4. f.table = cands[i] BY <1>1, <2>3
  <2>5. p \in At(i) BY <2>1, <2>2, <2>4 DEF TierAt
  <2> QED BY <2>2, <2>4, <2>5
<1>4. ASSUME NEW i \in 1 .. n, NEW p \in At(i) PROVE filters[p] \in F /\ filters[p].table = cands[i]
  <2>1. /\ p \in DOMAIN filters /\ filters[p].table = cands[i]
        /\ (filters[p].org # None) = tenant /\ InForce(filters[p], id)
    BY DEF TierAt
  <2>2. Names(filters[p].table, full) BY <1>1, <2>1, KeysName
  <2>3. filters[p] \in Range(filters) BY <2>1 DEF Range
  <2> QED BY <2>1, <2>2, <2>3 DEF OfTier
<1>5. T = IF hit = {} THEN {} ELSE At(CHOOSE i \in hit : \A j \in hit : i <= j) BY <1>1 DEF Tier
<1> HIDE DEF n, full, cands, F, At, T
<1>6. hit = {} <=> F = {} BY <1>3, <1>4
<1>7. CASE hit = {} BY <1>5, <1>6, <1>7 DEF T, F, full
<1>8. CASE hit # {}
  <2>1. hit \in SUBSET Nat BY <1>0
  <2>2. PICK k \in hit : T = At(k) /\ \A j \in hit : k <= j
    <3>1. \E i \in hit : \A j \in hit : i <= j BY <1>8, <2>1, LeastExists
    <3> HIDE DEF hit
    <3> QED BY <1>5, <1>8, <3>1
  <2>3. k \in 1 .. n /\ At(k) # {} BY <2>2
  <2>4. ASSUME NEW g \in F PROVE Len(g.table) <= n - k + 1
    <3>1. PICK j \in 1 .. n : \E p \in At(j) : g = filters[p] /\ g.table = cands[j] BY <1>3
    <3>2. j \in hit BY <3>1
    <3>3. k <= j BY <2>2, <3>2
    <3>4. Len(g.table) = n - j + 1 BY <1>2, <3>1
    <3> QED BY <1>0, <2>3, <3>3, <3>4
  <2>5. ASSUME NEW p \in At(k) PROVE filters[p] \in best
    <3>1. filters[p] \in F /\ Len(filters[p].table) = n - k + 1 BY <1>2, <1>4, <2>3
    <3> QED BY <2>4, <3>1
  <2>6. ASSUME NEW f \in best PROVE \E p \in At(k) : f = filters[p]
    <3>1. PICK j \in 1 .. n : \E p \in At(j) : f = filters[p] /\ f.table = cands[j] BY <1>3
    <3>2. j \in hit /\ k <= j BY <2>2, <3>1
    <3>3. PICK p \in At(k) : TRUE BY <2>3
    <3>4. filters[p] \in F /\ Len(filters[p].table) = n - k + 1 BY <1>2, <1>4, <2>3
    <3>5. n - k + 1 <= n - j + 1 BY <1>2, <3>1, <3>4
    <3>6. j = k BY <1>0, <2>3, <3>2, <3>5
    <3> QED BY <3>1, <3>6
  <2>7. {filters[p] : p \in At(k)} = best
    <3> HIDE DEF best
    <3> QED BY <2>5, <2>6
  <2>8. T # {} BY <2>2, <2>3
  <2>9. {filters[p] : p \in T} = best BY <2>2, <2>7
  <2> QED BY <1>6, <1>8, <2>8, <2>9 DEF T, F, full
<1> QED BY <1>7, <1>8

\* The row filters that are applied to a scan are exactly the ones that are due
\* on its table: the most specific of the identity's tenant, else of the
\* operator, whatever the order they were created in and however the scan
\* writes the table, provided no filter in force is written with more parts.
THEOREM FiltersFoundAreDue ==
    ASSUME NEW S, NEW filters \in Seq(S), NEW rel, IsReference(rel), NEW own, IsDefaults(own), NEW id,
           \A f \in Range(filters) : Names(f.table, Upgrade(rel, own)) /\ InForce(f, id) => Len(f.table) <= Len(rel)
    PROVE  Predicates(filters, rel, id) = Due(filters, Upgrade(rel, own), id)
<1> DEFINE full == Upgrade(rel, own)
           F(b) == OfTier(filters, full, b, id)
           Best(G) == {f \in G : \A g \in G : Len(g.table) <= Len(f.table)}
           forTable == {f \in Range(filters) : Names(f.table, full) /\ InForce(f, id)}
<1>1. ASSUME NEW b \in BOOLEAN
      PROVE  /\ Tier(filters, rel, b, id) = {} <=> F(b) = {}
             /\ {filters[p] : p \in Tier(filters, rel, b, id)} = Best(F(b))
  BY TierIsMostSpecific
<1>2. Predicates(filters, rel, id) = IF F(TRUE) # {} THEN Best(F(TRUE)) ELSE Best(F(FALSE))
  <2> HIDE DEF F, Best
  <2>1. ResolvePredicate(filters, rel, id)
          = IF Tier(filters, rel, TRUE, id) # {} THEN Tier(filters, rel, TRUE, id) ELSE Tier(filters, rel, FALSE, id)
    BY DEF ResolvePredicate
  <2>2. CASE F(TRUE) # {} BY <1>1, <2>1, <2>2 DEF Predicates
  <2>3. CASE F(TRUE) = {} BY <1>1, <2>1, <2>3 DEF Predicates
  <2> QED BY <2>2, <2>3
<1>3. F(TRUE) = {f \in forTable : f.org # None} BY DEF OfTier
<1>4. F(TRUE) = {} => F(FALSE) = forTable BY DEF OfTier
<1>5. Due(filters, full, id) = Best(IF F(TRUE) # {} THEN F(TRUE) ELSE forTable) BY <1>3 DEF Due
<1> HIDE DEF F, Best, forTable
<1>6. CASE F(TRUE) # {}
  <2>1. Due(filters, full, id) = Best(F(TRUE)) BY <1>5, <1>6
  <2> QED BY <1>2, <1>6, <2>1 DEF full
<1>7. CASE F(TRUE) = {}
  <2>1. Due(filters, full, id) = Best(F(FALSE)) BY <1>4, <1>5, <1>7
  <2> QED BY <1>2, <1>7, <2>1 DEF full
<1> QED BY <1>6, <1>7

-----------------------------------------------------------------------------
(* HTTP scans: the value of a filter.                                      *)

Truths == {"true", "false", "unknown"}

LEMMA TruthTables ==
    /\ \A s \in Truths : Not3(s) \in Truths
    /\ \A s, t \in Truths : And3(s, t) \in Truths /\ Or3(s, t) \in Truths
    /\ \A s, t \in Truths : And3(s, t) = "true" <=> s = "true" /\ t = "true"
    /\ \A s, t \in Truths : Or3(s, t) = "true" <=> s = "true" \/ t = "true"
BY DEF Truths, Not3, And3, Or3

\* The values of the nodes: each follows from those before it.
IsValuation(f, leaf, g) ==
    /\ g \in [DOMAIN f -> Truths]
    /\ \A i \in DOMAIN f : g[i] = NodeValue(f[i], g, leaf[i])

LEMMA NodeIsTruth ==
    ASSUME NEW n, NEW i, IsNode(n, i), NEW g, NEW t \in Truths, \A j \in 1 .. (i - 1) : g[j] \in Truths
    PROVE  NodeValue(n, g, t) \in Truths
<1>1. CASE n.k = "not"
  <2>1. n.args[1] \in 1 .. (i - 1) BY <1>1 DEF IsNode, Leaves, Arity
  <2> QED BY <1>1, <2>1, TruthTables DEF NodeValue
<1>2. CASE n.k \in {"and", "or"}
  <2>1. n.args[1] \in 1 .. (i - 1) /\ n.args[2] \in 1 .. (i - 1) BY <1>2 DEF IsNode, Leaves, Arity
  <2> QED BY <1>2, <2>1, TruthTables DEF NodeValue
<1>3. CASE n.k \notin {"not", "and", "or"} BY <1>3 DEF NodeValue
<1> QED BY <1>1, <1>2, <1>3

\* A node looks at the nodes before it only.
LEMMA NodeIsLocal ==
    ASSUME NEW n, NEW i, IsNode(n, i), NEW g, NEW h, NEW t, \A j \in 1 .. (i - 1) : g[j] = h[j]
    PROVE  NodeValue(n, g, t) = NodeValue(n, h, t)
<1>1. CASE n.k = "not"
  <2>1. n.args[1] \in 1 .. (i - 1) BY <1>1 DEF IsNode, Leaves, Arity
  <2> QED BY <1>1, <2>1 DEF NodeValue
<1>2. CASE n.k \in {"and", "or"}
  <2>1. n.args[1] \in 1 .. (i - 1) /\ n.args[2] \in 1 .. (i - 1) BY <1>2 DEF IsNode, Leaves, Arity
  <2> QED BY <1>2, <2>1 DEF NodeValue
<1>3. CASE n.k \notin {"not", "and", "or"} BY <1>3 DEF NodeValue
<1> QED BY <1>1, <1>2, <1>3

\* Every filter has a value: it is that of its root.
LEMMA ValueExists ==
    ASSUME NEW f, IsFilter(f), NEW leaf, \A i \in DOMAIN f : leaf[i] \in Truths
    PROVE  \E g : IsValuation(f, leaf, g) /\ Value(f, leaf) = g[Len(f)]
<1>0. Len(f) \in Nat /\ DOMAIN f = 1 .. Len(f) BY LenProperties DEF IsFilter
<1>1. \A i \in DOMAIN f : IsNode(f[i], i) BY DEF IsFilter
<1> DEFINE N == Len(f)
           Good(n) == \E g \in [1 .. n -> Truths] : \A i \in 1 .. n : g[i] = NodeValue(f[i], g, leaf[i])
           Bad == {n \in 0 .. N : ~Good(n)}
<1>2. Bad = {}
  <2> SUFFICES ASSUME Bad # {} PROVE FALSE
    OBVIOUS
  <2>1. Bad \in SUBSET Nat BY <1>0
  <2>2. PICK n \in Bad : \A m \in Bad : n <= m BY <2>1, LeastExists
  <2>3. n \in 0 .. N /\ ~Good(n) BY <2>2
  <2>4. n # 0
    <3>1. [i \in 1 .. 0 |-> "true"] \in [1 .. 0 -> Truths] BY DEF Truths
    <3>2. \A i \in 1 .. 0 : FALSE OBVIOUS
    <3>3. Good(0) BY <3>1, <3>2
    <3> QED BY <2>3, <3>3
  <2>5. Good(n - 1)
    <3>1. n - 1 \in 0 .. N /\ ~(n <= n - 1) BY <1>0, <2>3, <2>4
    <3> HIDE DEF Good
    <3> QED BY <2>2, <3>1
  <2>6. PICK g \in [1 .. (n - 1) -> Truths] : \A i \in 1 .. (n - 1) : g[i] = NodeValue(f[i], g, leaf[i]) BY <2>5
  <2> DEFINE h == [i \in 1 .. n |-> IF i = n THEN NodeValue(f[n], g, leaf[n]) ELSE g[i]]
  <2>7. n \in Nat /\ n \in 1 .. n /\ n \in DOMAIN f BY <1>0, <2>3, <2>4
  <2>8. \A i \in 1 .. n : i # n => i \in 1 .. (n - 1) BY <2>7
  <2>9. h \in [1 .. n -> Truths]
    <3>1. \A j \in 1 .. (n - 1) : g[j] \in Truths BY <2>6
    <3>2. NodeValue(f[n], g, leaf[n]) \in Truths BY <1>1, <2>7, <3>1, NodeIsTruth
    <3> QED BY <2>8, <3>1, <3>2
  <2>10. ASSUME NEW i \in 1 .. n PROVE h[i] = NodeValue(f[i], h, leaf[i])
    <3>1. \A j \in 1 .. (i - 1) : g[j] = h[j]
      <4> SUFFICES ASSUME NEW j \in 1 .. (i - 1) PROVE g[j] = h[j]
        OBVIOUS
      <4>1. j \in 1 .. n /\ j # n BY <2>7
      <4> QED BY <4>1
    <3>2. i \in DOMAIN f BY <1>0, <2>3
    <3> HIDE DEF h
    <3>3. NodeValue(f[i], g, leaf[i]) = NodeValue(f[i], h, leaf[i]) BY <1>1, <3>1, <3>2, NodeIsLocal
    <3>4. h[i] = NodeValue(f[i], g, leaf[i])
      <4>1. CASE i = n BY <2>7, <4>1 DEF h
      <4>2. CASE i # n
        <5>1. i \in 1 .. (n - 1) BY <2>8, <4>2
        <5> QED BY <2>6, <4>2, <5>1 DEF h
      <4> QED BY <4>1, <4>2
    <3> QED BY <3>3, <3>4
  <2>11. Good(n)
    <3> HIDE DEF h
    <3> QED BY <2>9, <2>10
  <2> QED BY <2>3, <2>11
<1>3. PICK g \in [1 .. N -> Truths] : \A i \in 1 .. N : g[i] = NodeValue(f[i], g, leaf[i])
  <2>1. N \in 0 .. N BY <1>0
  <2> QED BY <1>2, <2>1
<1>4. g = [i \in DOMAIN f |-> NodeValue(f[i], g, leaf[i])] BY <1>0, <1>3
<1> DEFINE val[i \in DOMAIN f] == NodeValue(f[i], val, leaf[i])
<1>5. val = [i \in DOMAIN f |-> NodeValue(f[i], val, leaf[i])] BY <1>4
<1>6. Value(f, leaf) = val[Len(f)] BY DEF Value
<1> HIDE DEF val
<1>7. \A i \in DOMAIN f : val[i] = NodeValue(f[i], val, leaf[i]) BY <1>5, Zenon
<1> DEFINE Odd == {i \in DOMAIN f : val[i] \notin Truths}
<1>8. Odd = {}
  <2> SUFFICES ASSUME Odd # {} PROVE FALSE
    OBVIOUS
  <2>1. Odd \in SUBSET Nat BY <1>0
  <2>2. PICK i \in Odd : \A j \in Odd : i <= j BY <2>1, LeastExists
  <2>3. \A j \in 1 .. (i - 1) : val[j] \in Truths
    <3> SUFFICES ASSUME NEW j \in 1 .. (i - 1), j \in Odd PROVE FALSE
      BY <1>0, <2>2
    <3> QED BY <2>1, <2>2
  <2>4. val[i] \in Truths BY <1>1, <1>7, <2>2, <2>3, NodeIsTruth
  <2> QED BY <2>2, <2>4
<1>9. val \in [DOMAIN f -> Truths]
  <2>1. val = [i \in DOMAIN f |-> val[i]] BY <1>5
  <2> QED BY <1>8, <2>1
<1>10. IsValuation(f, leaf, val) BY <1>7, <1>9 DEF IsValuation
<1> QED BY <1>6, <1>10

-----------------------------------------------------------------------------
(* What is sent means what was asked.                                      *)

\* How the service's value t of a translated filter compares with SQL's s:
\* the same, or true for the same rows.
Agrees(nulls, s, t) == IF nulls = "unknown" THEN s = t ELSE s = "true" <=> t = "true"

NoNot(n) == ~(n.k = "not" \/ (n.k = "cmp" /\ n.op = "ne"))

TranslateNode(n) == IF n.k = "cmp" THEN TranslateComparison(n) ELSE n

LEMMA LeavesAreTruths ==
    ASSUME NEW n, NEW v, NEW nulls
    PROVE  SqlLeaf(n, v) \in Truths /\ ServiceLeaf(n, v, nulls) \in Truths
BY DEF SqlLeaf, ServiceLeaf, Truth, Truths

\* A comparison with the literal on the left is the flipped one.
LEMMA FlipKeeps ==
    ASSUME NEW op \in {"eq", "ne", "lt", "le", "gt", "ge"}, NEW a \in Int, NEW b \in Int
    PROVE  Holds(op, a, b) <=> Holds(FlipOp(op), b, a)
BY DEF Holds, FlipOp

LEMMA LeafAgrees ==
    ASSUME Null \notin Int, NEW n, NEW i, IsNode(n, i), n.k \in Leaves, Translates(n),
           NEW v \in Int \cup {Null}, NEW nulls \in {"false", "unknown"},
           nulls = "false" => NoNot(n)
    PROVE  Agrees(nulls, SqlLeaf(n, v), ServiceLeaf(TranslateNode(n), v, nulls))
<1>1. CASE n.k = "cmp"
  <2> DEFINE m == TranslateComparison(n)
             ops == {"eq", "ne", "lt", "le", "gt", "ge"}
  <2>1. n \in [k : {"cmp"}, op : ops, lit : Int \cup {Null}, flipped : BOOLEAN] BY <1>1 DEF IsNode
  <2>2. n.lit \in Int BY <1>1, <2>1 DEF Translates, RendersScalar
  <2>3. m.k = "cmp" /\ m.lit = n.lit /\ m.op = IF n.flipped THEN FlipOp(n.op) ELSE n.op
    BY <2>1 DEF TranslateComparison
  <2>4. n.op \in ops /\ n.flipped \in BOOLEAN BY <2>1
  <2>5. TranslateNode(n) = m BY <1>1 DEF TranslateNode
  <2> HIDE DEF m
  <2>6. CASE v # Null
    <3>1. v \in Int BY <2>6
    <3>2. (IF n.flipped THEN Holds(n.op, n.lit, v) ELSE Holds(n.op, v, n.lit)) <=> Holds(m.op, v, n.lit)
      <4>1. CASE n.flipped BY <2>2, <2>3, <2>4, <3>1, <4>1, FlipKeeps
      <4>2. CASE ~n.flipped BY <2>3, <4>2
      <4> QED BY <4>1, <4>2
    <3>3. SqlLeaf(n, v) = Truth(IF n.flipped THEN Holds(n.op, n.lit, v) ELSE Holds(n.op, v, n.lit))
      BY <1>1, <2>2, <2>6 DEF SqlLeaf
    <3>4. ServiceLeaf(m, v, nulls) = Truth(Holds(m.op, v, n.lit)) BY <2>2, <2>3, <2>6 DEF ServiceLeaf
    <3>5. SqlLeaf(n, v) = ServiceLeaf(m, v, nulls) BY <3>2, <3>3, <3>4 DEF Truth
    <3> QED BY <2>5, <3>5 DEF Agrees
  <2>7. CASE v = Null
    <3>1. SqlLeaf(n, v) = "unknown" BY <1>1, <2>7 DEF SqlLeaf
    <3>2. CASE nulls = "unknown"
      <4>1. ServiceLeaf(m, v, nulls) = "unknown" BY <2>3, <2>7, <3>2 DEF ServiceLeaf
      <4> QED BY <2>5, <3>1, <3>2, <4>1 DEF Agrees
    <3>3. CASE nulls = "false"
      <4>1. m.op # "ne" BY <1>1, <2>3, <2>4, <3>3 DEF NoNot, FlipOp
      <4>2. ServiceLeaf(m, v, nulls) # "true" BY <2>2, <2>3, <2>7, <3>3, <4>1 DEF ServiceLeaf, Truth, Holds
      <4> QED BY <2>5, <3>1, <3>3, <4>2 DEF Agrees
    <3> QED BY <3>2, <3>3
  <2> QED BY <2>6, <2>7
<1>2. CASE n.k # "cmp"
  <2>1. n.k \in {"isnull", "notnull"} BY <1>2 DEF Translates, Leaves
  <2>2. SqlLeaf(n, v) = ServiceLeaf(n, v, nulls) BY <2>1 DEF SqlLeaf, ServiceLeaf
  <2>3. TranslateNode(n) = n BY <1>2 DEF TranslateNode
  <2> QED BY <2>2, <2>3 DEF Agrees
<1> QED BY <1>1, <1>2

\* Node by node: the translation of a filter is a filter of the same shape.
LEMMA NodeAgrees ==
    ASSUME NEW n, NEW i, IsNode(n, i), NEW nulls \in {"false", "unknown"}, nulls = "false" => NoNot(n),
           NEW g, NEW h, \A j \in 1 .. (i - 1) : g[j] \in Truths /\ h[j] \in Truths /\ Agrees(nulls, g[j], h[j]),
           NEW s, NEW t, n.k \in Leaves => Agrees(nulls, s, t)
    PROVE  Agrees(nulls, NodeValue(n, g, s), NodeValue(TranslateNode(n), h, t))
<1>1. CASE n.k = "not"
  <2>1. n.args[1] \in 1 .. (i - 1) BY <1>1 DEF IsNode, Leaves, Arity
  <2>2. nulls = "unknown" BY <1>1 DEF NoNot
  <2>3. g[n.args[1]] = h[n.args[1]] BY <2>1, <2>2 DEF Agrees
  <2> QED BY <1>1, <2>2, <2>3 DEF NodeValue, TranslateNode, Agrees
<1>2. CASE n.k \in {"and", "or"}
  <2> DEFINE a == n.args[1]
             b == n.args[2]
  <2>1. a \in 1 .. (i - 1) /\ b \in 1 .. (i - 1) BY <1>2 DEF IsNode, Leaves, Arity
  <2>2. /\ g[a] \in Truths /\ h[a] \in Truths /\ Agrees(nulls, g[a], h[a])
        /\ g[b] \in Truths /\ h[b] \in Truths /\ Agrees(nulls, g[b], h[b])
    BY <2>1
  <2>3. TranslateNode(n) = n BY <1>2 DEF TranslateNode
  <2> HIDE DEF a, b
  <2>4. Agrees(nulls, And3(g[a], g[b]), And3(h[a], h[b])) BY <2>2, TruthTables DEF Agrees
  <2>5. Agrees(nulls, Or3(g[a], g[b]), Or3(h[a], h[b])) BY <2>2, TruthTables DEF Agrees
  <2> QED BY <1>2, <2>3, <2>4, <2>5 DEF NodeValue, a, b
<1>3. CASE n.k \in Leaves
  <2>1. n.k \notin {"not", "and", "or"} BY <1>3 DEF Leaves
  <2>2. TranslateNode(n).k \notin {"not", "and", "or"}
    BY <1>3, <2>1 DEF TranslateNode, TranslateComparison, IsNode
  <2>3. NodeValue(n, g, s) = s BY <2>1 DEF NodeValue
  <2>4. NodeValue(TranslateNode(n), h, t) = t BY <2>2 DEF NodeValue
  <2> QED BY <1>3, <2>3, <2>4
<1> QED BY <1>1, <1>2, <1>3 DEF IsNode

LEMMA TranslationIsFilter ==
    ASSUME NEW f, IsFilter(f), \A i \in DOMAIN f : Translates(f[i])
    PROVE  /\ IsFilter(TranslateExpr(f)) /\ DOMAIN TranslateExpr(f) = DOMAIN f /\ Len(TranslateExpr(f)) = Len(f)
           /\ \A i \in DOMAIN f : TranslateExpr(f)[i] = TranslateNode(f[i])
<1> DEFINE t == TranslateExpr(f)
<1>0. f \in Seq(Range(f)) /\ f # <<>> BY DEF IsFilter
<1>1. Len(f) \in Nat /\ DOMAIN f = 1 .. Len(f) /\ Len(f) # 0 BY <1>0, LenProperties, EmptySeq
<1>2. t = [i \in DOMAIN f |-> TranslateNode(f[i])] BY DEF TranslateExpr, TranslateNode
<1> HIDE DEF t
<1>3. DOMAIN t = DOMAIN f /\ \A i \in DOMAIN f : t[i] = TranslateNode(f[i]) BY <1>2
<1>4. t \in [1 .. Len(f) -> Range(t)] BY <1>1, <1>2, <1>3 DEF Range
<1>5. t \in Seq(Range(t)) /\ Len(t) = Len(f)
  <2>1. t \in Seq(Range(t)) BY <1>1, <1>4
  <2> QED BY <1>1, <1>3, <2>1, LenProperties
<1>6. t # <<>> BY <1>1, <1>5
<1>7. ASSUME NEW i \in DOMAIN f PROVE IsNode(t[i], i)
  <2>1. IsNode(f[i], i) BY DEF IsFilter
  <2>2. CASE f[i].k = "cmp"
    <3> DEFINE n == f[i]
               ops == {"eq", "ne", "lt", "le", "gt", "ge"}
    <3>1. n \in [k : {"cmp"}, op : ops, lit : Int \cup {Null}, flipped : BOOLEAN] BY <2>1, <2>2 DEF IsNode
    <3>2. (IF n.flipped THEN FlipOp(n.op) ELSE n.op) \in ops BY <3>1 DEF FlipOp
    <3>3. TranslateComparison(n) \in [k : {"cmp"}, op : ops, lit : Int \cup {Null}, flipped : BOOLEAN]
      BY <3>1, <3>2 DEF TranslateComparison
    <3>4. t[i] = TranslateComparison(n) BY <1>3, <2>2 DEF TranslateNode
    <3> HIDE DEF n
    <3>5. t[i].k = "cmp" BY <3>3, <3>4
    <3> QED BY <3>3, <3>4, <3>5 DEF IsNode, Leaves
  <2>3. CASE f[i].k # "cmp" BY <1>3, <2>1, <2>3 DEF TranslateNode
  <2> QED BY <2>2, <2>3
<1>8. IsFilter(t) BY <1>3, <1>5, <1>6, <1>7 DEF IsFilter
<1> QED BY <1>3, <1>5, <1>8 DEF t

\* An OData service evaluates what translates as SQL would; one that compares
\* null as a value does so for filters that negate nothing.
LEMMA ServiceIsSql ==
    ASSUME Null \notin Int, NEW f, IsFilter(f), \A i \in DOMAIN f : Translates(f[i]),
           NEW v \in Int \cup {Null}, NEW nulls \in {"false", "unknown"},
           nulls = "false" => ~Negates(f)
    PROVE  Service(TranslateExpr(f), v, nulls) = "true" <=> Sql(f, v) = "true"
<1> DEFINE t == TranslateExpr(f)
           a == [i \in DOMAIN f |-> SqlLeaf(f[i], v)]
           b == [i \in DOMAIN t |-> ServiceLeaf(t[i], v, nulls)]
<1>1. IsFilter(t) /\ DOMAIN t = DOMAIN f /\ Len(t) = Len(f) /\ \A i \in DOMAIN f : t[i] = TranslateNode(f[i])
  BY TranslationIsFilter
<1>2. Sql(f, v) = Value(f, a) /\ Service(t, v, nulls) = Value(t, b) BY DEF Sql, Service
<1> HIDE DEF t
<1>3. \A i \in DOMAIN f : a[i] = SqlLeaf(f[i], v) /\ b[i] = ServiceLeaf(TranslateNode(f[i]), v, nulls) BY <1>1
<1>4. \A i \in DOMAIN f : a[i] \in Truths /\ b[i] \in Truths BY <1>3, LeavesAreTruths
<1> HIDE DEF a, b
<1>5. PICK g : IsValuation(f, a, g) /\ Value(f, a) = g[Len(f)] BY <1>4, ValueExists
<1>6. PICK h : IsValuation(t, b, h) /\ Value(t, b) = h[Len(t)] BY <1>1, <1>4, ValueExists
<1>7. \A i \in DOMAIN f : IsNode(f[i], i) /\ (nulls = "false" => NoNot(f[i])) BY DEF IsFilter, Negates, NoNot
<1>8. Len(f) \in DOMAIN f /\ DOMAIN f \in SUBSET Nat /\ \A i \in DOMAIN f : \A j \in 1 .. (i - 1) : j \in DOMAIN f
  <2>1. f \in Seq(Range(f)) /\ f # <<>> BY DEF IsFilter
  <2>2. Len(f) \in Nat /\ DOMAIN f = 1 .. Len(f) /\ Len(f) # 0 BY <2>1, LenProperties, EmptySeq
  <2> QED BY <2>2
<1> DEFINE Bad == {i \in DOMAIN f : ~Agrees(nulls, g[i], h[i])}
<1>9. Bad = {}
  <2> SUFFICES ASSUME Bad # {} PROVE FALSE
    OBVIOUS
  <2>1. Bad \in SUBSET Nat BY <1>8
  <2>2. PICK i \in Bad : \A j \in Bad : i <= j BY <2>1, LeastExists
  <2>3. ASSUME NEW j \in 1 .. (i - 1) PROVE g[j] \in Truths /\ h[j] \in Truths /\ Agrees(nulls, g[j], h[j])
    <3>1. j \in DOMAIN f BY <1>8, <2>2
    <3>2. g[j] \in Truths /\ h[j] \in Truths BY <1>1, <1>5, <1>6, <3>1 DEF IsValuation
    <3>3. j \notin Bad BY <2>1, <2>2
    <3> QED BY <3>1, <3>2, <3>3
  <2>4. i \in DOMAIN f /\ ~Agrees(nulls, g[i], h[i]) BY <2>2
  <2>5. g[i] = NodeValue(f[i], g, a[i]) /\ h[i] = NodeValue(TranslateNode(f[i]), h, b[i])
    BY <1>1, <1>5, <1>6, <2>4 DEF IsValuation
  <2>6. f[i].k \in Leaves => Agrees(nulls, a[i], b[i]) BY <1>3, <1>7, <2>4, LeafAgrees
  <2>7. Agrees(nulls, g[i], h[i]) BY <1>7, <2>3, <2>4, <2>5, <2>6, NodeAgrees
  <2> QED BY <2>4, <2>7
<1>10. Agrees(nulls, Sql(f, v), Service(t, v, nulls)) BY <1>1, <1>2, <1>5, <1>6, <1>8, <1>9
<1> QED BY <1>10 DEF Agrees, t

\* A pushed equality holds of the rows with its value.
LEMMA PushedIsSql ==
    ASSUME Null \notin Int, NEW f, IsFilter(f), IsPushable(f), NEW v \in Int \cup {Null}
    PROVE  Sql(f, v) = "true" <=> v = f[1].lit
<1> DEFINE a == [i \in DOMAIN f |-> SqlLeaf(f[i], v)]
<1>1. Len(f) = 1 /\ DOMAIN f = {1} /\ f[1].k = "cmp" /\ f[1].op = "eq" /\ f[1].lit # Null
  <2>1. f \in Seq(Range(f)) BY DEF IsFilter
  <2>2. DOMAIN f = 1 .. Len(f) BY <2>1, LenProperties
  <2> QED BY <2>2 DEF IsPushable
<1>2. \A i \in DOMAIN f : a[i] \in Truths BY LeavesAreTruths
<1>3. a[1] = SqlLeaf(f[1], v) BY <1>1
<1>4. Sql(f, v) = Value(f, a) BY DEF Sql
<1> HIDE DEF a
<1>5. PICK g : IsValuation(f, a, g) /\ Value(f, a) = g[Len(f)] BY <1>2, ValueExists
<1>6. g[1] = NodeValue(f[1], g, a[1]) BY <1>1, <1>5 DEF IsValuation
<1>7. Sql(f, v) = SqlLeaf(f[1], v) BY <1>1, <1>3, <1>4, <1>5, <1>6 DEF NodeValue
<1>8. SqlLeaf(f[1], v) = "true" <=> v = f[1].lit BY <1>1 DEF SqlLeaf, Truth, Holds
<1> QED BY <1>7, <1>8

-----------------------------------------------------------------------------
(* Paging.                                                                 *)

Rows == Int \cup {Null}
Cells == {Decode(v) : v \in Rows}

LEMMA TakeIsPrefix ==
    ASSUME Absent \notin Nat, NEW S, NEW s \in Seq(S), NEW n \in Nat \cup {Absent}
    PROVE  /\ Take(s, n) \in Seq(S)
           /\ Len(Take(s, n)) = IF n = Absent \/ Len(s) <= n THEN Len(s) ELSE n
           /\ \A i \in 1 .. Len(Take(s, n)) : Take(s, n)[i] = s[i]
           /\ Take(Take(s, n), n) = Take(s, n)
<1>1. Len(s) \in Nat /\ DOMAIN s = 1 .. Len(s) /\ \A i \in 1 .. Len(s) : s[i] \in S BY LenProperties, ElementOfSeq
<1>2. CASE n = Absent \/ Len(s) <= n
  <2>1. Take(s, n) = s BY <1>2 DEF Take
  <2> QED BY <1>2, <2>1
<1>3. CASE ~(n = Absent \/ Len(s) <= n)
  <2>1. n \in Nat /\ n < Len(s) /\ Take(s, n) = SubSeq(s, 1, n) BY <1>1, <1>3 DEF Take
  <2>2. \A i \in 1 .. n : s[i] \in S BY <1>1, <2>1
  <2>3. /\ SubSeq(s, 1, n) \in Seq(S) /\ Len(SubSeq(s, 1, n)) = IF 1 <= n THEN n - 1 + 1 ELSE 0
        /\ \A i \in 1 .. n - 1 + 1 : SubSeq(s, 1, n)[i] = s[1 + i - 1]
    BY <2>1, <2>2, SubSeqProperties
  <2>4. Take(s, n) \in Seq(S) /\ Len(Take(s, n)) = n BY <2>1, <2>3
  <2>5. \A i \in 1 .. n : Take(s, n)[i] = s[i]
    <3> SUFFICES ASSUME NEW i \in 1 .. n PROVE SubSeq(s, 1, n)[i] = s[i]
      BY <2>1
    <3>1. i \in 1 .. n - 1 + 1 /\ 1 + i - 1 = i BY <2>1
    <3> QED BY <2>3, <3>1
  <2>6. Take(Take(s, n), n) = Take(s, n)
    <3> DEFINE t == Take(s, n)
    <3>1. Len(t) <= n BY <2>1, <2>4
    <3> HIDE DEF t
    <3>2. Take(t, n) = t BY <3>1 DEF Take
    <3> QED BY <3>2 DEF t
  <2> QED BY <1>3, <2>4, <2>5, <2>6
<1> QED BY <1>2, <1>3

\* The next page of the answer.
LEMMA PageIsNext ==
    ASSUME Absent \notin Nat, NEW a \in Seq(Rows), NEW c \in 0 .. Len(a), NEW page \in Nat \ {0}
    PROVE  /\ Take(SubSeq(a, c + 1, Len(a)), page) \in Seq(Rows)
           /\ Len(Take(SubSeq(a, c + 1, Len(a)), page)) = IF Len(a) - c <= page THEN Len(a) - c ELSE page
           /\ \A i \in 1 .. Len(Take(SubSeq(a, c + 1, Len(a)), page)) :
                 Take(SubSeq(a, c + 1, Len(a)), page)[i] = a[c + i]
<1> DEFINE tail == SubSeq(a, c + 1, Len(a))
           rows == Take(tail, page)
<1>1. Len(a) \in Nat /\ c \in Nat /\ c <= Len(a) /\ \A i \in 1 .. Len(a) : a[i] \in Rows
  BY LenProperties, ElementOfSeq
<1>2. tail \in Seq(Rows) /\ Len(tail) = Len(a) - c /\ \A i \in 1 .. Len(a) - c : tail[i] = a[c + i]
  <2>1. c + 1 \in Int /\ Len(a) \in Int /\ \A i \in (c + 1) .. Len(a) : a[i] \in Rows BY <1>1
  <2>2. /\ tail \in Seq(Rows) /\ Len(tail) = IF c + 1 <= Len(a) THEN Len(a) - (c + 1) + 1 ELSE 0
        /\ \A i \in 1 .. Len(a) - (c + 1) + 1 : tail[i] = a[(c + 1) + i - 1]
    BY <2>1, SubSeqProperties
  <2> HIDE DEF tail
  <2>3. Len(tail) = Len(a) - c BY <1>1, <2>2
  <2>4. ASSUME NEW i \in 1 .. Len(a) - c PROVE tail[i] = a[c + i]
    <3>1. i \in 1 .. Len(a) - (c + 1) + 1 /\ (c + 1) + i - 1 = c + i BY <1>1
    <3> QED BY <2>2, <3>1
  <2> QED BY <2>2, <2>3, <2>4
<1> HIDE DEF tail
<1>3. /\ rows \in Seq(Rows) /\ Len(rows) = IF page = Absent \/ Len(tail) <= page THEN Len(tail) ELSE page
      /\ \A i \in 1 .. Len(rows) : rows[i] = tail[i]
  <2>1. page \in Nat \cup {Absent} OBVIOUS
  <2> QED BY <1>2, <2>1, TakeIsPrefix
<1> HIDE DEF rows
<1>4. Len(rows) = IF Len(a) - c <= page THEN Len(a) - c ELSE page BY <1>2, <1>3
<1>5. \A i \in 1 .. Len(rows) : rows[i] = a[c + i]
  <2> SUFFICES ASSUME NEW i \in 1 .. Len(rows) PROVE rows[i] = a[c + i]
    OBVIOUS
  <2>1. i \in 1 .. Len(a) - c BY <1>1, <1>4
  <2> QED BY <1>2, <1>3, <2>1
<1> QED BY <1>3, <1>4, <1>5 DEF rows, tail

\* Its rows are decoded.
LEMMA BatchIsDecoded ==
    ASSUME NEW rows \in Seq(Rows)
    PROVE  /\ [i \in DOMAIN rows |-> Decode(rows[i])] \in Seq(Cells)
           /\ Len([i \in DOMAIN rows |-> Decode(rows[i])]) = Len(rows)
           /\ \A i \in 1 .. Len(rows) : [j \in DOMAIN rows |-> Decode(rows[j])][i] = Decode(rows[i])
<1> DEFINE batch == [i \in DOMAIN rows |-> Decode(rows[i])]
<1>1. Len(rows) \in Nat /\ DOMAIN rows = 1 .. Len(rows) /\ \A i \in 1 .. Len(rows) : rows[i] \in Rows
  BY LenProperties, ElementOfSeq
<1>2. DOMAIN batch = 1 .. Len(rows) /\ \A i \in 1 .. Len(rows) : batch[i] = Decode(rows[i]) BY <1>1
<1>3. batch \in [1 .. Len(rows) -> Cells] BY <1>1 DEF Cells
<1> HIDE DEF batch
<1>4. batch \in Seq(Cells) BY <1>1, <1>3
<1>5. Len(batch) = Len(rows) BY <1>1, <1>2, <1>4, LenProperties
<1> QED BY <1>2, <1>4, <1>5 DEF batch

\* The first k rows of a page after the rows before it are the first rows of
\* the answer.
LEMMA PageFollows ==
    ASSUME Absent \notin Nat, NEW a, NEW o \in Seq(Cells), NEW batch \in Seq(Cells), NEW k \in 0 .. Len(batch),
           \A i \in 1 .. Len(o) : o[i] = Decode(a[i]),
           \A i \in 1 .. Len(batch) : batch[i] = Decode(a[Len(o) + i])
    PROVE  /\ o \o Take(batch, k) \in Seq(Cells)
           /\ Len(o \o Take(batch, k)) = Len(o) + k
           /\ \A i \in 1 .. Len(o) + k : (o \o Take(batch, k))[i] = Decode(a[i])
<1> DEFINE b == Take(batch, k)
<1> DEFINE c == Len(o)
<1>0. Len(batch) \in Nat /\ c \in Nat BY LenProperties
<1>1. k \in Nat /\ k # Absent /\ k <= Len(batch) BY <1>0
<1>2. b \in Seq(Cells) /\ Len(b) = k /\ \A i \in 1 .. k : b[i] = batch[i]
  <2>1. /\ b \in Seq(Cells) /\ Len(b) = IF k = Absent \/ Len(batch) <= k THEN Len(batch) ELSE k
        /\ \A i \in 1 .. Len(b) : b[i] = batch[i]
    BY <1>1, TakeIsPrefix
  <2> HIDE DEF b
  <2>2. Len(b) = k BY <1>0, <1>1, <2>1
  <2> QED BY <2>1, <2>2
<1> HIDE DEF b
<1>3. /\ o \o b \in Seq(Cells) /\ Len(o \o b) = Len(o) + Len(b)
      /\ \A i \in 1 .. Len(o) + Len(b) : (o \o b)[i] = IF i <= Len(o) THEN o[i] ELSE b[i - Len(o)]
  BY <1>2, ConcatProperties
<1>4. ASSUME NEW i \in 1 .. c + k PROVE (o \o b)[i] = Decode(a[i])
  <2>1. CASE i <= c
    <3>1. i \in 1 .. c BY <1>0, <2>1
    <3> QED BY <1>2, <1>3, <2>1, <3>1
  <2>2. CASE ~(i <= c)
    <3>1. i - c \in 1 .. k /\ i - c \in 1 .. Len(batch) /\ c + (i - c) = i BY <1>0, <1>1, <2>2
    <3>2. (o \o b)[i] = b[i - c] BY <1>2, <1>3, <2>2
    <3>3. b[i - c] = batch[i - c] BY <1>2, <3>1
    <3>4. batch[i - c] = Decode(a[c + (i - c)]) BY <3>1
    <3> QED BY <3>1, <3>2, <3>3, <3>4
  <2> QED BY <2>1, <2>2
<1> QED BY <1>2, <1>3, <1>4 DEF b

-----------------------------------------------------------------------------
(* The scan.                                                               *)

\* The rows the source has for the request, before any limit.
Served == Retain(scan.table, {i \in DOMAIN scan.table : Serves(scan.table[i])})

\* What the first request says.
Asked == [filters |-> Judged({"exact", "inexact"}), top |-> IF Residual = <<>> THEN scan.limit ELSE Absent]

\* The rows so far are those of a, decoded.
Decodes(a) == out \in Seq(Cells) /\ Len(out) = Len(a) /\ \A i \in 1 .. Len(a) : out[i] = Decode(a[i])

\* While it fetches, the scan has the answer up to the cursor; once it is done
\* and was not cut off, it has the answer up to the limit.
Fetching ==
    /\ pages \in 0 .. MaxPages - 1 /\ cursor \in 0 .. Len(Answer)
    /\ scan.kind = "rest" /\ request.top # Absent => cursor <= request.top
    /\ out \in Seq(Cells) /\ Len(out) = cursor /\ \A i \in 1 .. cursor : out[i] = Decode(Answer[i])

ScanInv ==
    /\ scan \in Scans
    /\ phase = "plan" => cursor = 0 /\ pages = 0 /\ out = <<>>
    /\ phase \in {"fetch", "done"} => request = Asked
    /\ phase = "fetch" => Fetching
    /\ phase = "done" /\ ~truncated => Decodes(Take(Answer, request.top))

LEMMA ScanTypes ==
    ASSUME ScansAreScans, scan \in Scans
    PROVE  /\ Null \notin Int /\ Absent \notin Nat /\ MaxPages \in Nat \ {0}
           /\ scan.kind \in {"rest", "odata"} /\ scan.nulls \in {"false", "unknown"}
           /\ scan.table \in Seq(Rows) /\ scan.filters \in Seq(Range(scan.filters))
           /\ \A i \in DOMAIN scan.filters : IsFilter(scan.filters[i])
           /\ scan.limit \in Nat \cup {Absent} /\ scan.page \in Nat \ {0}
           /\ Asked.top \in Nat \cup {Absent} /\ Asked.filters = Judged({"exact", "inexact"})
<1>1. scan.limit \in Nat \cup {Absent} BY DEF ScansAreScans
<1>2. Asked.top \in Nat \cup {Absent} BY <1>1 DEF Asked
<1>3. \A f \in Range(scan.filters) : IsFilter(f) BY DEF ScansAreScans
<1>4. \A i \in DOMAIN scan.filters : IsFilter(scan.filters[i]) BY <1>3 DEF Range
<1>5. Asked.filters = Judged({"exact", "inexact"}) BY DEF Asked
<1> QED BY <1>1, <1>2, <1>4, <1>5 DEF ScansAreScans, Rows

LEMMA AnswerIsList ==
    ASSUME ScansAreScans, scan \in Scans, request = Asked
    PROVE  /\ Served \in Seq(Rows) /\ Answer \in Seq(Rows)
           /\ Take(Answer, request.top) = Take(Served, request.top)
           /\ scan.kind = "odata" => Take(Answer, request.top) = Answer
<1>1. Served \in Seq(Rows)
  <2>1. {i \in DOMAIN scan.table : Serves(scan.table[i])} \in SUBSET DOMAIN scan.table OBVIOUS
  <2> QED BY <2>1, ScanTypes, RetainIsList DEF Served
<1>2. Answer = IF scan.kind = "odata" THEN Take(Served, request.top) ELSE Served BY DEF Answer, Served
<1>3. Take(Served, request.top) \in Seq(Rows)
      /\ Take(Take(Served, request.top), request.top) = Take(Served, request.top)
  BY <1>1, ScanTypes, TakeIsPrefix
<1> QED BY <1>1, <1>2, <1>3

\* Nothing of the answer changes once it is asked for.
LEMMA AnswerStays ==
    ASSUME UNCHANGED <<scan, request>>
    PROVE  Answer' = Answer /\ Asked' = Asked
<1>1. scan' = scan /\ request' = request OBVIOUS
<1>2. Asked' = Asked BY <1>1 DEF Asked, Judged, Residual, Verdict, IsPushable
<1>3. Answer' = Answer BY <1>1 DEF Answer, Serves
<1> QED BY <1>2, <1>3

LEMMA PlanKeeps ==
    ASSUME ScansAreScans, ScanInv, Plan
    PROVE  ScanInv'
<1>1. scan' = scan /\ request' = Asked /\ phase = "plan" /\ phase' = "fetch"
      /\ cursor' = 0 /\ pages' = 0 /\ out' = <<>> /\ scan \in Scans
  BY DEF Plan, ScanInv, Asked
<1>2. Asked' = Asked BY <1>1 DEF Asked, Judged, Residual, Verdict, IsPushable
<1>4. (scan \in Scans)' /\ (request = Asked)' BY <1>1, <1>2
<1>5. Answer' \in Seq(Rows)
  <2> DEFINE K == {i \in DOMAIN scan.table : Serves(scan.table[i])}
  <2>1. scan.table \in Seq(Rows) /\ Asked.top \in Nat \cup {Absent} /\ Absent \notin Nat BY <1>1, ScanTypes
  <2>2. Answer' = IF scan.kind = "odata" THEN Take(Retain(scan.table, K'), Asked.top) ELSE Retain(scan.table, K')
    BY <1>1 DEF Answer
  <2>3. K' \in SUBSET DOMAIN scan.table BY <1>1
  <2> HIDE DEF K
  <2>4. Retain(scan.table, K') \in Seq(Rows) BY <2>1, <2>3, RetainIsList
  <2>5. Take(Retain(scan.table, K'), Asked.top) \in Seq(Rows) BY <2>1, <2>4, TakeIsPrefix
  <2> QED BY <2>2, <2>4, <2>5
<1>6. Len(Answer') \in Nat BY <1>5, LenProperties
<1>7. request'.top \in Nat \cup {Absent} /\ MaxPages \in Nat \ {0} BY <1>1, ScanTypes
<1>8. Fetching'
  <2>1. <<>> \in Seq(Cells) /\ Len(<<>>) = 0 /\ \A i \in 1 .. 0 : FALSE OBVIOUS
  <2>2. 0 \in 0 .. MaxPages - 1 /\ 0 \in 0 .. Len(Answer') BY <1>6, <1>7
  <2>3. request'.top # Absent => 0 <= request'.top BY <1>7
  <2> QED BY <1>1, <2>1, <2>2, <2>3 DEF Fetching
<1> QED BY <1>1, <1>4, <1>8 DEF ScanInv

LEMMA FetchKeeps ==
    ASSUME ScansAreScans, ScanInv, FetchPage
    PROVE  ScanInv'
<1> DEFINE a == Answer
           rows == Take(SubSeq(a, cursor + 1, Len(a)), scan.page)
           batch == [i \in DOMAIN rows |-> Decode(rows[i])]
           more == cursor + scan.page < Len(a)
           enough == scan.kind = "rest" /\ request.top # Absent /\ Len(rows) >= Remaining
           n == Len(rows)
           top == request.top
           E == Take(a, top)
<1>1. /\ phase = "fetch" /\ cursor' = cursor + Len(rows) /\ pages' = pages + 1
      /\ out' = out \o (IF enough THEN Take(batch, Remaining) ELSE batch)
      /\ phase' = IF ~enough /\ more /\ pages' < MaxPages THEN "fetch" ELSE "done"
      /\ truncated' = (~enough /\ more /\ pages' = MaxPages)
      /\ scan' = scan /\ request' = request
  BY DEF FetchPage
<1>2. scan \in Scans /\ request = Asked /\ Fetching BY <1>1 DEF ScanInv
<1>3. Answer' = a /\ Asked' = Asked BY <1>1, AnswerStays
<1>4. a \in Seq(Rows) /\ Len(a) \in Nat /\ (scan.kind = "odata" => E = a) BY <1>2, AnswerIsList, LenProperties
<1>5. /\ top \in Nat \cup {Absent} /\ Absent \notin Nat /\ MaxPages \in Nat \ {0} /\ scan.page \in Nat \ {0}
      /\ scan.kind \in {"rest", "odata"}
  BY <1>2, ScanTypes
<1>6. /\ pages \in 0 .. MaxPages - 1 /\ cursor \in 0 .. Len(a)
      /\ scan.kind = "rest" /\ top # Absent => cursor <= top
      /\ out \in Seq(Cells) /\ Len(out) = cursor /\ \A i \in 1 .. cursor : out[i] = Decode(a[i])
  BY <1>2 DEF Fetching
<1>7. /\ E \in Seq(Rows) /\ Len(E) = IF top = Absent \/ Len(a) <= top THEN Len(a) ELSE top
      /\ \A i \in 1 .. Len(E) : E[i] = a[i]
  <2> HIDE DEF a
  <2> QED BY <1>4, <1>5, TakeIsPrefix
<1> HIDE DEF a, top, E
<1>8. /\ rows \in Seq(Rows) /\ n = IF Len(a) - cursor <= scan.page THEN Len(a) - cursor ELSE scan.page
      /\ \A i \in 1 .. n : rows[i] = a[cursor + i]
  BY <1>4, <1>5, <1>6, PageIsNext
<1> HIDE DEF rows
<1>9. batch \in Seq(Cells) /\ Len(batch) = n /\ \A i \in 1 .. n : batch[i] = Decode(rows[i])
  BY <1>8, BatchIsDecoded
<1> HIDE DEF batch, n
<1>10. n \in Nat /\ n <= Len(a) - cursor BY <1>4, <1>5, <1>6, <1>8
<1>11. \A i \in 1 .. Len(batch) : batch[i] = Decode(a[cursor + i]) BY <1>8, <1>9
<1>13. ASSUME NEW k \in 0 .. n
       PROVE  /\ out \o Take(batch, k) \in Seq(Cells)
              /\ Len(out \o Take(batch, k)) = cursor + k
              /\ \A i \in 1 .. cursor + k : (out \o Take(batch, k))[i] = Decode(a[i])
  <2>1. k \in 0 .. Len(batch) BY <1>9
  <2>2. out \in Seq(Cells) /\ batch \in Seq(Cells) /\ Absent \notin Nat BY <1>5, <1>6, <1>9
  <2>3. \A i \in 1 .. Len(out) : out[i] = Decode(a[i]) BY <1>6
  <2>4. \A i \in 1 .. Len(batch) : batch[i] = Decode(a[Len(out) + i]) BY <1>6, <1>11
  <2>5. /\ out \o Take(batch, k) \in Seq(Cells)
        /\ Len(out \o Take(batch, k)) = Len(out) + k
        /\ \A i \in 1 .. Len(out) + k : (out \o Take(batch, k))[i] = Decode(a[i])
    BY <2>1, <2>2, <2>3, <2>4, PageFollows
  <2> QED BY <1>6, <2>5
<1>14. Take(batch, n) = batch BY <1>9, <1>10 DEF Take
<1>15. enough <=> scan.kind = "rest" /\ top # Absent /\ n >= top - cursor BY <1>6 DEF Remaining, n, top
<1> HIDE DEF enough, more
<1>16. CASE enough
  <2> DEFINE k == top - cursor
  <2>1. k \in 0 .. n /\ cursor + k = top /\ top <= Len(a) /\ top \in Nat /\ top # Absent
    BY <1>4, <1>5, <1>6, <1>10, <1>15, <1>16
  <2>2. out' = out \o Take(batch, k) BY <1>1, <1>6, <1>16 DEF Remaining, top
  <2> HIDE DEF k
  <2>3. out' \in Seq(Cells) /\ Len(out') = top /\ \A i \in 1 .. top : out'[i] = Decode(a[i]) BY <1>13, <2>1, <2>2
  <2>4. Len(E) = top BY <1>4, <1>7, <2>1
  <2>5. Decodes(E)'
    <3>1. E' = E BY <1>1, <1>3 DEF E, top, a
    <3> QED BY <1>7, <2>3, <2>4, <3>1 DEF Decodes
  <2>6. phase' = "done" BY <1>1, <1>16
  <2> QED BY <1>1, <1>2, <1>3, <2>5, <2>6 DEF ScanInv, E, top, a
<1>17. CASE ~enough
  <2>1. n \in 0 .. n BY <1>10
  <2>2. out' = out \o Take(batch, n) BY <1>1, <1>14, <1>17
  <2>3. out' \in Seq(Cells) /\ Len(out') = cursor + n /\ \A i \in 1 .. cursor + n : out'[i] = Decode(a[i])
    BY <1>13, <2>1, <2>2
  <2>4. CASE more /\ pages' < MaxPages
    <3>1. phase' = "fetch" BY <1>1, <1>17, <2>4
    <3>2. cursor' = cursor + n /\ cursor' \in 0 .. Len(a) BY <1>1, <1>4, <1>6, <1>10 DEF n
    <3>3. pages' \in 0 .. MaxPages - 1 BY <1>1, <1>5, <1>6, <2>4
    <3>4. scan.kind = "rest" /\ top # Absent => cursor' <= top BY <1>5, <1>6, <1>10, <1>15, <1>17, <3>2
    <3>5. Fetching' BY <1>1, <1>3, <2>3, <3>2, <3>3, <3>4 DEF Fetching, top, a
    <3> QED BY <1>1, <1>2, <1>3, <3>1, <3>5 DEF ScanInv
  <2>5. CASE more /\ ~(pages' < MaxPages)
    <3>1. truncated' /\ phase' = "done"
      <4>1. pages' = MaxPages BY <1>1, <1>5, <1>6, <2>5
      <4> QED BY <1>1, <1>17, <2>5, <4>1
    <3> QED BY <1>1, <1>2, <1>3, <3>1 DEF ScanInv
  <2>6. CASE ~more
    <3>1. phase' = "done" BY <1>1, <2>6
    <3>2. n = Len(a) - cursor BY <1>4, <1>5, <1>6, <1>8, <2>6 DEF more
    <3>3. Len(E) = Len(a)
      <4>1. CASE scan.kind = "odata" BY <1>4, <4>1
      <4>2. CASE scan.kind = "rest" BY <1>4, <1>5, <1>6, <1>7, <1>15, <1>17, <3>2, <4>2
      <4> QED BY <1>5, <4>1, <4>2
    <3>4. cursor + n = Len(a) BY <1>4, <1>6, <3>2
    <3>5. Decodes(E)'
      <4>1. E' = E BY <1>1, <1>3 DEF E, top, a
      <4> QED BY <1>7, <2>3, <3>3, <3>4, <4>1 DEF Decodes
    <3> QED BY <1>1, <1>2, <1>3, <3>1, <3>5 DEF ScanInv, E, top, a
  <2> QED BY <2>4, <2>5, <2>6
<1> QED BY <1>16, <1>17

\* The filters with some verdicts are those, whatever their order.
LEMMA JudgedHas ==
    ASSUME scan.filters \in Seq(Range(scan.filters)), NEW V
    PROVE  /\ \A j \in DOMAIN Judged(V) :
                 \E i \in DOMAIN scan.filters : Verdict(scan.filters[i]) \in V /\ Judged(V)[j] = scan.filters[i]
           /\ \A i \in DOMAIN scan.filters :
                 Verdict(scan.filters[i]) \in V => \E j \in DOMAIN Judged(V) : Judged(V)[j] = scan.filters[i]
           /\ Judged(V) = <<>> => \A i \in DOMAIN scan.filters : Verdict(scan.filters[i]) \notin V
<1> DEFINE K == {i \in DOMAIN scan.filters : Verdict(scan.filters[i]) \in V}
           r == Retain(scan.filters, K)
<1>1. K \in SUBSET DOMAIN scan.filters /\ Judged(V) = r BY DEF Judged
<1>2. \A i \in DOMAIN scan.filters : i \in K <=> Verdict(scan.filters[i]) \in V OBVIOUS
<1> HIDE DEF K
<1>3. /\ IsFiniteSet(K) /\ K \in SUBSET Nat /\ DOMAIN r = 1 .. Cardinality(K)
      /\ \A n \in 1 .. Cardinality(K) : Nth(K, n) \in K /\ r[n] = scan.filters[Nth(K, n)]
  BY <1>1, RetainIsList
<1>4. \A p \in K : \E n \in 1 .. Cardinality(K) : Nth(K, n) = p BY <1>3, NthEnumerates
<1> HIDE DEF r
<1>5. ASSUME NEW j \in DOMAIN r
      PROVE  \E i \in DOMAIN scan.filters : Verdict(scan.filters[i]) \in V /\ r[j] = scan.filters[i]
  <2>1. Nth(K, j) \in K /\ Nth(K, j) \in DOMAIN scan.filters /\ r[j] = scan.filters[Nth(K, j)] BY <1>1, <1>3
  <2> QED BY <1>2, <2>1
<1>6. ASSUME NEW i \in DOMAIN scan.filters, Verdict(scan.filters[i]) \in V
      PROVE  \E j \in DOMAIN r : r[j] = scan.filters[i]
  <2>1. i \in K BY <1>2, <1>6
  <2>2. PICK n \in 1 .. Cardinality(K) : Nth(K, n) = i BY <1>4, <2>1
  <2> QED BY <1>3, <2>2
<1>7. r = <<>> => \A j \in DOMAIN r : FALSE OBVIOUS
<1>8. r = <<>> => \A i \in DOMAIN scan.filters : Verdict(scan.filters[i]) \notin V BY <1>6, <1>7
<1> QED BY <1>1, <1>5, <1>6, <1>8

\* No filter is lost: what the source answers and
\* what stays above the scan are together what was asked.
LEMMA NoFilterLost ==
    ASSUME ScansAreScans, scan \in Scans, request = Asked,
           scan.kind = "odata" /\ scan.nulls = "false" => \A i \in DOMAIN scan.filters : ~Negates(scan.filters[i]),
           NEW v \in Rows
    PROVE  (Serves(v) /\ \A j \in DOMAIN Residual : Sql(Residual[j], v) = "true")
           <=> \A i \in DOMAIN scan.filters : Sql(scan.filters[i], v) = "true"
<1> DEFINE F == scan.filters
           P == request.filters
           Pass(f) == Sql(f, v) = "true"
<1>0. /\ Null \notin Int /\ v \in Int \cup {Null} /\ F \in Seq(Range(F)) /\ scan.kind \in {"rest", "odata"}
      /\ scan.nulls \in {"false", "unknown"} /\ \A i \in DOMAIN F : IsFilter(F[i])
  BY ScanTypes DEF Rows
<1>1. P = Judged({"exact", "inexact"}) BY DEF Asked
<1>2. \A i \in DOMAIN F : Verdict(F[i]) \in {"exact", "inexact", "unsupported"} BY DEF Verdict
<1>3. /\ \A j \in DOMAIN P : \E i \in DOMAIN F : Verdict(F[i]) \in {"exact", "inexact"} /\ P[j] = F[i]
      /\ \A i \in DOMAIN F : Verdict(F[i]) \in {"exact", "inexact"} => \E j \in DOMAIN P : P[j] = F[i]
  BY <1>0, <1>1, JudgedHas
<1>4. /\ \A j \in DOMAIN Residual :
            \E i \in DOMAIN F : Verdict(F[i]) \in {"inexact", "unsupported"} /\ Residual[j] = F[i]
      /\ \A i \in DOMAIN F : Verdict(F[i]) \in {"inexact", "unsupported"}
                             => \E j \in DOMAIN Residual : Residual[j] = F[i]
  BY <1>0, JudgedHas DEF Residual
<1>5. (\A j \in DOMAIN Residual : Pass(Residual[j]))
      <=> \A i \in DOMAIN F : Verdict(F[i]) \in {"inexact", "unsupported"} => Pass(F[i])
  <2> HIDE DEF Pass, F
  <2> QED BY <1>4
<1>6. CASE scan.kind = "odata"
  <2>1. \A i \in DOMAIN F : Verdict(F[i]) \in {"exact", "unsupported"} BY <1>6 DEF Verdict
  <2>2. ASSUME NEW i \in DOMAIN F, Verdict(F[i]) = "exact"
        PROVE  Service(TranslateExpr(F[i]), v, scan.nulls) = "true" <=> Pass(F[i])
    <3>1. TranslateExpr(F[i]) # Absent BY <2>2 DEF Verdict
    <3>2. \A j \in DOMAIN F[i] : Translates(F[i][j]) BY <3>1 DEF TranslateExpr
    <3>3. scan.nulls = "false" => ~Negates(F[i]) BY <1>6
    <3> QED BY <1>0, <3>2, <3>3, ServiceIsSql
  <2>3. Serves(v) <=> \A j \in DOMAIN P : Service(TranslateExpr(P[j]), v, scan.nulls) = "true" BY <1>6 DEF Serves
  <2>4. Serves(v) <=> \A i \in DOMAIN F : Verdict(F[i]) = "exact" => Pass(F[i])
    <3> HIDE DEF Pass, F, P
    <3> QED BY <1>3, <2>1, <2>2, <2>3
  <2> HIDE DEF Pass, F
  <2>5. (Serves(v) /\ \A j \in DOMAIN Residual : Pass(Residual[j])) <=> \A i \in DOMAIN F : Pass(F[i])
    BY <1>5, <2>1, <2>4
  <2> QED BY <2>5 DEF Pass, F
<1>7. CASE scan.kind = "rest"
  <2>1. \A i \in DOMAIN F : Verdict(F[i]) \in {"inexact", "unsupported"} BY <1>7 DEF Verdict
  <2>2. ASSUME NEW i \in DOMAIN F, Verdict(F[i]) = "inexact"
        PROVE  Pass(F[i]) <=> v = F[i][1].lit
    <3>1. IsPushable(F[i]) BY <2>2 DEF Verdict
    <3> QED BY <1>0, <3>1, PushedIsSql
  <2>3. (\A j \in DOMAIN P : v = P[j][1].lit) => Serves(v) BY <1>7 DEF Serves
  <2>4. (\A i \in DOMAIN F : Pass(F[i])) => Serves(v)
    <3> HIDE DEF Pass, F, P
    <3> QED BY <1>3, <2>1, <2>2, <2>3
  <2> HIDE DEF Pass, F
  <2>5. (Serves(v) /\ \A j \in DOMAIN Residual : Pass(Residual[j])) <=> \A i \in DOMAIN F : Pass(F[i])
    BY <1>5, <2>1, <2>4
  <2> QED BY <2>5 DEF Pass, F
<1> QED BY <1>0, <1>6, <1>7

LEMMA InvIsExact ==
    ASSUME ScansAreScans, ScanInv
    PROVE  ScanExact
<1> SUFFICES ASSUME phase = "done", ~truncated,
                    \A i \in DOMAIN scan.table : scan.table[i] = Decode(scan.table[i]),
                    scan.kind = "odata" /\ scan.nulls = "false"
                        => \A i \in DOMAIN scan.filters : ~Negates(scan.filters[i])
             PROVE  Result = Take(Where(scan.table, scan.filters), scan.limit)
  BY DEF ScanExact
<1> DEFINE T == scan.table
           K == {i \in DOMAIN T : Serves(T[i])}
           L == {i \in DOMAIN T : \A j \in DOMAIN scan.filters : Sql(scan.filters[j], T[i]) = "true"}
           top == request.top
           E == Take(Served, top)
<1>1. scan \in Scans /\ request = Asked /\ Decodes(E)
  <2>1. scan \in Scans /\ request = Asked /\ Decodes(Take(Answer, request.top)) BY DEF ScanInv
  <2> QED BY <2>1, AnswerIsList
<1>2. /\ T \in Seq(Rows) /\ top \in Nat \cup {Absent} /\ scan.limit \in Nat \cup {Absent} /\ Absent \notin Nat
      /\ scan.filters \in Seq(Range(scan.filters))
  BY <1>1, ScanTypes
<1>3. \A i \in DOMAIN T : T[i] \in Rows
  <2> HIDE DEF T
  <2>1. DOMAIN T = 1 .. Len(T) BY <1>2, LenProperties
  <2> QED BY <1>2, <2>1, ElementOfSeq
<1>4. K \in SUBSET DOMAIN T /\ Served = Retain(T, K) BY DEF Served
<1>5. ASSUME NEW i \in DOMAIN T
      PROVE  i \in L <=> i \in K /\ \A j \in DOMAIN Residual : Sql(Residual[j], T[i]) = "true"
  BY <1>1, <1>3, NoFilterLost
<1>6. Where(T, scan.filters) = Retain(T, L) BY DEF Where
<1>7. L \in SUBSET K BY <1>5
<1> HIDE DEF K, L
<1>8. /\ Served \in Seq(Rows) /\ DOMAIN Served = 1 .. Cardinality(K)
      /\ \A n \in DOMAIN Served : Nth(K, n) \in K /\ Served[n] = T[Nth(K, n)]
  <2> HIDE DEF T
  <2>1. /\ Retain(T, K) \in Seq(Rows) /\ DOMAIN Retain(T, K) = 1 .. Cardinality(K)
        /\ \A n \in 1 .. Cardinality(K) : Nth(K, n) \in K /\ Retain(T, K)[n] = T[Nth(K, n)]
    BY <1>2, <1>4, RetainIsList
  <2> QED BY <1>4, <2>1
<1>9. Where(Served, Residual) = Retain(T, L)
  <2> DEFINE M == {n \in DOMAIN Served : \A j \in DOMAIN Residual : Sql(Residual[j], Served[n]) = "true"}
  <2>1. \A n \in DOMAIN Served : n \in M <=> Nth(K, n) \in L BY <1>4, <1>5, <1>8
  <2>2. M = {n \in DOMAIN Served : Nth(K, n) \in L}
    <3>1. M \in SUBSET DOMAIN Served OBVIOUS
    <3> HIDE DEF M
    <3> QED BY <2>1, <3>1
  <2>3. Where(Served, Residual) = Retain(Served, M) BY DEF Where
  <2> HIDE DEF M
  <2> QED BY <1>2, <1>4, <1>7, <2>2, <2>3, RetainTwice
<1>10. out = E
  <2>1. /\ E \in Seq(Rows) /\ Len(E) = IF top = Absent \/ Len(Served) <= top THEN Len(Served) ELSE top
        /\ \A i \in 1 .. Len(E) : E[i] = Served[i]
    BY <1>2, <1>8, TakeIsPrefix
  <2>2. Len(Served) \in Nat /\ DOMAIN Served = 1 .. Len(Served) BY <1>8, LenProperties
  <2> HIDE DEF E, top, T
  <2>3. Len(E) \in Nat /\ \A i \in 1 .. Len(E) : i \in DOMAIN Served BY <1>2, <2>1, <2>2
  <2>4. ASSUME NEW i \in 1 .. Len(E) PROVE Decode(E[i]) = E[i]
    <3>1. i \in DOMAIN Served /\ E[i] = T[Nth(K, i)] /\ Nth(K, i) \in DOMAIN T BY <1>4, <1>8, <2>1, <2>3
    <3> QED BY <3>1 DEF T
  <2>5. out \in Seq(Cells) /\ Len(out) = Len(E) /\ \A i \in 1 .. Len(E) : out[i] = E[i] BY <1>1, <2>4 DEF Decodes
  <2>6. out \in Seq(Cells \cup Rows) /\ E \in Seq(Cells \cup Rows) BY <2>1, <2>5, SeqMonotonic
  <2> QED BY <2>5, <2>6, SeqEqual
<1>11. CASE Residual = <<>>
  <2>1. top = scan.limit BY <1>1, <1>11 DEF Asked
  <2>2. E \in Seq(Rows) /\ Take(E, top) = E BY <1>2, <1>8, TakeIsPrefix
  <2>3. ASSUME NEW s \in Seq(Rows) PROVE Where(s, Residual) = s
    <3>0. DOMAIN Residual = {} BY <1>11
    <3>1. {i \in DOMAIN s : \A j \in DOMAIN Residual : Sql(Residual[j], s[i]) = "true"} = DOMAIN s BY <3>0, Zenon
    <3>2. Where(s, Residual) = Retain(s, DOMAIN s) BY <3>1 DEF Where
    <3> QED BY <3>2, RetainAll
  <2> HIDE DEF E, top, T
  <2>4. Where(E, Residual) = E /\ Where(Served, Residual) = Served BY <1>8, <2>2, <2>3
  <2>5. Result = Take(E, scan.limit) BY <1>10, <2>4 DEF Result
  <2>6. Result = Take(Served, scan.limit) BY <2>1, <2>2, <2>5 DEF E
  <2> QED BY <1>6, <1>9, <2>4, <2>6 DEF T
<1>12. CASE Residual # <<>>
  <2>1. top = Absent BY <1>1, <1>12 DEF Asked
  <2>2. E = Served BY <2>1 DEF Take
  <2> HIDE DEF E, top, T
  <2> QED BY <1>6, <1>9, <1>10, <2>2 DEF Result, T
<1> QED BY <1>11, <1>12

\* Every scan of an HTTP source that ends without an error returned exactly
\* the rows that SQL asks for, whatever the filters, the table, the pages and
\* the limit, within the three limits that ScanExact names.
THEOREM ScansAreExact == ASSUME ScansAreScans PROVE Spec => []ScanExact
<1>1. Init => ScanInv BY DEF Init, ScanInv
<1>2. ScanInv /\ [Next]_vars => ScanInv'
  <2> SUFFICES ASSUME ScanInv, [Next]_vars PROVE ScanInv'
    OBVIOUS
  <2>1. CASE Plan BY <2>1, PlanKeeps
  <2>2. CASE FetchPage BY <2>2, FetchKeeps
  <2>3. CASE FetchFails BY <2>3 DEF FetchFails, ScanInv
  <2>4. CASE UNCHANGED vars
    <3>1. UNCHANGED <<scan, request>> /\ phase' = phase /\ cursor' = cursor /\ pages' = pages
          /\ out' = out /\ truncated' = truncated
      BY <2>4 DEF vars
    <3>2. Answer' = Answer /\ Asked' = Asked BY <3>1, AnswerStays
    <3> QED BY <3>1, <3>2 DEF ScanInv, Fetching, Decodes
  <2> QED BY <2>1, <2>2, <2>3, <2>4 DEF Next
<1>3. ScanInv => ScanExact BY InvIsExact
<1> QED BY <1>1, <1>2, <1>3, PTL DEF Spec
=============================================================================
