---------------------------- MODULE SequenceCounts ----------------------------
(* Counting and adding up.  A transcript is read in batches: a batch is the    *)
(* part of it between two positions, and what is counted in the batches adds   *)
(* up to what is counted in the part that was read.  What is counted in the    *)
(* transcripts of one session is then summed over them.                        *)
EXTENDS Integers, Sequences, FiniteSets, Functions, SequenceTheorems, FiniteSetTheorems,
        WellFoundedInduction, TLAPS

\* Where s has an element of D.
Positions(s, D) == {i \in DOMAIN s : s[i] \in D}

\* A part of a sequence, its length and its elements.
LEMMA PartOfSeq ==
  ASSUME NEW S, NEW s \in Seq(S), NEW k \in 0 .. Len(s), NEW n \in k .. Len(s)
  PROVE  /\ SubSeq(s, k + 1, n) \in Seq(S)
         /\ Len(SubSeq(s, k + 1, n)) = n - k
         /\ DOMAIN SubSeq(s, k + 1, n) = 1 .. n - k
         /\ \A i \in 1 .. n - k : SubSeq(s, k + 1, n)[i] = s[k + i]
<1>1. Len(s) \in Nat BY LenProperties
<1>2. k + 1 \in Int /\ n \in Int /\ k \in Nat /\ n \in Nat /\ k <= n BY <1>1
<1>3. \A i \in k + 1 .. n : s[i] \in S BY <1>1, ElementOfSeq
<1>4. /\ SubSeq(s, k + 1, n) \in Seq(S)
      /\ Len(SubSeq(s, k + 1, n)) = IF k + 1 <= n THEN n - (k + 1) + 1 ELSE 0
      /\ \A i \in 1 .. n - (k + 1) + 1 : SubSeq(s, k + 1, n)[i] = s[k + 1 + i - 1]
  BY <1>2, <1>3, SubSeqProperties
<1>5. (IF k + 1 <= n THEN n - (k + 1) + 1 ELSE 0) = n - k /\ n - (k + 1) + 1 = n - k BY <1>2
<1>6. \A i \in 1 .. n - k : k + 1 + i - 1 = k + i BY <1>2
<1>7. DOMAIN SubSeq(s, k + 1, n) = 1 .. n - k BY <1>4, <1>5, LenProperties
<1> QED BY <1>4, <1>5, <1>6, <1>7

\* What is appended does not change what was there.
LEMMA PartOfAppend ==
  ASSUME NEW S, NEW s \in Seq(S), NEW e \in S, NEW k \in 0 .. Len(s), NEW n \in k .. Len(s)
  PROVE  SubSeq(Append(s, e), k + 1, n) = SubSeq(s, k + 1, n)
<1> DEFINE t == Append(s, e)
<1>1. Len(s) \in Nat BY LenProperties
<1>2. t \in Seq(S) /\ Len(t) = Len(s) + 1 /\ \A i \in 1 .. Len(s) : t[i] = s[i]
  BY AppendProperties
<1> HIDE DEF t
<1>3. k \in 0 .. Len(t) /\ n \in k .. Len(t) BY <1>1, <1>2
<1> DEFINE p == SubSeq(t, k + 1, n)
           q == SubSeq(s, k + 1, n)
<1>4. /\ p \in Seq(S) /\ Len(p) = n - k
      /\ \A i \in 1 .. n - k : p[i] = t[k + i]
  BY <1>2, <1>3, PartOfSeq
<1>5. /\ q \in Seq(S) /\ Len(q) = n - k
      /\ \A i \in 1 .. n - k : q[i] = s[k + i]
  BY PartOfSeq
<1>6. \A i \in 1 .. n - k : k + i \in 1 .. Len(s) BY <1>1
<1>7. \A i \in 1 .. n - k : p[i] = q[i] BY <1>2, <1>4, <1>5, <1>6
<1> HIDE DEF p, q
<1>8. p = q BY <1>4, <1>5, <1>7, SeqEqual
<1> QED BY <1>8 DEF p, q, t

\* A sequence has finitely many positions.
LEMMA PositionsAreFinite ==
  ASSUME NEW S, NEW s \in Seq(S), NEW D
  PROVE  IsFiniteSet(Positions(s, D)) /\ Cardinality(Positions(s, D)) \in Nat
<1>1. Len(s) \in Nat /\ DOMAIN s = 1 .. Len(s) BY LenProperties
<1>2. IsFiniteSet(1 .. Len(s)) BY <1>1, FS_Interval
<1>3. Positions(s, D) \in SUBSET (1 .. Len(s)) BY <1>1 DEF Positions
<1> QED BY <1>2, <1>3, FS_Subset, FS_CardinalityType

\* The part up to n has what the part up to k has, and what lies between.
LEMMA CountsAddUp ==
  ASSUME NEW S, NEW s \in Seq(S), NEW D, NEW k \in 0 .. Len(s), NEW n \in k .. Len(s)
  PROVE  Cardinality(Positions(SubSeq(s, 1, n), D))
           = Cardinality(Positions(SubSeq(s, 1, k), D))
               + Cardinality(Positions(SubSeq(s, k + 1, n), D))
<1>1. Len(s) \in Nat /\ k \in Nat /\ n \in Nat /\ k <= n
  <2>1. Len(s) \in Nat BY LenProperties
  <2> QED BY <2>1
<1>2. 0 \in 0 .. Len(s) /\ k \in 0 .. Len(s) /\ n \in 0 .. Len(s) BY <1>1
<1> DEFINE a == SubSeq(s, 1, k)
           b == SubSeq(s, k + 1, n)
           c == SubSeq(s, 1, n)
           P == {i \in 1 .. k : s[i] \in D}
           Q == {i \in k + 1 .. n : s[i] \in D}
           f == [i \in Positions(b, D) |-> k + i]
<1>3. a \in Seq(S) /\ DOMAIN a = 1 .. k /\ \A i \in 1 .. k : a[i] = s[i]
  <2>1. /\ SubSeq(s, 0 + 1, k) \in Seq(S) /\ DOMAIN SubSeq(s, 0 + 1, k) = 1 .. k - 0
        /\ \A i \in 1 .. k - 0 : SubSeq(s, 0 + 1, k)[i] = s[0 + i]
    BY <1>2, PartOfSeq
  <2>2. 0 + 1 = 1 /\ k - 0 = k /\ \A i \in 1 .. k : 0 + i = i BY <1>1
  <2> QED BY <2>1, <2>2
<1>4. c \in Seq(S) /\ DOMAIN c = 1 .. n /\ \A i \in 1 .. n : c[i] = s[i]
  <2>1. /\ SubSeq(s, 0 + 1, n) \in Seq(S) /\ DOMAIN SubSeq(s, 0 + 1, n) = 1 .. n - 0
        /\ \A i \in 1 .. n - 0 : SubSeq(s, 0 + 1, n)[i] = s[0 + i]
    BY <1>2, PartOfSeq
  <2>2. 0 + 1 = 1 /\ n - 0 = n /\ \A i \in 1 .. n : 0 + i = i BY <1>1
  <2> QED BY <2>1, <2>2
<1>5. b \in Seq(S) /\ DOMAIN b = 1 .. n - k /\ \A i \in 1 .. n - k : b[i] = s[k + i]
  BY PartOfSeq
<1> HIDE DEF a, b, c
<1>6. Positions(a, D) = P BY <1>3 DEF Positions
<1>7. Positions(c, D) = P \cup Q /\ P \cap Q = {}
  <2>1. Positions(c, D) = {i \in 1 .. n : s[i] \in D} BY <1>4 DEF Positions
  <2> QED BY <1>1, <2>1
<1>8. IsFiniteSet(P) /\ IsFiniteSet(Positions(b, D))
      /\ Cardinality(P) \in Nat /\ Cardinality(Positions(b, D)) \in Nat
  <2>1. IsFiniteSet(Positions(a, D)) /\ Cardinality(Positions(a, D)) \in Nat
    BY <1>3, PositionsAreFinite, Zenon
  <2>2. IsFiniteSet(Positions(b, D)) /\ Cardinality(Positions(b, D)) \in Nat
    BY <1>5, PositionsAreFinite, Zenon
  <2> HIDE DEF P
  <2> QED BY <1>6, <2>1, <2>2, Zenon
<1>9. IsFiniteSet(Q) /\ Cardinality(Q) = Cardinality(Positions(b, D))
  <2>1. f \in [Positions(b, D) -> Q]
    BY <1>1, <1>5 DEF Positions
  <2>2. \A x, y \in Positions(b, D) : f[x] = f[y] => x = y
    BY <1>1, <1>5 DEF Positions
  <2>3. ASSUME NEW y \in Q PROVE \E x \in Positions(b, D) : f[x] = y
    <3>1. y - k \in 1 .. n - k /\ k + (y - k) = y BY <1>1
    <3>2. y - k \in Positions(b, D) BY <1>5, <3>1 DEF Positions
    <3> QED BY <3>1, <3>2
  <2> HIDE DEF f, Q
  <2>4. f \in Bijection(Positions(b, D), Q)
    BY <2>1, <2>2, <2>3 DEF Bijection, Injection, Surjection, IsInjective
  <2>5. ExistsBijection(Positions(b, D), Q) BY <2>4 DEF ExistsBijection
  <2> QED BY <1>8, <2>5, FS_Bijection
<1> HIDE DEF P, Q
<1>10. Cardinality(P \cup Q) = Cardinality(P) + Cardinality(Q) - Cardinality(P \cap Q)
  BY <1>8, <1>9, FS_Union
<1>11. Cardinality({}) = 0 BY FS_EmptySet
<1>12. Cardinality(Positions(c, D)) = Cardinality(Positions(a, D)) + Cardinality(Positions(b, D))
  <2>1. Cardinality(Positions(c, D)) = Cardinality(P) + Cardinality(Positions(b, D)) - 0
    BY <1>7, <1>9, <1>10, <1>11, Zenon
  <2>2. Cardinality(P) + Cardinality(Positions(b, D)) - 0
          = Cardinality(P) + Cardinality(Positions(b, D))
    BY <1>8
  <2> QED BY <1>6, <2>1, <2>2, Zenon
<1> QED BY <1>12 DEF a, b, c

-----------------------------------------------------------------------------
(* Sums over finite sets.  SumFunction is a fold, defined by recursion over the *)
(* subsets of its domain: what it satisfies is proved for all of them at once,  *)
(* by looking at a smallest subset for which it would fail.                     *)

\* The element a sum over s begins with.
One(s) == CHOOSE x \in s : TRUE

\* Function g has the sums of f over the sets in B.
SumsOver(B, f, g) == \A s \in B : g[s] = IF s = {} THEN 0 ELSE f[One(s)] + g[s \ {One(s)}]

LEMMA LeastNat ==
  ASSUME NEW N \in SUBSET Nat, N # {} PROVE \E n \in N : \A m \in N : ~(m < n)
<1>1. \E n \in N : \A m \in N : ~(<<m, n>> \in OpToRel(<, Nat))
  BY NatLessThanWellFounded, WFMin
<1> QED BY <1>1 DEF OpToRel

\* Induction over the subsets of a finite set: of those in B one is smallest.
LEMMA SmallestSet ==
  ASSUME NEW T, IsFiniteSet(T), NEW B \in SUBSET SUBSET T, B # {}
  PROVE  \E s \in B : IsFiniteSet(s) /\ \A x \in s : s \ {x} \notin B
<1>1. \A s \in SUBSET T : IsFiniteSet(s) /\ Cardinality(s) \in Nat
  BY FS_Subset, FS_CardinalityType
<1> DEFINE N == {Cardinality(s) : s \in B}
<1>2. N \in SUBSET Nat /\ N # {} BY <1>1
<1>3. PICK n \in N : \A m \in N : ~(m < n)
  <2> HIDE DEF N
  <2> QED BY <1>2, LeastNat
<1>4. PICK s \in B : Cardinality(s) = n BY <1>3
<1>5. ASSUME NEW x \in s, s \ {x} \in B PROVE FALSE
  <2>1. Cardinality(s \ {x}) = Cardinality(s) - 1 BY <1>1, <1>5, FS_RemoveElement
  <2>2. Cardinality(s \ {x}) \in N BY <1>5
  <2>3. ~(Cardinality(s \ {x}) < n) /\ Cardinality(s) \in Nat BY <1>1, <1>3, <2>2
  <2> QED BY <1>4, <2>1, <2>3
<1> QED BY <1>1, <1>5

LEMMA OneIn == ASSUME NEW s, s # {} PROVE One(s) \in s
BY DEF One

LEMMA SumsExist ==
  ASSUME NEW T, IsFiniteSet(T), NEW f PROVE \E g : DOMAIN g = SUBSET T /\ SumsOver(SUBSET T, f, g)
<1> DEFINE Small(n) == {s \in SUBSET T : Cardinality(s) <= n}
           Has(n) == \E g : SumsOver(Small(n), f, g)
           N == {n \in Nat : ~Has(n)}
<1>1. \A s \in SUBSET T : IsFiniteSet(s) /\ Cardinality(s) \in Nat
  BY FS_Subset, FS_CardinalityType
<1>2. \A n \in Nat : Has(n)
  <2> SUFFICES ASSUME N # {} PROVE FALSE OBVIOUS
  <2>1. PICK n \in N : \A m \in N : ~(m < n)
    <3>1. N \in SUBSET Nat OBVIOUS
    <3> HIDE DEF N
    <3> QED BY <3>1, LeastNat
  <2>2. ASSUME NEW h, NEW m \in Nat, n = m + 1 \/ n = 0, SumsOver(Small(m), f, h) \/ n = 0
        PROVE  Has(n)
    <3> DEFINE g == [s \in Small(n) |-> IF s = {} THEN 0 ELSE f[One(s)] + h[s \ {One(s)}]]
    <3>1. ASSUME NEW s \in Small(n)
          PROVE  g[s] = IF s = {} THEN 0 ELSE f[One(s)] + g[s \ {One(s)}]
      <4>1. CASE s = {} BY <4>1
      <4>2. CASE s # {}
        <5> DEFINE r == s \ {One(s)}
        <5>1. One(s) \in s BY <4>2, OneIn
        <5>2. Cardinality(r) = Cardinality(s) - 1 /\ Cardinality(r) \in Nat
          BY <1>1, <5>1, FS_RemoveElement
        <5>3. n # 0 BY <1>1, <3>1, <5>2
        <5>4. r \in Small(m) /\ r \in Small(n) BY <1>1, <2>2, <3>1, <5>2, <5>3
        <5>5. h[r] = IF r = {} THEN 0 ELSE f[One(r)] + h[r \ {One(r)}]
          BY <2>2, <5>3, <5>4 DEF SumsOver
        <5>6. g[r] = h[r] BY <5>4, <5>5
        <5> QED BY <4>2, <5>6
      <4> QED BY <4>1, <4>2
    <3>2. SumsOver(Small(n), f, g)
      <4> HIDE DEF g, Small
      <4> QED BY <3>1 DEF SumsOver
    <3> QED BY <3>2
  <2>3. n \in Nat /\ ~Has(n) OBVIOUS
  <2>4. n # 0 BY <2>2, <2>3
  <2>5. n - 1 \in Nat /\ n - 1 < n /\ n = (n - 1) + 1 BY <2>3, <2>4
  <2>6. Has(n - 1) BY <2>1, <2>5
  <2> QED BY <2>2, <2>3, <2>5, <2>6
<1>3. PICK h : SumsOver(SUBSET T, f, h)
  <2>1. Cardinality(T) \in Nat /\ \A s \in SUBSET T : Cardinality(s) <= Cardinality(T)
    BY FS_Subset, FS_CardinalityType
  <2>2. SUBSET T = Small(Cardinality(T)) BY <2>1
  <2>3. PICK h : SumsOver(Small(Cardinality(T)), f, h) BY <1>2, <2>1
  <2> QED BY <2>2, <2>3
<1> DEFINE g == [s \in SUBSET T |-> h[s]]
<1>4. SumsOver(SUBSET T, f, g)
  <2>1. ASSUME NEW s \in SUBSET T PROVE g[s] = IF s = {} THEN 0 ELSE f[One(s)] + g[s \ {One(s)}]
    <3>1. s \ {One(s)} \in SUBSET T OBVIOUS
    <3> QED BY <1>3, <3>1 DEF SumsOver
  <2> HIDE DEF g
  <2> QED BY <2>1 DEF SumsOver
<1> QED BY <1>4

\* A sum over a finite set, by the sums over its parts.
LEMMA SumIs ==
  ASSUME NEW T, IsFiniteSet(T), NEW f, DOMAIN f = T
  PROVE  \E g : SumsOver(SUBSET T, f, g) /\ SumFunction(f) = g[T]
<1> DEFINE Body(g) == [s \in SUBSET T |-> IF s = {} THEN 0 ELSE f[One(s)] + g[s \ {One(s)}]]
           G == CHOOSE g : g = Body(g)
<1>1. SumFunction(f) = G[T]
  BY DEF SumFunction, SumFunctionOnSet, FoldFunctionOnSet, MapThenFoldSet, One
<1>2. \E g : g = Body(g)
  <2>1. PICK h : DOMAIN h = SUBSET T /\ SumsOver(SUBSET T, f, h) BY SumsExist
  <2> DEFINE g == [s \in SUBSET T |-> h[s]]
  <2>2. ASSUME NEW s \in SUBSET T PROVE g[s] = Body(g)[s]
    <3>1. s \ {One(s)} \in SUBSET T OBVIOUS
    <3> QED BY <2>1, <3>1 DEF SumsOver
  <2>3. g = Body(g) BY <2>2
  <2> QED BY <2>3
<1>3. G = Body(G)
  <2> HIDE DEF Body
  <2> QED BY <1>2
<1>4. SumsOver(SUBSET T, f, G)
  <2> HIDE DEF G
  <2> QED BY <1>3 DEF SumsOver
<1> QED BY <1>1, <1>4

\* A sum grows by what is added to one of its terms.
LEMMA SumOfChange ==
  ASSUME NEW T, IsFiniteSet(T), NEW f \in [T -> Nat], NEW e \in [T -> Nat],
         NEW x \in T, NEW d \in Nat, e[x] = f[x] + d, \A y \in T \ {x} : e[y] = f[y]
  PROVE  SumFunction(f) \in Nat /\ SumFunction(e) = SumFunction(f) + d
<1>1. PICK g : SumsOver(SUBSET T, f, g) /\ SumFunction(f) = g[T] BY SumIs
<1>2. PICK h : SumsOver(SUBSET T, e, h) /\ SumFunction(e) = h[T] BY SumIs
<1> DEFINE P(s) == g[s] \in Nat /\ h[s] = g[s] + (IF x \in s THEN d ELSE 0)
           B == {s \in SUBSET T : ~P(s)}
<1>3. B = {}
  <2> SUFFICES ASSUME B # {} PROVE FALSE OBVIOUS
  <2>1. PICK s \in B : \A y \in s : s \ {y} \notin B
    <3>1. B \in SUBSET SUBSET T OBVIOUS
    <3> HIDE DEF B
    <3> QED BY <3>1, SmallestSet
  <2>2. s \in SUBSET T /\ ~P(s) OBVIOUS
  <2>3. CASE s = {}
    <3>1. g[s] = 0 /\ h[s] = 0 BY <1>1, <1>2, <2>2, <2>3 DEF SumsOver
    <3> QED BY <2>2, <2>3, <3>1
  <2>4. CASE s # {}
    <3> DEFINE y == One(s)
               r == s \ {One(s)}
    <3>1. y \in s /\ y \in T BY <2>2, <2>4, OneIn
    <3>2. r \in SUBSET T /\ P(r) BY <2>1, <2>2, <3>1
    <3>3. g[s] = f[y] + g[r] /\ h[s] = e[y] + h[r] BY <1>1, <1>2, <2>2, <2>4 DEF SumsOver
    <3>4. f[y] \in Nat /\ e[y] = f[y] + (IF x = y THEN d ELSE 0) BY <3>1
    <3>5. x \in r <=> x \in s /\ x # y OBVIOUS
    <3> HIDE DEF y, r
    <3>6. CASE x = y BY <2>2, <3>1, <3>2, <3>3, <3>4, <3>5, <3>6
    <3>7. CASE x # y BY <2>2, <3>1, <3>2, <3>3, <3>4, <3>5, <3>7
    <3> QED BY <3>6, <3>7
  <2> QED BY <2>3, <2>4
<1>4. P(T) BY <1>3
<1> QED BY <1>1, <1>2, <1>4

LEMMA SumOfZeros ==
  ASSUME NEW T, IsFiniteSet(T), NEW f, DOMAIN f = T, \A x \in T : f[x] = 0
  PROVE  SumFunction(f) = 0
<1>1. PICK g : SumsOver(SUBSET T, f, g) /\ SumFunction(f) = g[T] BY SumIs
<1> DEFINE B == {s \in SUBSET T : g[s] # 0}
<1>2. B = {}
  <2> SUFFICES ASSUME B # {} PROVE FALSE OBVIOUS
  <2>1. PICK s \in B : \A y \in s : s \ {y} \notin B
    <3>1. B \in SUBSET SUBSET T OBVIOUS
    <3> HIDE DEF B
    <3> QED BY <3>1, SmallestSet
  <2>2. CASE s = {} BY <1>1, <2>2 DEF SumsOver
  <2>3. CASE s # {}
    <3>1. One(s) \in s BY <2>3, OneIn
    <3>2. s \ {One(s)} \in SUBSET T /\ g[s \ {One(s)}] = 0 BY <2>1, <3>1
    <3>3. g[s] = f[One(s)] + g[s \ {One(s)}] BY <1>1, <2>3 DEF SumsOver
    <3>4. f[One(s)] = 0 BY <3>1
    <3> QED BY <3>2, <3>3, <3>4
  <2> QED BY <2>2, <2>3
<1> QED BY <1>1, <1>2

=============================================================================
