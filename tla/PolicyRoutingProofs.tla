-------------------------- MODULE PolicyRoutingProofs --------------------------
(***************************************************************************)
(* Proofs about device policies: what the compiler makes of a document, for *)
(* every document, and the properties of PolicyRouting.                     *)
(***************************************************************************)
EXTENDS PolicyRouting, FiniteSetTheorems, SequenceTheorems, TLAPS

-----------------------------------------------------------------------------
(* Induction, for sets in place of predicates *)

\* A set of naturals with 0 and every successor is the whole: otherwise n -> n + 1 would
\* take its members below a missing m into those of them that are not 0.
LEMMA NatSetInduction ==
    ASSUME NEW T \in SUBSET Nat, 0 \in T, \A n \in T : n + 1 \in T
    PROVE  T = Nat
<1> SUFFICES ASSUME NEW m \in Nat, m \notin T PROVE FALSE
    OBVIOUS
<1> DEFINE S == {n \in T : n < m}
           f == [n \in S |-> n + 1]
<1>1. IsFiniteSet(S) /\ Cardinality(S) \in Nat
  <2>1. S \in SUBSET Nat
      OBVIOUS
  <2>3. \A n \in S : n <= m
      BY <2>1
  <2> HIDE DEF S
  <2>2. IsFiniteSet(S)
      BY <2>1, <2>3, FS_BoundedSetOfNaturals
  <2> QED BY <2>2, FS_CardinalityType
<1>2. 0 \in S
    OBVIOUS
<1>3. IsFiniteSet(S \ {0}) /\ Cardinality(S \ {0}) < Cardinality(S)
  <2>1. IsFiniteSet(S \ {0}) /\ Cardinality(S \ {0}) = Cardinality(S) - 1
      BY <1>1, <1>2, FS_RemoveElement
  <2> QED BY <2>1, <1>1
<1>4. f \in [S -> S \ {0}]
  <2> SUFFICES ASSUME NEW n \in S PROVE n + 1 \in S \ {0}
      OBVIOUS
  <2>1. n \in Nat /\ n + 1 \in T /\ n < m
      OBVIOUS
  <2>2. n + 1 # m
      BY <2>1
  <2> QED BY <2>1, <2>2
<1>5. \E x, y \in S : x # y /\ f[x] = f[y]
  <2> HIDE DEF S, f
  <2> QED BY <1>1, <1>3, <1>4, FS_PigeonHole
<1> QED BY <1>5

\* A set of sequences with the empty one and every extension by an element has them all.
LEMMA SeqSetInduction ==
    ASSUME NEW X, NEW T \in SUBSET Seq(X), << >> \in T,
           \A s \in T, e \in X : Append(s, e) \in T
    PROVE  T = Seq(X)
<1> DEFINE N == {n \in Nat : \A s \in Seq(X) : Len(s) = n => s \in T}
<1>1. 0 \in N
    OBVIOUS
<1>2. ASSUME NEW n \in N PROVE n + 1 \in N
  <2> SUFFICES ASSUME NEW s \in Seq(X), Len(s) = n + 1 PROVE s \in T
      OBVIOUS
  <2> DEFINE front == [i \in 1..n |-> s[i]]
  <2>1. n \in Nat
      OBVIOUS
  <2>2. front \in Seq(X) /\ Len(front) = n
      BY <2>1
  <2>3. s[n + 1] \in X
      BY <2>1
  <2>4. Append(front, s[n + 1]) = s
      BY <2>1, <2>2, <2>3
  <2> QED BY <2>2, <2>3, <2>4
<1>3. N = Nat
    BY <1>1, <1>2, NatSetInduction, N \in SUBSET Nat
<1>4. \A s \in Seq(X) : Len(s) \in N
    BY <1>3
<1> QED BY <1>4

\* The least member of a set of naturals, as the definitions choose it.
LEMMA LeastNat ==
    ASSUME NEW T \in SUBSET Nat, T # {}
    PROVE  \E m \in T : \A k \in T : m <= k
<1> SUFFICES ASSUME \A m \in T : \E k \in T : k < m PROVE FALSE
    OBVIOUS
<1> DEFINE N == {n \in Nat : \A m \in T : n <= m}
<1>1. N = Nat
  <2>1. 0 \in N
      OBVIOUS
  <2>2. ASSUME NEW n \in N PROVE n + 1 \in N
      OBVIOUS
  <2> QED BY <2>1, <2>2, NatSetInduction, N \in SUBSET Nat
<1>2. PICK m \in T : TRUE
    OBVIOUS
<1>3. m + 1 \in N
    BY <1>1
<1> QED BY <1>3

-----------------------------------------------------------------------------
(* FlattenSeq *)

\* f[i] is what the first i sequences of s make, as in the definition of FlattenSeq.
PartSumsTo(n, s, f, X) ==
    /\ f \in [1..n -> Seq(X)]
    /\ \A i \in 1..n : f[i] = IF i = 1 THEN s[i] ELSE f[i - 1] \o s[i]

PartSums(s, f, X) == PartSumsTo(Len(s), s, f, X)

LEMMA PartSumsExist ==
    ASSUME NEW X, NEW s \in Seq(Seq(X))
    PROVE  \E f : PartSums(s, f, X)
<1> DEFINE Made(n) == n <= Len(s) => \E f : PartSumsTo(n, s, f, X)
           N == {n \in Nat : Made(n)}
<1>1. Made(0)
  <2> DEFINE f == [i \in 1..0 |-> << >>]
  <2>1. PartSumsTo(0, s, f, X)
      BY DEF PartSumsTo
  <2> QED BY <2>1
<1>2. ASSUME NEW n \in Nat, Made(n) PROVE Made(n + 1)
  <2> SUFFICES ASSUME n + 1 <= Len(s) PROVE \E g : PartSumsTo(n + 1, s, g, X)
      OBVIOUS
  <2>1. s[n + 1] \in Seq(X)
      OBVIOUS
  <2>2. PICK f : PartSumsTo(n, s, f, X)
      BY <1>2
  <2> DEFINE last == IF n = 0 THEN s[1] ELSE f[n] \o s[n + 1]
             g == [i \in 1..n + 1 |-> IF i = n + 1 THEN last ELSE f[i]]
  <2>3. last \in Seq(X)
    <3>1. CASE n = 0
        BY <3>1, <2>1
    <3>2. CASE n # 0
      <4>1. f[n] \in Seq(X)
          BY <3>2, <2>1, <2>2 DEF PartSumsTo
      <4> QED BY <4>1, <3>2, <2>1
    <3> QED BY <3>1, <3>2
  <2> HIDE DEF last
  <2>4. g \in [1..n + 1 -> Seq(X)]
      BY <2>1, <2>2, <2>3 DEF PartSumsTo
  <2>5. ASSUME NEW i \in 1..n + 1 PROVE g[i] = IF i = 1 THEN s[i] ELSE g[i - 1] \o s[i]
    <3>1. CASE i = n + 1
        BY <3>1, <2>1 DEF last
    <3>2. CASE i # n + 1
      <4>1. i \in 1..n /\ g[i] = f[i] /\ (i # 1 => g[i - 1] = f[i - 1])
          BY <3>2, <2>1
      <4> QED BY <4>1, <2>2 DEF PartSumsTo
    <3> QED BY <3>1, <3>2
  <2> HIDE DEF g
  <2>6. PartSumsTo(n + 1, s, g, X)
      BY <2>4, <2>5 DEF PartSumsTo
  <2> QED BY <2>6
<1> HIDE DEF Made
<1>3. N = Nat
  <2>1. 0 \in N
      BY <1>1
  <2>2. \A n \in N : n + 1 \in N
      BY <1>2
  <2>3. N \in SUBSET Nat
      OBVIOUS
  <2> HIDE DEF N
  <2> QED BY <2>1, <2>2, <2>3, NatSetInduction
<1>4. Made(Len(s))
    BY <1>3, Len(s) \in Nat
<1> QED BY <1>4 DEF Made, PartSums

\* The recursive function in the definition of FlattenSeq is the only one of its kind.
LEMMA FlattenIsLastSum ==
    ASSUME NEW X, NEW s \in Seq(Seq(X)), Len(s) # 0, NEW f, PartSums(s, f, X)
    PROVE  FlattenSeq(s) = f[Len(s)]
<1> DEFINE Recursive(g) == g = [i \in 1..Len(s) |-> IF i = 1 THEN s[i] ELSE g[i - 1] \o s[i]]
<1>1. Recursive(f)
    BY DEF PartSums, PartSumsTo
<1>2. ASSUME NEW g, Recursive(g) PROVE g = f
  <2> DEFINE N == {n \in Nat : n \in 1..Len(s) => g[n] = f[n]}
  <2>1. 0 \in N
      OBVIOUS
  <2>2. ASSUME NEW n \in N PROVE n + 1 \in N
    <3> SUFFICES ASSUME n + 1 \in 1..Len(s) PROVE g[n + 1] = f[n + 1]
        OBVIOUS
    <3>1. g[n + 1] = IF n + 1 = 1 THEN s[n + 1] ELSE g[n] \o s[n + 1]
      <4>1. n \in Nat /\ (n + 1) - 1 = n
          OBVIOUS
      <4> QED BY <4>1, <1>2
    <3>2. f[n + 1] = IF n + 1 = 1 THEN s[n + 1] ELSE f[n] \o s[n + 1]
      <4>1. n \in Nat /\ (n + 1) - 1 = n
          OBVIOUS
      <4> QED BY <4>1, <1>1
    <3>3. CASE n = 0
        BY <3>1, <3>2, <3>3
    <3>4. CASE n # 0
      <4>1. g[n] = f[n]
          BY <3>4
      <4> QED BY <4>1, <3>1, <3>2
    <3> QED BY <3>3, <3>4
  <2>3. N = Nat
      BY <2>1, <2>2, NatSetInduction, N \in SUBSET Nat
  <2>4. \A i \in 1..Len(s) : g[i] = f[i]
      BY <2>3
  <2>5. g = [i \in 1..Len(s) |-> g[i]] /\ f = [i \in 1..Len(s) |-> f[i]]
      BY <1>1, <1>2
  <2> QED BY <2>4, <2>5
<1> HIDE DEF Recursive
<1>3. (CHOOSE g : Recursive(g)) = f
    BY <1>1, <1>2
<1> QED BY <1>3 DEF FlattenSeq, Recursive

\* What FlattenSeq does to one sequence more.
LEMMA FlattenStep ==
    ASSUME NEW X
    PROVE  /\ FlattenSeq(<< >>) = << >>
           /\ \A s \in Seq(Seq(X)), e \in Seq(X) :
                /\ FlattenSeq(Append(s, e)) = FlattenSeq(s) \o e
                /\ FlattenSeq(s) \in Seq(X)
<1>1. FlattenSeq(<< >>) = << >>
    BY DEF FlattenSeq
<1>2. ASSUME NEW s \in Seq(Seq(X)) PROVE FlattenSeq(s) \in Seq(X)
  <2>1. CASE Len(s) = 0
    <3>1. s = << >>
        BY <2>1
    <3>2. FlattenSeq(s) = << >>
        BY <3>1, <1>1
    <3> QED BY <3>2
  <2>2. CASE Len(s) # 0
    <3>1. PICK f : PartSums(s, f, X)
        BY PartSumsExist
    <3>2. FlattenSeq(s) = f[Len(s)]
        BY <3>1, <2>2, FlattenIsLastSum
    <3>3. Len(s) \in 1..Len(s)
        BY <2>2
    <3>4. \A i \in 1..Len(s) : f[i] \in Seq(X)
        BY <3>1 DEF PartSums, PartSumsTo
    <3>5. f[Len(s)] \in Seq(X)
        BY <3>3, <3>4
    <3> QED BY <3>2, <3>5
  <2> QED BY <2>1, <2>2
<1>3. ASSUME NEW s \in Seq(Seq(X)), NEW e \in Seq(X)
      PROVE  FlattenSeq(Append(s, e)) = FlattenSeq(s) \o e
  <2> DEFINE t == Append(s, e)
             n == Len(s)
  <2>1. t \in Seq(Seq(X)) /\ Len(t) = n + 1 /\ n \in Nat /\ t[n + 1] = e /\ \A i \in 1..n : t[i] = s[i]
      OBVIOUS
  <2> HIDE DEF t
  <2>2. PICK f : PartSums(t, f, X)
      BY <2>1, PartSumsExist
  <2>3. FlattenSeq(t) = f[n + 1]
      BY <2>1, <2>2, FlattenIsLastSum
  <2>4. CASE n = 0
    <3>1. s = << >>
        BY <2>4
    <3>2. f[n + 1] = e
        BY <2>1, <2>2, <2>4 DEF PartSums, PartSumsTo
    <3> QED BY <3>1, <3>2, <2>3, <1>1, <2>1 DEF t
  <2>5. CASE n # 0
    <3> DEFINE h == [i \in 1..n |-> f[i]]
    <3>1. PartSums(s, h, X)
      <4>1. h \in [1..n -> Seq(X)]
          BY <2>1, <2>2 DEF PartSums, PartSumsTo
      <4>2. ASSUME NEW i \in 1..n PROVE h[i] = IF i = 1 THEN s[i] ELSE h[i - 1] \o s[i]
        <5>0. i \in 1..Len(t)
            BY <2>1
        <5>1. f[i] = IF i = 1 THEN t[i] ELSE f[i - 1] \o t[i]
            BY <5>0, <2>2 DEF PartSums, PartSumsTo
        <5>2. t[i] = s[i] /\ h[i] = f[i] /\ (i # 1 => h[i - 1] = f[i - 1])
            BY <2>1
        <5>3. CASE i = 1
            BY <5>1, <5>2, <5>3
        <5>4. CASE i # 1
          <6>1. f[i] = f[i - 1] \o t[i] /\ h[i - 1] = f[i - 1]
              BY <5>1, <5>2, <5>4
          <6> QED BY <6>1, <5>2, <5>4
        <5> QED BY <5>3, <5>4
      <4> QED BY <4>1, <4>2 DEF PartSums, PartSumsTo
    <3> HIDE DEF h
    <3>2. FlattenSeq(s) = h[n]
        BY <3>1, <2>5, FlattenIsLastSum
    <3>3. h[n] = f[n]
        BY <2>1, <2>5 DEF h
    <3>4. f[n + 1] = f[n] \o e
      <4>1. (n + 1) - 1 = n /\ n + 1 # 1 /\ n + 1 \in 1..Len(t)
          BY <2>1, <2>5
      <4> QED BY <4>1, <2>1, <2>2 DEF PartSums, PartSumsTo
    <3> QED BY <3>2, <3>3, <3>4, <2>3 DEF t
  <2> QED BY <2>4, <2>5
<1> QED BY <1>1, <1>2, <1>3

LEMMA ConcatElements ==
    ASSUME NEW X, NEW s \in Seq(X), NEW t \in Seq(X)
    PROVE  /\ s \o t \in Seq(X)
           /\ ToSet(s \o t) = ToSet(s) \cup ToSet(t)
<1> DEFINE u == s \o t
<1>1. /\ u \in Seq(X) /\ Len(u) = Len(s) + Len(t)
      /\ \A i \in 1..Len(s) : u[i] = s[i]
      /\ \A i \in 1..Len(t) : u[Len(s) + i] = t[i]
      /\ \A i \in 1..Len(u) : i <= Len(s) \/ u[i] = t[i - Len(s)]
      /\ Len(s) \in Nat /\ Len(t) \in Nat
      /\ DOMAIN s = 1..Len(s) /\ DOMAIN t = 1..Len(t) /\ DOMAIN u = 1..Len(u)
    OBVIOUS
<1> HIDE DEF u
<1>2. ASSUME NEW x \in ToSet(u) PROVE x \in ToSet(s) \cup ToSet(t)
  <2>1. PICK i \in 1..Len(u) : x = u[i]
      BY <1>1 DEF ToSet
  <2>2. CASE i <= Len(s)
      BY <2>1, <2>2, <1>1 DEF ToSet
  <2>3. CASE ~(i <= Len(s))
    <3>1. i - Len(s) \in 1..Len(t) /\ x = t[i - Len(s)]
        BY <2>1, <2>3, <1>1
    <3> QED BY <3>1, <1>1 DEF ToSet
  <2> QED BY <2>2, <2>3
<1>3. ASSUME NEW x \in ToSet(s) PROVE x \in ToSet(u)
  <2>1. PICK i \in 1..Len(s) : x = s[i]
      BY <1>1 DEF ToSet
  <2>2. i \in 1..Len(u) /\ u[i] = x
      BY <2>1, <1>1
  <2> QED BY <2>2, <1>1 DEF ToSet
<1>4. ASSUME NEW x \in ToSet(t) PROVE x \in ToSet(u)
  <2>1. PICK i \in 1..Len(t) : x = t[i]
      BY <1>1 DEF ToSet
  <2>2. Len(s) + i \in 1..Len(u) /\ u[Len(s) + i] = x
      BY <2>1, <1>1
  <2> QED BY <2>2, <1>1 DEF ToSet
<1> QED BY <1>1, <1>2, <1>3, <1>4 DEF u

\* The elements of a flattened sequence.
LEMMA FlattenElements ==
    ASSUME NEW X, NEW ss \in Seq(Seq(X))
    PROVE  /\ FlattenSeq(ss) \in Seq(X)
           /\ ToSet(FlattenSeq(ss)) = UNION {ToSet(ss[k]) : k \in DOMAIN ss}
<1> DEFINE T == {s \in Seq(Seq(X)) : ToSet(FlattenSeq(s)) = UNION {ToSet(s[k]) : k \in DOMAIN s}}
<1>1. << >> \in T
    BY FlattenStep DEF ToSet
<1>2. ASSUME NEW s \in T, NEW e \in Seq(X) PROVE Append(s, e) \in T
  <2> DEFINE t == Append(s, e)
  <2>1. /\ s \in Seq(Seq(X)) /\ t \in Seq(Seq(X)) /\ FlattenSeq(t) = FlattenSeq(s) \o e
        /\ FlattenSeq(s) \in Seq(X)
      BY FlattenStep
  <2>2. ToSet(FlattenSeq(s) \o e) = ToSet(FlattenSeq(s)) \cup ToSet(e)
      BY <2>1, ConcatElements
  <2>3. ToSet(FlattenSeq(s)) = UNION {ToSet(s[k]) : k \in DOMAIN s}
      OBVIOUS
  <2>4. UNION {ToSet(t[k]) : k \in DOMAIN t} = (UNION {ToSet(s[k]) : k \in DOMAIN s}) \cup ToSet(e)
    <3>1. DOMAIN t = DOMAIN s \cup {Len(s) + 1} /\ t[Len(s) + 1] = e /\ \A k \in DOMAIN s : t[k] = s[k]
        BY <2>1
    <3> HIDE DEF t
    <3>2. ASSUME NEW x \in UNION {ToSet(t[k]) : k \in DOMAIN t}
          PROVE  x \in (UNION {ToSet(s[k]) : k \in DOMAIN s}) \cup ToSet(e)
      <4>1. PICK k \in DOMAIN t : x \in ToSet(t[k])
          BY <3>2
      <4> QED BY <3>1, <4>1
    <3>3. ASSUME NEW x \in (UNION {ToSet(s[k]) : k \in DOMAIN s}) \cup ToSet(e)
          PROVE  x \in UNION {ToSet(t[k]) : k \in DOMAIN t}
      <4>1. CASE x \in ToSet(e)
          BY <3>1, <4>1
      <4>2. CASE x \notin ToSet(e)
        <5>1. PICK k \in DOMAIN s : x \in ToSet(s[k])
            BY <3>3, <4>2
        <5> QED BY <3>1, <5>1
      <4> QED BY <4>1, <4>2
    <3> QED BY <3>2, <3>3
  <2>5. ToSet(FlattenSeq(t)) = UNION {ToSet(t[k]) : k \in DOMAIN t}
    <3> HIDE DEF t
    <3> QED BY <2>1, <2>2, <2>3, <2>4
  <2> QED BY <2>1, <2>5
<1>3. T = Seq(Seq(X))
  <2>1. T \in SUBSET Seq(Seq(X))
      OBVIOUS
  <2> HIDE DEF T
  <2> QED BY <1>1, <1>2, <2>1, SeqSetInduction
<1> QED BY <1>3, FlattenStep

-----------------------------------------------------------------------------
(* The first element of a sequence that is in a set *)

Avoids(s, P)     == \A i \in 1..Len(s) : s[i] \notin P
IsFirst(s, P, x) == \E i \in 1..Len(s) : s[i] = x /\ x \in P /\ \A j \in 1..i - 1 : s[j] \notin P

LEMMA AvoidsOrFirst ==
    ASSUME NEW X, NEW s \in Seq(X), NEW P
    PROVE  Avoids(s, P) \/ \E x \in X : IsFirst(s, P, x)
<1> SUFFICES ASSUME ~Avoids(s, P) PROVE \E x \in X : IsFirst(s, P, x)
    OBVIOUS
<1> DEFINE T == {i \in 1..Len(s) : s[i] \in P}
<1>1. T \in SUBSET Nat /\ T # {}
    BY DEF Avoids
<1>2. PICK m \in T : \A k \in T : m <= k
  <2> HIDE DEF T
  <2> QED BY <1>1, LeastNat
<1>3. IsFirst(s, P, s[m]) /\ s[m] \in X
    BY <1>2 DEF IsFirst
<1> QED BY <1>3

LEMMA FirstOfConcat ==
    ASSUME NEW X, NEW s \in Seq(X), NEW t \in Seq(X), NEW P
    PROVE  /\ Avoids(s, P) /\ Avoids(t, P) => Avoids(s \o t, P)
           /\ \A x : IsFirst(s, P, x) => IsFirst(s \o t, P, x)
           /\ \A x : Avoids(s, P) /\ IsFirst(t, P, x) => IsFirst(s \o t, P, x)
<1> DEFINE u == s \o t
<1>1. /\ u \in Seq(X) /\ Len(u) = Len(s) + Len(t)
      /\ \A i \in 1..Len(s) : u[i] = s[i]
      /\ \A i \in 1..Len(t) : u[Len(s) + i] = t[i]
      /\ \A i \in 1..Len(u) : i <= Len(s) \/ u[i] = t[i - Len(s)]
    OBVIOUS
<1>2. Len(s) \in Nat /\ Len(t) \in Nat
    OBVIOUS
<1> HIDE DEF u
<1>3. ASSUME Avoids(s, P), Avoids(t, P), NEW i \in 1..Len(u) PROVE u[i] \notin P
  <2>1. CASE i <= Len(s)
      BY <2>1, <1>1, <1>2, <1>3 DEF Avoids
  <2>2. CASE ~(i <= Len(s))
    <3>1. i - Len(s) \in 1..Len(t) /\ u[i] = t[i - Len(s)]
        BY <2>2, <1>1, <1>2
    <3> QED BY <3>1, <1>3 DEF Avoids
  <2> QED BY <2>1, <2>2
<1>4. ASSUME NEW x, IsFirst(s, P, x) PROVE IsFirst(u, P, x)
  <2>1. PICK i \in 1..Len(s) : s[i] = x /\ x \in P /\ \A j \in 1..i - 1 : s[j] \notin P
      BY <1>4 DEF IsFirst
  <2>2. i \in 1..Len(u) /\ u[i] = x
      BY <2>1, <1>1, <1>2
  <2>3. ASSUME NEW j \in 1..i - 1 PROVE u[j] \notin P
    <3>1. j \in 1..Len(s)
        BY <1>2
    <3> QED BY <3>1, <2>1, <1>1
  <2> QED BY <2>1, <2>2, <2>3 DEF IsFirst
<1>5. ASSUME NEW x, Avoids(s, P), IsFirst(t, P, x) PROVE IsFirst(u, P, x)
  <2>1. PICK i \in 1..Len(t) : t[i] = x /\ x \in P /\ \A j \in 1..i - 1 : t[j] \notin P
      BY <1>5 DEF IsFirst
  <2>2. Len(s) + i \in 1..Len(u) /\ u[Len(s) + i] = x
      BY <2>1, <1>1, <1>2
  <2>3. ASSUME NEW j \in 1..Len(s) + i - 1 PROVE u[j] \notin P
    <3>1. CASE j <= Len(s)
      <4>1. j \in 1..Len(s)
          BY <3>1, <1>2
      <4>2. u[j] = s[j]
          BY <4>1, <1>1
      <4>3. s[j] \notin P
          BY <4>1, <1>5 DEF Avoids
      <4> QED BY <4>2, <4>3
    <3>2. CASE ~(j <= Len(s))
      <4>1. j - Len(s) \in 1..i - 1 /\ j \in 1..Len(u)
          BY <3>2, <1>1, <1>2
      <4> QED BY <4>1, <3>2, <2>1, <1>1
    <3> QED BY <3>1, <3>2
  <2> QED BY <2>1, <2>2, <2>3 DEF IsFirst
<1>6. Avoids(s, P) /\ Avoids(t, P) => Avoids(u, P)
    BY <1>3 DEF Avoids
<1> QED BY <1>4, <1>5, <1>6 DEF u

LEMMA FirstOfFlatten ==
    ASSUME NEW X, NEW ss \in Seq(Seq(X)), NEW P
    PROVE  /\ (\A k \in 1..Len(ss) : Avoids(ss[k], P)) => Avoids(FlattenSeq(ss), P)
           /\ \A k \in 1..Len(ss), x \in X :
                (\A j \in 1..k - 1 : Avoids(ss[j], P)) /\ IsFirst(ss[k], P, x)
                   => IsFirst(FlattenSeq(ss), P, x)
<1> DEFINE None(s) == (\A k \in 1..Len(s) : Avoids(s[k], P)) => Avoids(FlattenSeq(s), P)
           Some(s) == \A k \in 1..Len(s), x \in X :
                        (\A j \in 1..k - 1 : Avoids(s[j], P)) /\ IsFirst(s[k], P, x)
                           => IsFirst(FlattenSeq(s), P, x)
           T == {s \in Seq(Seq(X)) : None(s) /\ Some(s)}
<1>1. << >> \in T
  <2>1. Avoids(FlattenSeq(<< >>), P)
      BY FlattenStep DEF Avoids
  <2> QED BY <2>1
<1>2. ASSUME NEW s \in Seq(Seq(X)), None(s), Some(s), NEW e \in Seq(X)
      PROVE  None(Append(s, e)) /\ Some(Append(s, e))
  <2> DEFINE t == Append(s, e)
  <2>1. /\ t \in Seq(Seq(X)) /\ Len(t) = Len(s) + 1 /\ t[Len(s) + 1] = e
        /\ \A k \in 1..Len(s) : t[k] = s[k]
        /\ Len(s) \in Nat
      OBVIOUS
  <2>2. FlattenSeq(t) = FlattenSeq(s) \o e /\ FlattenSeq(s) \in Seq(X)
      BY FlattenStep
  <2> HIDE DEF t
  <2>3. None(t)
    <3> SUFFICES ASSUME \A k \in 1..Len(t) : Avoids(t[k], P) PROVE Avoids(FlattenSeq(t), P)
        OBVIOUS
    <3>1. \A k \in 1..Len(s) : Avoids(s[k], P)
        BY <2>1
    <3>2. Avoids(e, P)
        BY <2>1
    <3> QED BY <3>1, <3>2, <1>2, <2>2, FirstOfConcat
  <2>4. ASSUME NEW k \in 1..Len(t), NEW x \in X,
               \A j \in 1..k - 1 : Avoids(t[j], P), IsFirst(t[k], P, x)
        PROVE  IsFirst(FlattenSeq(t), P, x)
    <3>1. CASE k = Len(s) + 1
      <4>1. \A j \in 1..Len(s) : Avoids(s[j], P)
          BY <3>1, <2>1, <2>4
      <4>2. IsFirst(e, P, x)
          BY <3>1, <2>1, <2>4
      <4> QED BY <4>1, <4>2, <1>2, <2>2, FirstOfConcat
    <3>2. CASE k # Len(s) + 1
      <4>1. k \in 1..Len(s)
          BY <3>2, <2>1
      <4>2. \A j \in 1..k - 1 : j \in 1..Len(s)
          BY <4>1, <2>1
      <4>3. IsFirst(s[k], P, x) /\ \A j \in 1..k - 1 : Avoids(s[j], P)
          BY <4>1, <4>2, <2>1, <2>4
      <4>4. IsFirst(FlattenSeq(s), P, x)
          BY <4>1, <4>3, <1>2
      <4> QED BY <4>4, <2>2, FirstOfConcat
    <3> QED BY <3>1, <3>2
  <2> QED BY <2>3, <2>4 DEF t
<1> HIDE DEF None, Some
<1>3. T = Seq(Seq(X))
  <2>1. T \in SUBSET Seq(Seq(X)) /\ \A s \in T, e \in Seq(X) : Append(s, e) \in T
    <3>1. ASSUME NEW s \in T, NEW e \in Seq(X) PROVE Append(s, e) \in T
      <4>1. Append(s, e) \in Seq(Seq(X))
          OBVIOUS
      <4> QED BY <4>1, <1>2
    <3> QED BY <3>1
  <2> HIDE DEF T
  <2> QED BY <1>1, <2>1, SeqSetInduction
<1>4. None(ss) /\ Some(ss)
    BY <1>3
<1> QED BY <1>4 DEF None, Some

-----------------------------------------------------------------------------
(* Where a list of rules leads *)

\* Every rule the compiler or a profile makes.
AnyCondition == (STRING \cup ToSet(Dimensions) \cup {"SRC-IP-CIDR"})
                \X (STRING \cup ReservedProviders \cup {"local"})
AnyTarget    == STRING \cup Builtins \cup ReservedGroups
AnyLine      == [when : SUBSET AnyCondition, to : AnyTarget]

Takers(r, memory, src, facts) == {line \in AnyLine : Takes(r, memory, line, src, facts)}

\* A packet goes where the first rule says that takes it.
LEMMA LeadsFirst ==
    ASSUME NEW r, NEW memory, NEW src, NEW facts, NEW otherwise, NEW lines \in Seq(AnyLine)
    PROVE  /\ Avoids(lines, Takers(r, memory, src, facts))
                => Leads(r, memory, lines, src, facts, otherwise) = otherwise
           /\ \A x : IsFirst(lines, Takers(r, memory, src, facts), x)
                => Leads(r, memory, lines, src, facts, otherwise) = Picked(r, memory, x.to)
<1> DEFINE P == Takers(r, memory, src, facts)
           taking == {i \in DOMAIN lines : Takes(r, memory, lines[i], src, facts)}
           least == CHOOSE i \in taking : \A j \in taking : i <= j
<1>1. DOMAIN lines = 1..Len(lines) /\ Len(lines) \in Nat /\ \A i \in 1..Len(lines) : lines[i] \in AnyLine
    OBVIOUS
<1>2. \A i \in 1..Len(lines) : i \in taking <=> lines[i] \in P
    BY <1>1 DEF Takers
<1>3. taking \in SUBSET (1..Len(lines))
    BY <1>1
<1>4. Leads(r, memory, lines, src, facts, otherwise)
        = IF taking = {} THEN otherwise ELSE Picked(r, memory, lines[least].to)
    BY DEF Leads
<1> HIDE DEF P, taking
<1>5. ASSUME Avoids(lines, P) PROVE taking = {}
    BY <1>2, <1>3, <1>5 DEF Avoids
<1>6. ASSUME NEW x, IsFirst(lines, P, x) PROVE taking # {} /\ lines[least] = x
  <2>1. PICK i \in 1..Len(lines) : lines[i] = x /\ x \in P /\ \A j \in 1..i - 1 : lines[j] \notin P
      BY <1>6 DEF IsFirst
  <2>2. i \in taking
      BY <1>2, <2>1
  <2>3. ASSUME NEW j \in taking PROVE i <= j
    <3>1. j \in 1..Len(lines) /\ lines[j] \in P
        BY <1>2, <1>3
    <3>2. j \notin 1..i - 1
        BY <3>1, <2>1
    <3> QED BY <3>1, <3>2, <1>1
  <2>4. ASSUME NEW k \in taking, \A j \in taking : k <= j PROVE k = i
    <3>1. k \in Nat /\ i \in Nat /\ k <= i /\ i <= k
        BY <2>2, <2>3, <2>4, <1>3, <1>1
    <3> QED BY <3>1
  <2>5. least = i
    <3> HIDE DEF least
    <3>1. least \in taking /\ \A j \in taking : least <= j
        BY <2>2, <2>3 DEF least
    <3> QED BY <3>1, <2>4
  <2> QED BY <2>1, <2>2, <2>5
<1> QED BY <1>4, <1>5, <1>6 DEF P

\* What a list does to a packet that two places of mihomo treat alike is the same in both.
LEMMA LeadsAlike ==
    ASSUME NEW r, NEW s, NEW m, NEW n, NEW src, NEW facts, NEW otherwise, NEW lines \in Seq(AnyLine),
           \A x \in ToSet(lines) : /\ Takes(r, m, x, src, facts) <=> Takes(s, n, x, src, facts)
                                   /\ Picked(r, m, x.to) = Picked(s, n, x.to)
    PROVE  Leads(r, m, lines, src, facts, otherwise) = Leads(s, n, lines, src, facts, otherwise)
<1> DEFINE P == Takers(r, m, src, facts)
           Q == Takers(s, n, src, facts)
<1>1. \A i \in 1..Len(lines) : lines[i] \in AnyLine /\ lines[i] \in ToSet(lines)
    BY DEF ToSet
<1>2. \A i \in 1..Len(lines) : lines[i] \in P <=> lines[i] \in Q
    BY <1>1 DEF Takers
<1>3. /\ Avoids(lines, P) => Leads(r, m, lines, src, facts, otherwise) = otherwise
      /\ \A x : IsFirst(lines, P, x)
           => Leads(r, m, lines, src, facts, otherwise) = Picked(r, m, x.to)
    BY LeadsFirst
<1>4. /\ Avoids(lines, Q) => Leads(s, n, lines, src, facts, otherwise) = otherwise
      /\ \A x : IsFirst(lines, Q, x)
           => Leads(s, n, lines, src, facts, otherwise) = Picked(s, n, x.to)
    BY LeadsFirst
<1> HIDE DEF P, Q
<1>5. CASE Avoids(lines, P)
  <2>1. Avoids(lines, Q)
      BY <1>2, <1>5 DEF Avoids
  <2> QED BY <2>1, <1>3, <1>4, <1>5
<1>6. ASSUME NEW x, IsFirst(lines, P, x)
      PROVE  Leads(r, m, lines, src, facts, otherwise) = Leads(s, n, lines, src, facts, otherwise)
  <2>1. PICK i \in 1..Len(lines) : lines[i] = x /\ x \in P /\ \A j \in 1..i - 1 : lines[j] \notin P
      BY <1>6 DEF IsFirst
  <2>2. \A j \in 1..i - 1 : j \in 1..Len(lines)
      OBVIOUS
  <2>3. IsFirst(lines, Q, x)
      BY <2>1, <2>2, <1>2 DEF IsFirst
  <2>4. Picked(r, m, x.to) = Picked(s, n, x.to)
      BY <2>1, <1>1
  <2> QED BY <2>3, <2>4, <1>3, <1>4, <1>6
<1> QED BY <1>5, <1>6, AvoidsOrFirst

\* What the first of two lists leaves is left to the second.
LEMMA LeadsThrough ==
    ASSUME NEW r, NEW memory, NEW src, NEW facts, NEW otherwise,
           NEW s \in Seq(AnyLine), NEW t \in Seq(AnyLine)
    PROVE  Leads(r, memory, s \o t, src, facts, otherwise)
             = Leads(r, memory, s, src, facts, Leads(r, memory, t, src, facts, otherwise))
<1> DEFINE P == Takers(r, memory, src, facts)
           Lead(lines, w) == Leads(r, memory, lines, src, facts, w)
<1>0. s \o t \in Seq(AnyLine)
    OBVIOUS
<1>1. \A w : \A lines \in Seq(AnyLine) :
        /\ Avoids(lines, P) => Lead(lines, w) = w
        /\ \A x : IsFirst(lines, P, x) => Lead(lines, w) = Picked(r, memory, x.to)
    BY LeadsFirst
<1> HIDE DEF P, Lead
<1>2. CASE Avoids(s, P) /\ Avoids(t, P)
  <2>1. Avoids(s \o t, P)
      BY <1>2, FirstOfConcat
  <2> QED BY <2>1, <1>0, <1>1, <1>2 DEF Lead
<1>3. ASSUME Avoids(s, P), NEW x, IsFirst(t, P, x)
      PROVE  Lead(s \o t, otherwise) = Lead(s, Lead(t, otherwise))
  <2>1. IsFirst(s \o t, P, x)
      BY <1>3, FirstOfConcat
  <2>2. Lead(s \o t, otherwise) = Picked(r, memory, x.to)
      BY <2>1, <1>0, <1>1
  <2>3. Lead(t, otherwise) = Picked(r, memory, x.to)
      BY <1>1, <1>3
  <2>4. Lead(s, Lead(t, otherwise)) = Lead(t, otherwise)
      BY <1>1, <1>3
  <2> QED BY <2>2, <2>3, <2>4
<1>4. ASSUME NEW x, IsFirst(s, P, x)
      PROVE  Lead(s \o t, otherwise) = Lead(s, Lead(t, otherwise))
  <2>1. IsFirst(s \o t, P, x)
      BY <1>4, FirstOfConcat
  <2>2. Lead(s \o t, otherwise) = Picked(r, memory, x.to)
      BY <2>1, <1>0, <1>1
  <2>3. Lead(s, Lead(t, otherwise)) = Picked(r, memory, x.to)
      BY <1>1, <1>4
  <2> QED BY <2>2, <2>3
<1> QED BY <1>2, <1>3, <1>4, AvoidsOrFirst DEF Lead

\* Of lists behind each other all but one of which let the packet pass only that one counts.
LEMMA LeadsOne ==
    ASSUME NEW r, NEW memory, NEW src, NEW facts, NEW otherwise,
           NEW ss \in Seq(Seq(AnyLine)), NEW k \in 1..Len(ss),
           \A j \in (1..Len(ss)) \ {k} : Avoids(ss[j], Takers(r, memory, src, facts))
    PROVE  Leads(r, memory, FlattenSeq(ss), src, facts, otherwise)
             = Leads(r, memory, ss[k], src, facts, otherwise)
<1> DEFINE P == Takers(r, memory, src, facts)
<1>1. ss[k] \in Seq(AnyLine) /\ FlattenSeq(ss) \in Seq(AnyLine) /\ Len(ss) \in Nat
    BY FlattenStep
<1>2. \A lines \in Seq(AnyLine) :
        /\ Avoids(lines, P) => Leads(r, memory, lines, src, facts, otherwise) = otherwise
        /\ \A x : IsFirst(lines, P, x)
             => Leads(r, memory, lines, src, facts, otherwise) = Picked(r, memory, x.to)
    BY LeadsFirst
<1>3. \A j \in 1..Len(ss) : j # k => Avoids(ss[j], P)
    OBVIOUS
<1> HIDE DEF P
<1>4. CASE Avoids(ss[k], P)
  <2>1. Avoids(FlattenSeq(ss), P)
      BY <1>3, <1>4, FirstOfFlatten
  <2> QED BY <2>1, <1>1, <1>2, <1>4
<1>5. ASSUME NEW x \in AnyLine, IsFirst(ss[k], P, x)
      PROVE  Leads(r, memory, FlattenSeq(ss), src, facts, otherwise)
               = Leads(r, memory, ss[k], src, facts, otherwise)
  <2>1. \A j \in 1..k - 1 : Avoids(ss[j], P)
      BY <1>1, <1>3
  <2>2. IsFirst(FlattenSeq(ss), P, x)
      BY <2>1, <1>5, FirstOfFlatten
  <2> QED BY <2>2, <1>1, <1>2, <1>5
<1> QED BY <1>1, <1>4, <1>5, AvoidsOrFirst

\* Lists that all let the packet pass leave it to what follows.
LEMMA LeadsNone ==
    ASSUME NEW r, NEW memory, NEW src, NEW facts, NEW otherwise, NEW ss \in Seq(Seq(AnyLine)),
           \A j \in 1..Len(ss) : Avoids(ss[j], Takers(r, memory, src, facts))
    PROVE  Leads(r, memory, FlattenSeq(ss), src, facts, otherwise) = otherwise
<1>1. FlattenSeq(ss) \in Seq(AnyLine)
    BY FlattenStep
<1>2. Avoids(FlattenSeq(ss), Takers(r, memory, src, facts))
    BY FirstOfFlatten
<1> QED BY <1>1, <1>2, LeadsFirst

-----------------------------------------------------------------------------
(* Sequences no two elements of which have a key in common *)

Unlike(s, K) == \A i, j \in 1..Len(s) : K[s[i]] = K[s[j]] => i = j

Apart(ss, K) ==
    /\ \A k \in 1..Len(ss) : Unlike(ss[k], K)
    /\ \A j, k \in 1..Len(ss) : j # k => \A x \in ToSet(ss[j]), y \in ToSet(ss[k]) : K[x] # K[y]

LEMMA ConcatUnlike ==
    ASSUME NEW X, NEW K, NEW s \in Seq(X), NEW t \in Seq(X), Unlike(s, K), Unlike(t, K),
           \A x \in ToSet(s), y \in ToSet(t) : K[x] # K[y]
    PROVE  Unlike(s \o t, K)
<1> DEFINE u == s \o t
<1>1. /\ u \in Seq(X) /\ Len(u) = Len(s) + Len(t)
      /\ \A i \in 1..Len(s) : u[i] = s[i]
      /\ \A i \in 1..Len(u) : i <= Len(s) \/ u[i] = t[i - Len(s)]
      /\ Len(s) \in Nat /\ Len(t) \in Nat
      /\ DOMAIN s = 1..Len(s) /\ DOMAIN t = 1..Len(t)
    OBVIOUS
<1> HIDE DEF u
<1>2. \A i \in 1..Len(s) : s[i] \in ToSet(s)
    BY <1>1 DEF ToSet
<1>3. \A i \in 1..Len(t) : t[i] \in ToSet(t)
    BY <1>1 DEF ToSet
<1>4. \A i \in 1..Len(u) : i <= Len(s) => i \in 1..Len(s)
    BY <1>1
<1>5. \A i \in 1..Len(u) : ~(i <= Len(s)) => i - Len(s) \in 1..Len(t) /\ u[i] = t[i - Len(s)]
    BY <1>1
<1>6. ASSUME NEW i \in 1..Len(u), NEW j \in 1..Len(u), K[u[i]] = K[u[j]] PROVE i = j
  <2>1. CASE i <= Len(s) /\ j <= Len(s)
    <3>1. K[s[i]] = K[s[j]] /\ i \in 1..Len(s) /\ j \in 1..Len(s)
        BY <2>1, <1>1, <1>4, <1>6
    <3> QED BY <3>1 DEF Unlike
  <2>2. CASE ~(i <= Len(s)) /\ ~(j <= Len(s))
    <3>1. /\ i - Len(s) \in 1..Len(t) /\ j - Len(s) \in 1..Len(t)
          /\ K[t[i - Len(s)]] = K[t[j - Len(s)]]
        BY <2>2, <1>5, <1>6
    <3>2. i - Len(s) = j - Len(s)
        BY <3>1 DEF Unlike
    <3> QED BY <3>2, <1>1
  <2>3. CASE i <= Len(s) /\ ~(j <= Len(s))
    <3>1. u[i] \in ToSet(s) /\ u[j] \in ToSet(t)
        BY <2>3, <1>1, <1>2, <1>3, <1>4, <1>5
    <3> QED BY <3>1, <1>6
  <2>4. CASE ~(i <= Len(s)) /\ j <= Len(s)
    <3>1. u[j] \in ToSet(s) /\ u[i] \in ToSet(t)
        BY <2>4, <1>1, <1>2, <1>3, <1>4, <1>5
    <3> QED BY <3>1, <1>6
  <2> QED BY <2>1, <2>2, <2>3, <2>4
<1> QED BY <1>6 DEF Unlike, u

LEMMA FlattenUnlike ==
    ASSUME NEW X, NEW K, NEW ss \in Seq(Seq(X)), Apart(ss, K)
    PROVE  Unlike(FlattenSeq(ss), K)
<1> DEFINE Fine(s) == Apart(s, K) => Unlike(FlattenSeq(s), K)
           T == {s \in Seq(Seq(X)) : Fine(s)}
<1>1. << >> \in T
  <2>1. Unlike(FlattenSeq(<< >>), K)
      BY FlattenStep DEF Unlike
  <2> QED BY <2>1
<1>2. ASSUME NEW s \in Seq(Seq(X)), Fine(s), NEW e \in Seq(X) PROVE Fine(Append(s, e))
  <2> DEFINE t == Append(s, e)
  <2>1. /\ t \in Seq(Seq(X)) /\ Len(t) = Len(s) + 1 /\ t[Len(s) + 1] = e
        /\ \A k \in 1..Len(s) : t[k] = s[k] /\ k \in 1..Len(t) /\ k # Len(s) + 1
        /\ Len(s) + 1 \in 1..Len(t) /\ DOMAIN s = 1..Len(s)
      OBVIOUS
  <2>2. FlattenSeq(t) = FlattenSeq(s) \o e /\ FlattenSeq(s) \in Seq(X)
      BY FlattenStep
  <2> HIDE DEF t
  <2> SUFFICES ASSUME Apart(t, K) PROVE Unlike(FlattenSeq(t), K)
      BY DEF t
  <2>3. Apart(s, K) /\ Unlike(e, K)
      BY <2>1 DEF Apart
  <2>4. ASSUME NEW x \in ToSet(FlattenSeq(s)), NEW y \in ToSet(e) PROVE K[x] # K[y]
    <3>0. x \in UNION {ToSet(s[k]) : k \in DOMAIN s}
        BY FlattenElements
    <3>1. PICK k \in 1..Len(s) : x \in ToSet(s[k])
        BY <2>1, <3>0
    <3>2. x \in ToSet(t[k]) /\ y \in ToSet(t[Len(s) + 1])
        BY <2>1, <3>1
    <3>3. k \in 1..Len(t) /\ Len(s) + 1 \in 1..Len(t) /\ k # Len(s) + 1
        BY <2>1
    <3>4. \A j, l \in 1..Len(t) : j # l => \A a \in ToSet(t[j]), b \in ToSet(t[l]) : K[a] # K[b]
        BY DEF Apart
    <3> QED BY <3>2, <3>3, <3>4
  <2>5. Unlike(FlattenSeq(s), K)
      BY <2>3, <1>2
  <2> QED BY <2>2, <2>3, <2>4, <2>5, ConcatUnlike
<1> HIDE DEF Fine
<1>3. T = Seq(Seq(X))
  <2>1. T \in SUBSET Seq(Seq(X)) /\ \A s \in T, e \in Seq(X) : Append(s, e) \in T
    <3>1. ASSUME NEW s \in T, NEW e \in Seq(X) PROVE Append(s, e) \in T
      <4>1. Append(s, e) \in Seq(Seq(X))
          OBVIOUS
      <4> QED BY <4>1, <1>2
    <3> QED BY <3>1
  <2> HIDE DEF T
  <2> QED BY <1>1, <2>1, SeqSetInduction
<1>4. Fine(ss)
    BY <1>3
<1> QED BY <1>4 DEF Fine

\* What Where keeps of a sequence, said of the set that its test describes.
KeepIn(s, S) == FlattenSeq([i \in DOMAIN s |-> IF s[i] \in S THEN <<s[i]>> ELSE << >>])

LEMMA WhereIn ==
    ASSUME NEW X, NEW s \in Seq(X), NEW S
    PROVE  /\ KeepIn(s, S) \in Seq(X)
           /\ ToSet(KeepIn(s, S)) = ToSet(s) \cap S
           /\ \A K : Unlike(s, K) => Unlike(KeepIn(s, S), K)
<1> DEFINE ss == [i \in DOMAIN s |-> IF s[i] \in S THEN <<s[i]>> ELSE << >>]
<1>1. /\ ss \in Seq(Seq(X)) /\ Len(ss) = Len(s) /\ DOMAIN ss = 1..Len(s) /\ DOMAIN s = 1..Len(s)
      /\ \A i \in 1..Len(s) : ss[i] = IF s[i] \in S THEN <<s[i]>> ELSE << >>
  <2>1. Len(s) \in Nat /\ DOMAIN s = 1..Len(s) /\ \A i \in 1..Len(s) : s[i] \in X
      OBVIOUS
  <2>2. \A i \in 1..Len(s) : ss[i] \in Seq(X)
      BY <2>1
  <2> QED BY <2>1, <2>2
<1> HIDE DEF ss
<1>2. \A i \in 1..Len(s) : ToSet(ss[i]) = IF s[i] \in S THEN {s[i]} ELSE {}
    BY <1>1 DEF ToSet
<1>3. FlattenSeq(ss) \in Seq(X) /\ ToSet(FlattenSeq(ss)) = UNION {ToSet(ss[k]) : k \in DOMAIN ss}
    BY <1>1, FlattenElements
<1>4. (UNION {ToSet(ss[k]) : k \in DOMAIN ss}) = ToSet(s) \cap S
  <2>1. ASSUME NEW x \in UNION {ToSet(ss[k]) : k \in DOMAIN ss} PROVE x \in ToSet(s) \cap S
    <3>1. PICK k \in 1..Len(s) : x \in ToSet(ss[k])
        BY <1>1
    <3> QED BY <3>1, <1>1, <1>2 DEF ToSet
  <2>2. ASSUME NEW x \in ToSet(s) \cap S PROVE x \in UNION {ToSet(ss[k]) : k \in DOMAIN ss}
    <3>1. PICK k \in 1..Len(s) : x = s[k]
        BY <1>1 DEF ToSet
    <3> QED BY <3>1, <1>1, <1>2
  <2> QED BY <2>1, <2>2
<1>5. ASSUME NEW K, Unlike(s, K) PROVE Unlike(FlattenSeq(ss), K)
  <2>1. ASSUME NEW k \in 1..Len(ss) PROVE Unlike(ss[k], K)
      BY <1>1 DEF Unlike
  <2>2. ASSUME NEW j \in 1..Len(ss), NEW k \in 1..Len(ss), j # k,
               NEW x \in ToSet(ss[j]), NEW y \in ToSet(ss[k])
        PROVE  K[x] # K[y]
    <3>1. x = s[j] /\ y = s[k] /\ j \in 1..Len(s) /\ k \in 1..Len(s)
        BY <1>1, <1>2, <2>2
    <3> QED BY <3>1, <1>5, <2>2 DEF Unlike
  <2>3. Apart(ss, K)
      BY <2>1, <2>2 DEF Apart
  <2> QED BY <1>1, <2>3, FlattenUnlike
<1> QED BY <1>3, <1>4, <1>5 DEF ss, KeepIn

-----------------------------------------------------------------------------
(* Documents *)

IdIn(X) == [x \in X |-> x.id]

LEMMA DistinctIds ==
    ASSUME NEW X, NEW s \in Seq(X), Distinct(Ids(s))
    PROVE  /\ Unlike(s, IdIn(X))
           /\ \A x, y \in ToSet(s) : x.id = y.id => x = y
<1>1. /\ DOMAIN s = 1..Len(s) /\ DOMAIN Ids(s) = 1..Len(s)
      /\ \A i \in 1..Len(s) : s[i] \in X /\ Ids(s)[i] = s[i].id
    BY DEF Ids
<1>2. \A i, j \in 1..Len(s) : s[i].id = s[j].id => i = j
    BY <1>1 DEF Distinct, IsInjective
<1>3. Unlike(s, IdIn(X))
    BY <1>1, <1>2 DEF Unlike, IdIn
<1>4. \A x, y \in ToSet(s) : x.id = y.id => x = y
    BY <1>1, <1>2 DEF ToSet
<1> QED BY <1>3, <1>4

LEMMA ByIdFinds ==
    ASSUME NEW X, NEW s \in Seq(X), NEW id \in ToSet(Ids(s))
    PROVE  ById(s, id) \in ToSet(s) /\ ById(s, id) \in X /\ ById(s, id).id = id
<1>1. /\ DOMAIN s = 1..Len(s) /\ DOMAIN Ids(s) = 1..Len(s)
      /\ \A i \in 1..Len(s) : s[i] \in X /\ Ids(s)[i] = s[i].id
    BY DEF Ids
<1>2. \E i \in DOMAIN s : s[i].id = id
    BY <1>1 DEF ToSet
<1>3. PICK i \in DOMAIN s : s[i].id = id /\ ById(s, id) = s[i]
    BY <1>2 DEF ById
<1> QED BY <1>1, <1>3 DEF ToSet

\* An identifier in a sequence without duplicates finds its own element.
LEMMA ByIdOwn ==
    ASSUME NEW X, NEW s \in Seq(X), Distinct(Ids(s)), NEW x \in ToSet(s)
    PROVE  ById(s, x.id) = x /\ x.id \in ToSet(Ids(s))
<1>1. x.id \in ToSet(Ids(s))
  <2>1. PICK i \in DOMAIN s : s[i] = x
      BY DEF ToSet
  <2> QED BY <2>1 DEF ToSet, Ids
<1>2. ById(s, x.id) \in ToSet(s) /\ ById(s, x.id).id = x.id
    BY <1>1, ByIdFinds
<1> QED BY <1>1, <1>2, DistinctIds

LEMMA SequenceParts ==
    ASSUME NEW X, NEW s \in Seq(X)
    PROVE  ToSet(s) \subseteq X /\ \A x \in ToSet(s) : x.id \in ToSet(Ids(s))
<1>1. ToSet(s) \subseteq X
    BY DEF ToSet
<1>2. ASSUME NEW x \in ToSet(s) PROVE x.id \in ToSet(Ids(s))
  <2>1. PICK i \in DOMAIN s : s[i] = x
      BY DEF ToSet
  <2> QED BY <2>1 DEF ToSet, Ids
<1> QED BY <1>1, <1>2

LEMMA DocumentParts ==
    ASSUME NEW set \in Known
    PROVE  /\ set \in PolicySet
           /\ \A d \in ToSet(set.devices) : d \in ManagedDevice /\ d.id \in DeviceIds
           /\ \A p \in ToSet(set.profiles) : p \in Profile /\ \A r \in ToSet(p.rules) : r.id \in Slots
           /\ \A p \in ToSet(set.templates) : p \in Template /\ \A r \in ToSet(p.rules) : r.id \in Slots
           /\ \A x \in ToSet(Ids(set.rule_sets)) : x \in RuleSetIds
<1>1. CASE set = EmptySet
  <2>1. /\ set.devices = << >> /\ set.profiles = << >> /\ set.templates = << >> /\ set.rule_sets = << >>
        /\ set = [devices |-> << >>, profiles |-> << >>, templates |-> << >>, rule_sets |-> << >>]
      BY <1>1 DEF EmptySet
  <2>2. set \in PolicySet
      BY <2>1 DEF PolicySet
  <2> QED BY <2>1, <2>2 DEF ToSet, Ids
<1>2. CASE set \in Documents
  <2>1. set \in PolicySet
      BY <1>2, IdentifiersAssumption DEF IdentifiersAssumption
  <2>2. /\ set.devices \in Seq(ManagedDevice) /\ set.profiles \in Seq(Profile)
        /\ set.templates \in Seq(Template) /\ set.rule_sets \in Seq(RuleSet)
      BY <2>1 DEF PolicySet
  <2>3. \A d \in ToSet(set.devices) : d \in ManagedDevice /\ d.id \in DeviceIds
      BY <1>2, <2>2, SequenceParts DEF DeviceIds
  <2>4. \A p \in ToSet(set.profiles) \cup ToSet(set.templates) : \A r \in ToSet(p.rules) : r \in Rules
      BY <1>2 DEF Rules
  <2>5. \A r \in Rules : r.id \in Slots
      BY DEF Slots
  <2>6. ToSet(set.profiles) \subseteq Profile /\ ToSet(set.templates) \subseteq Template
      BY <2>2, SequenceParts
  <2>7. \A x \in ToSet(Ids(set.rule_sets)) : x \in RuleSetIds
      BY <1>2 DEF RuleSetIds
  <2> QED BY <2>1, <2>3, <2>4, <2>5, <2>6, <2>7
<1> QED BY <1>1, <1>2 DEF Known

\* A profile of a device of a valid document, with its template.
ProfileOK(set, p) ==
    /\ p \in Profile /\ p.default_policies # << >>
    /\ Distinct(Ids(p.rules))
    /\ \A r \in ToSet(p.rules) :
         /\ r \in Rule /\ r.id \in Slots \ {"default"}
         /\ ToSet(r.match["rule_sets"]) \subseteq ToSet(Ids(set.rule_sets))

LEMMA DeviceProfileOK ==
    ASSUME NEW set \in Known, ValidatePolicySet(set), NEW d \in ToSet(set.devices)
    PROVE  ProfileOK(set, deviceProfile(set, d))
<1> DEFINE own == ById(set.profiles, d.profile)
           p == resolveProfile(set, own)
<1>1. /\ set.devices \in Seq(ManagedDevice) /\ set.profiles \in Seq(Profile)
      /\ set.templates \in Seq(Template)
    BY DocumentParts DEF PolicySet
<1>2. d.profile \in ToSet(Ids(set.profiles))
    BY DEF ValidatePolicySet, ToSet
<1>3. own \in ToSet(set.profiles) /\ own \in Profile
    BY <1>1, <1>2, ByIdFinds
<1> HIDE DEF own
<1>4. validProfile(set, own)
    BY <1>3 DEF ValidatePolicySet, ToSet
<1>5. own.rules \in Seq(Rule) /\ \A r \in ToSet(own.rules) : r.id \in Slots
    BY <1>3, DocumentParts DEF Profile
<1>6. p \in Profile /\ \A r \in ToSet(p.rules) : r.id \in Slots
  <2>1. CASE own.template = ""
    <3>1. p = own
        BY <2>1 DEF resolveProfile
    <3> QED BY <3>1, <1>3, <1>5
  <2>2. CASE own.template # ""
    <3> DEFINE template == ById(set.templates, own.template)
    <3>1. own.template \in ToSet(Ids(set.templates))
        BY <2>2, <1>4 DEF validProfile
    <3>2. template \in ToSet(set.templates) /\ template \in Template
        BY <3>1, <1>1, ByIdFinds
    <3> HIDE DEF template
    <3>3. template.rules \in Seq(Rule) /\ \A r \in ToSet(template.rules) : r.id \in Slots
        BY <3>2, DocumentParts DEF Template
    <3>4. template.rules \o own.rules \in Seq(Rule)
        BY <3>3, <1>5
    <3>5. ToSet(template.rules \o own.rules) = ToSet(template.rules) \cup ToSet(own.rules)
        BY <3>3, <1>5, ConcatElements
    <3>6. p = [own EXCEPT
                 !.default_policies = IF @ = << >> THEN template.default_policies ELSE @,
                 !.on_unsupported   = IF @ = "" THEN template.on_unsupported ELSE @,
                 !.rules            = template.rules \o @]
        BY <2>2 DEF resolveProfile, template
    <3>7. p.rules = template.rules \o own.rules
        BY <3>6, <1>3 DEF Profile
    <3>8. p \in Profile
        BY <3>6, <3>4, <3>2, <1>3 DEF Profile, Template
    <3> QED BY <3>3, <3>5, <3>7, <3>8, <1>5
  <2> QED BY <2>1, <2>2
<1>7. p.default_policies # << >> /\ validRules(set, p.rules)
    BY <1>4 DEF validProfile
<1> HIDE DEF p
<1>8. p.rules \in Seq(Rule)
    BY <1>6 DEF Profile
<1>9. ASSUME NEW r \in ToSet(p.rules)
      PROVE  r \in Rule /\ r.id # "default" /\ ToSet(r.match["rule_sets"]) \subseteq ToSet(Ids(set.rule_sets))
  <2>1. PICK i \in DOMAIN p.rules : r = p.rules[i]
      BY DEF ToSet
  <2>2. validRule(set, r)
      BY <2>1, <1>7 DEF validRules
  <2>3. r \in Rule
      BY <1>8, SequenceParts
  <2> QED BY <2>2, <2>3 DEF validRule
<1>10. ProfileOK(set, p)
    BY <1>6, <1>7, <1>9 DEF ProfileOK, validRules
<1> QED BY <1>10 DEF deviceProfile, p, own

-----------------------------------------------------------------------------
(* Names *)

LEMMA GroupNamesApart ==
    /\ \A d \in DeviceIds, s \in Slots :
         DeviceGroupName(d, s) \in ReservedGroups /\ DeviceGroupName(d, s) \notin Builtins
    /\ \A d, e \in DeviceIds, s, t \in Slots :
         DeviceGroupName(d, s) = DeviceGroupName(e, t) => d = e /\ s = t
<1>1. \A d \in DeviceIds, s \in Slots : DeviceGroupName(d, s) \in ReservedGroups
    BY DEF DeviceGroupName, ReservedGroups
<1>2. \A d, e \in DeviceIds, s, t \in Slots :
        DeviceGroupName(d, s) = DeviceGroupName(e, t) => d = e /\ s = t
    BY IdentifiersAssumption DEF IdentifiersAssumption, DeviceGroupName
<1>3. ReservedGroups \cap Builtins = {}
    BY IdentifiersAssumption DEF IdentifiersAssumption
<1> QED BY <1>1, <1>2, <1>3

LEMMA ProviderNamesApart ==
    /\ \A i \in RuleSetIds : RuleSetProviderName(i) \in ReservedProviders
    /\ \A i, j \in RuleSetIds : RuleSetProviderName(i) = RuleSetProviderName(j) => i = j
<1>1. \A i \in RuleSetIds : RuleSetProviderName(i) \in ReservedProviders
    BY DEF RuleSetProviderName, ReservedProviders
<1>2. \A i, j \in RuleSetIds : RuleSetProviderName(i) = RuleSetProviderName(j) => i = j
    BY IdentifiersAssumption DEF IdentifiersAssumption, RuleSetProviderName
<1> QED BY <1>1, <1>2

-----------------------------------------------------------------------------
(* The groups of a device *)

AnyGroup == [name : ReservedGroups, policies : Seq(STRING)]
NameIn   == [g \in AnyGroup |-> g.name]

HasDefault(d) == EffectiveEgressMode(d.egress_mode) # "inherit_global"

GroupOfRule(d, r) == Group(d, r.id, r.policies)
Choosing(p)       == {r \in ToSet(p.rules) : r.policies # << >>}

LEMMA GroupsOfRules ==
    ASSUME NEW set \in Known, NEW d \in ManagedDevice, d.id \in DeviceIds, NEW p, ProfileOK(set, p)
    PROVE  LET gs == Concat(p.rules, LAMBDA rule :
                       IF rule.policies = << >> THEN << >> ELSE << Group(d, rule.id, rule.policies) >>)
           IN  /\ gs \in Seq(AnyGroup) /\ Unlike(gs, NameIn)
               /\ ToSet(gs) = {GroupOfRule(d, r) : r \in Choosing(p)}
<1> DEFINE block(r) == IF r.policies = << >> THEN << >> ELSE << Group(d, r.id, r.policies) >>
           ss == [i \in DOMAIN p.rules |-> block(p.rules[i])]
<1>1. /\ p.rules \in Seq(Rule) /\ Len(p.rules) \in Nat /\ DOMAIN p.rules = 1..Len(p.rules)
      /\ \A i \in 1..Len(p.rules) : p.rules[i] \in Rule /\ p.rules[i] \in ToSet(p.rules)
      /\ \A r \in ToSet(p.rules) : r \in Rule /\ r.id \in Slots
    BY DEF ProfileOK, Profile, ToSet
<1>2. \A r \in ToSet(p.rules) : GroupOfRule(d, r) \in AnyGroup /\ GroupOfRule(d, r).name = DeviceGroupName(d.id, r.id)
    BY <1>1, GroupNamesApart DEF GroupOfRule, Group, AnyGroup, Rule
<1>3. \A r \in ToSet(p.rules) :
        /\ block(r) \in Seq(AnyGroup)
        /\ ToSet(block(r)) = IF r.policies = << >> THEN {} ELSE {GroupOfRule(d, r)}
        /\ Unlike(block(r), NameIn)
  <2> SUFFICES ASSUME NEW r \in ToSet(p.rules)
               PROVE  /\ block(r) \in Seq(AnyGroup)
                      /\ ToSet(block(r)) = IF r.policies = << >> THEN {} ELSE {GroupOfRule(d, r)}
                      /\ Unlike(block(r), NameIn)
      OBVIOUS
  <2>1. CASE r.policies = << >>
      BY <2>1 DEF ToSet, Unlike
  <2>2. CASE r.policies # << >>
    <3>1. block(r) = << GroupOfRule(d, r) >> /\ GroupOfRule(d, r) \in AnyGroup
        BY <2>2, <1>2 DEF GroupOfRule
    <3> HIDE DEF block
    <3> QED BY <3>1, <2>2 DEF ToSet, Unlike
  <2> QED BY <2>1, <2>2
<1> HIDE DEF block
<1>4. ss \in Seq(Seq(AnyGroup)) /\ Len(ss) = Len(p.rules) /\ DOMAIN ss = 1..Len(p.rules)
    BY <1>1, <1>3
<1>5. \A i \in 1..Len(p.rules) : ss[i] = block(p.rules[i])
    BY <1>1
<1> HIDE DEF ss
<1>6. Apart(ss, NameIn)
  <2>1. \A k \in 1..Len(ss) : Unlike(ss[k], NameIn)
      BY <1>1, <1>3, <1>4, <1>5
  <2>2. ASSUME NEW j \in 1..Len(ss), NEW k \in 1..Len(ss), j # k,
               NEW x \in ToSet(ss[j]), NEW y \in ToSet(ss[k])
        PROVE  NameIn[x] # NameIn[y]
    <3>1. /\ j \in 1..Len(p.rules) /\ k \in 1..Len(p.rules)
          /\ p.rules[j] \in ToSet(p.rules) /\ p.rules[k] \in ToSet(p.rules)
          /\ x = GroupOfRule(d, p.rules[j]) /\ y = GroupOfRule(d, p.rules[k])
        BY <2>2, <1>1, <1>3, <1>4, <1>5
    <3>2. Unlike(p.rules, IdIn(Rule))
        BY <1>1, DistinctIds DEF ProfileOK
    <3>3. p.rules[j].id # p.rules[k].id
        BY <3>1, <3>2, <2>2, <1>1 DEF Unlike, IdIn
    <3>4. NameIn[x] = DeviceGroupName(d.id, p.rules[j].id) /\ NameIn[y] = DeviceGroupName(d.id, p.rules[k].id)
        BY <3>1, <1>2 DEF NameIn
    <3> QED BY <3>1, <3>3, <3>4, <1>1, GroupNamesApart
  <2> QED BY <2>1, <2>2 DEF Apart
<1>7. Unlike(FlattenSeq(ss), NameIn) /\ FlattenSeq(ss) \in Seq(AnyGroup)
    BY <1>4, <1>6, FlattenUnlike, FlattenElements
<1>8. ToSet(FlattenSeq(ss)) = {GroupOfRule(d, r) : r \in Choosing(p)}
  <2>1. ToSet(FlattenSeq(ss)) = UNION {ToSet(ss[k]) : k \in DOMAIN ss}
      BY <1>4, FlattenElements
  <2>2. ASSUME NEW x \in ToSet(FlattenSeq(ss)) PROVE x \in {GroupOfRule(d, r) : r \in Choosing(p)}
    <3>1. PICK k \in 1..Len(p.rules) : x \in ToSet(ss[k])
        BY <2>1, <1>4
    <3> QED BY <3>1, <1>1, <1>3, <1>5 DEF Choosing
  <2>3. ASSUME NEW r \in Choosing(p) PROVE GroupOfRule(d, r) \in ToSet(FlattenSeq(ss))
    <3>1. PICK k \in 1..Len(p.rules) : r = p.rules[k]
        BY <1>1 DEF Choosing, ToSet
    <3>2. GroupOfRule(d, r) \in ToSet(ss[k])
        BY <3>1, <1>1, <1>3, <1>5 DEF Choosing
    <3> QED BY <3>2, <2>1, <1>4
  <2> QED BY <2>2, <2>3
<1> QED BY <1>7, <1>8 DEF Concat, ss, block

LEMMA GroupsOfDevice ==
    ASSUME NEW set \in Known, NEW d \in ManagedDevice, d.id \in DeviceIds, NEW p, ProfileOK(set, p)
    PROVE  /\ deviceGroups(d, p) \in Seq(AnyGroup) /\ Unlike(deviceGroups(d, p), NameIn)
           /\ ToSet(deviceGroups(d, p))
                = {GroupOfRule(d, r) : r \in Choosing(p)}
                  \cup (IF HasDefault(d) THEN {Group(d, "default", p.default_policies)} ELSE {})
<1> DEFINE gs == Concat(p.rules, LAMBDA rule :
                   IF rule.policies = << >> THEN << >> ELSE << Group(d, rule.id, rule.policies) >>)
           g == Group(d, "default", p.default_policies)
<1>1. gs \in Seq(AnyGroup) /\ Unlike(gs, NameIn) /\ ToSet(gs) = {GroupOfRule(d, r) : r \in Choosing(p)}
    BY GroupsOfRules
<1>2. deviceGroups(d, p) = (IF HasDefault(d) THEN <<g>> ELSE << >>) \o gs
    BY DEF deviceGroups, HasDefault
<1>3. "default" \in Slots
    BY DEF Slots
<1>4. g \in AnyGroup /\ g.name = DeviceGroupName(d.id, "default")
    BY <1>3, GroupNamesApart DEF Group, AnyGroup, ProfileOK, Profile
<1>5. ASSUME NEW x \in ToSet(gs) PROVE NameIn[x] # NameIn[g]
  <2>1. PICK r \in ToSet(p.rules) : x = GroupOfRule(d, r)
      BY <1>1, <1>5 DEF Choosing
  <2>2. r.id \in Slots /\ r.id # "default"
      BY DEF ProfileOK
  <2>3. NameIn[x] = DeviceGroupName(d.id, r.id) /\ NameIn[g] = DeviceGroupName(d.id, "default")
    <3> HIDE DEF gs
    <3>1. x \in AnyGroup
        BY <1>1, <1>5, SequenceParts
    <3>2. x.name = DeviceGroupName(d.id, r.id)
        BY <2>1 DEF GroupOfRule, Group
    <3> HIDE DEF g
    <3> QED BY <1>4, <3>1, <3>2 DEF NameIn
  <2>4. DeviceGroupName(d.id, r.id) # DeviceGroupName(d.id, "default")
    <3> DEFINE id == d.id
               slot == r.id
    <3>1. id \in DeviceIds
        BY GroupNamesApart
    <3> QED BY <2>2, <1>3, GroupNamesApart
  <2> QED BY <2>3, <2>4
<1> HIDE DEF gs, g
<1>6. CASE HasDefault(d)
  <2>1. <<g>> \in Seq(AnyGroup) /\ ToSet(<<g>>) = {g} /\ Unlike(<<g>>, NameIn)
      BY <1>4 DEF ToSet, Unlike
  <2>2. \A x \in ToSet(<<g>>), y \in ToSet(gs) : NameIn[x] # NameIn[y]
      BY <2>1, <1>5
  <2>3. deviceGroups(d, p) = <<g>> \o gs
      BY <1>2, <1>6
  <2>4. Unlike(<<g>> \o gs, NameIn)
      BY <2>1, <2>2, <1>1, ConcatUnlike
  <2>5. <<g>> \o gs \in Seq(AnyGroup) /\ ToSet(<<g>> \o gs) = ToSet(<<g>>) \cup ToSet(gs)
      BY <2>1, <1>1, ConcatElements
  <2> QED BY <2>1, <2>3, <2>4, <2>5, <1>1, <1>6 DEF g
<1>7. CASE ~HasDefault(d)
  <2>1. deviceGroups(d, p) = gs
      BY <1>1, <1>2, <1>7
  <2> QED BY <2>1, <1>1, <1>7
<1> QED BY <1>6, <1>7

-----------------------------------------------------------------------------
(* The variants of a match *)

MatchOK(match) == match \in RuleMatch /\ ToSet(match["rule_sets"]) \subseteq RuleSetIds

LEMMA DimensionSet ==
    ToSet(Dimensions) = {"domains", "ip_cidrs", "protocols", "ports", "rule_sets"}
BY DEF ToSet, Dimensions

LEMMA ConditionType ==
    ASSUME NEW match, MatchOK(match), NEW dim \in ToSet(Dimensions), NEW value \in ToSet(match[dim])
    PROVE  Condition(dim, value) \in AnyCondition /\ Condition(dim, value)[1] = dim
<1>1. match[dim] \in Seq(STRING)
    BY DEF MatchOK, RuleMatch
<1>2. value \in STRING
    BY <1>1 DEF ToSet
<1>3. CASE dim = "rule_sets"
  <2>1. RuleSetProviderName(value) \in ReservedProviders
      BY <1>3, ProviderNamesApart DEF MatchOK
  <2> QED BY <2>1, <1>1, <1>3 DEF Condition, AnyCondition
<1>4. CASE dim # "rule_sets"
    BY <1>1, <1>2, <1>4 DEF Condition, AnyCondition
<1> QED BY <1>3, <1>4

\* The variants of before with one value each of one more dimension.
Extended(existing, match, dim) ==
    IF match[dim] = << >> THEN ToSet(existing)
    ELSE {prior \cup {Condition(dim, value)} : prior \in ToSet(existing), value \in ToSet(match[dim])}

\* One dimension of a match multiplies the variants by its values.
LEMMA AppendedDimension ==
    ASSUME NEW match, MatchOK(match), NEW dim \in ToSet(Dimensions),
           NEW existing \in Seq(SUBSET AnyCondition)
    PROVE  LET appended == appendConditionDimension(existing, match, dim) IN
           /\ appended \in Seq(SUBSET AnyCondition)
           /\ ToSet(appended) = Extended(existing, match, dim)
<1> DEFINE X == SUBSET AnyCondition
           block(prior) == [i \in DOMAIN match[dim] |-> prior \cup {Condition(dim, match[dim][i])}]
           ss == [i \in DOMAIN existing |-> block(existing[i])]
<1>1. CASE match[dim] = << >>
  <2>1. appendConditionDimension(existing, match, dim) = existing
      BY <1>1 DEF appendConditionDimension
  <2>2. Extended(existing, match, dim) = ToSet(existing)
      BY <1>1 DEF Extended
  <2> QED BY <2>1, <2>2
<1>2. CASE match[dim] # << >>
  <2>1. /\ match[dim] \in Seq(STRING) /\ Len(match[dim]) \in Nat /\ DOMAIN match[dim] = 1..Len(match[dim])
        /\ \A i \in 1..Len(match[dim]) : match[dim][i] \in ToSet(match[dim])
      BY DEF MatchOK, RuleMatch, ToSet
  <2>2. /\ Len(existing) \in Nat /\ DOMAIN existing = 1..Len(existing)
        /\ \A i \in 1..Len(existing) : existing[i] \in ToSet(existing) /\ existing[i] \in X
      BY DEF ToSet
  <2>3. \A value \in ToSet(match[dim]) : Condition(dim, value) \in AnyCondition
      BY ConditionType
  <2>4. ASSUME NEW prior \in X
        PROVE  /\ block(prior) \in Seq(X)
               /\ ToSet(block(prior)) = {prior \cup {Condition(dim, value)} : value \in ToSet(match[dim])}
    <3>1. \A i \in 1..Len(match[dim]) : prior \cup {Condition(dim, match[dim][i])} \in X
        BY <2>1, <2>3
    <3>2. block(prior) \in Seq(X)
        BY <3>1, <2>1
    <3> QED BY <3>2, <2>1 DEF ToSet
  <2> HIDE DEF X, block
  <2>5. ss \in Seq(Seq(X)) /\ DOMAIN ss = 1..Len(existing) /\ \A i \in 1..Len(existing) : ss[i] = block(existing[i])
      BY <2>2, <2>4
  <2> HIDE DEF ss
  <2>6. FlattenSeq(ss) \in Seq(X) /\ ToSet(FlattenSeq(ss)) = UNION {ToSet(ss[k]) : k \in DOMAIN ss}
      BY <2>5, FlattenElements
  <2>7. ToSet(FlattenSeq(ss)) = {prior \cup {Condition(dim, value)} :
                                   prior \in ToSet(existing), value \in ToSet(match[dim])}
    <3>1. ASSUME NEW x \in ToSet(FlattenSeq(ss))
          PROVE  \E prior \in ToSet(existing), value \in ToSet(match[dim]) : x = prior \cup {Condition(dim, value)}
      <4>1. PICK k \in 1..Len(existing) : x \in ToSet(ss[k])
          BY <2>5, <2>6
      <4>2. x \in ToSet(block(existing[k])) /\ existing[k] \in ToSet(existing) /\ existing[k] \in X
          BY <4>1, <2>2, <2>5
      <4>3. \E value \in ToSet(match[dim]) : x = existing[k] \cup {Condition(dim, value)}
          BY <4>2, <2>4
      <4> QED BY <4>2, <4>3
    <3>2. ASSUME NEW prior \in ToSet(existing), NEW value \in ToSet(match[dim])
          PROVE  prior \cup {Condition(dim, value)} \in ToSet(FlattenSeq(ss))
      <4>1. PICK k \in 1..Len(existing) : existing[k] = prior
          BY <2>2 DEF ToSet
      <4>2. prior \cup {Condition(dim, value)} \in ToSet(ss[k])
          BY <4>1, <2>2, <2>4, <2>5
      <4> QED BY <4>2, <2>5, <2>6
    <3> QED BY <3>1, <3>2
  <2>8. appendConditionDimension(existing, match, dim) = FlattenSeq(ss)
      BY <1>2 DEF appendConditionDimension, Concat, ss, block
  <2>9. ToSet(FlattenSeq(ss)) = Extended(existing, match, dim)
      BY <1>2, <2>7 DEF Extended
  <2> QED BY <2>6, <2>8, <2>9 DEF X
<1> QED BY <1>1, <1>2

\* One of the variants holds when one held before and the dimension holds; a variant
\* has conditions of the match only.
Covers(variants, H) == \E v \in ToSet(variants) : v \subseteq H
Meant(match, dim, H) == match[dim] = << >> \/ \E value \in ToSet(match[dim]) : Condition(dim, value) \in H
Stated(match, c) == \E dim \in ToSet(Dimensions) : \E value \in ToSet(match[dim]) : c = Condition(dim, value)

LEMMA AppendedMeans ==
    ASSUME NEW match, MatchOK(match), NEW dim \in ToSet(Dimensions),
           NEW existing \in Seq(SUBSET AnyCondition),
           \A v \in ToSet(existing) : \A c \in v : Stated(match, c)
    PROVE  LET appended == appendConditionDimension(existing, match, dim) IN
           /\ appended \in Seq(SUBSET AnyCondition)
           /\ \A v \in ToSet(appended) : \A c \in v : Stated(match, c)
           /\ \A H : Covers(appended, H) <=> Covers(existing, H) /\ Meant(match, dim, H)
<1> DEFINE appended == appendConditionDimension(existing, match, dim)
<1>1. /\ appended \in Seq(SUBSET AnyCondition)
      /\ ToSet(appended) = Extended(existing, match, dim)
    BY AppendedDimension
<1> HIDE DEF appended
<1>2. CASE match[dim] = << >>
  <2>1. ToSet(appended) = ToSet(existing)
      BY <1>1, <1>2 DEF Extended
  <2> QED BY <1>1, <1>2, <2>1 DEF Covers, Meant, appended
<1>3. CASE match[dim] # << >>
  <2>1. ToSet(appended) = {prior \cup {Condition(dim, value)} :
                             prior \in ToSet(existing), value \in ToSet(match[dim])}
      BY <1>1, <1>3 DEF Extended
  <2>2. ASSUME NEW v \in ToSet(appended), NEW c \in v PROVE Stated(match, c)
    <3>1. PICK prior \in ToSet(existing), value \in ToSet(match[dim]) : v = prior \cup {Condition(dim, value)}
        BY <2>1
    <3> QED BY <3>1 DEF Stated
  <2>3. ASSUME NEW H PROVE Covers(appended, H) <=> Covers(existing, H) /\ Meant(match, dim, H)
    <3>1. ASSUME Covers(appended, H) PROVE Covers(existing, H) /\ Meant(match, dim, H)
      <4>1. PICK v \in ToSet(appended) : v \subseteq H
          BY <3>1 DEF Covers
      <4>2. PICK prior \in ToSet(existing), value \in ToSet(match[dim]) : v = prior \cup {Condition(dim, value)}
          BY <2>1
      <4>3. prior \subseteq H /\ Condition(dim, value) \in H
          BY <4>1, <4>2
      <4> QED BY <4>3 DEF Covers, Meant
    <3>2. ASSUME Covers(existing, H), Meant(match, dim, H) PROVE Covers(appended, H)
      <4>1. PICK prior \in ToSet(existing) : prior \subseteq H
          BY <3>2 DEF Covers
      <4>2. PICK value \in ToSet(match[dim]) : Condition(dim, value) \in H
          BY <3>2, <1>3 DEF Meant
      <4>3. prior \cup {Condition(dim, value)} \in ToSet(appended)
          BY <2>1
      <4>4. prior \cup {Condition(dim, value)} \subseteq H
          BY <4>1, <4>2
      <4> QED BY <4>3, <4>4 DEF Covers
    <3> QED BY <3>1, <3>2
  <2> QED BY <1>1, <2>2, <2>3 DEF appended
<1> QED BY <1>2, <1>3

\* Expanding a match into variants keeps its meaning.
LEMMA VariantsMean ==
    ASSUME NEW match, MatchOK(match)
    PROVE  /\ ruleVariants(match) \in Seq(SUBSET AnyCondition)
           /\ \A v \in ToSet(ruleVariants(match)) : \A c \in v : Stated(match, c)
           /\ \A H : Covers(ruleVariants(match), H) <=> \A dim \in ToSet(Dimensions) : Meant(match, dim, H)
<1> DEFINE OK(vs) == vs \in Seq(SUBSET AnyCondition) /\ \A v \in ToSet(vs) : \A c \in v : Stated(match, c)
           v0 == << {} >>
           v1 == appendConditionDimension(v0, match, "domains")
           v2 == appendConditionDimension(v1, match, "ip_cidrs")
           v3 == appendConditionDimension(v2, match, "protocols")
           v4 == appendConditionDimension(v3, match, "ports")
           v5 == appendConditionDimension(v4, match, "rule_sets")
<1>1. OK(v0) /\ \A H : Covers(v0, H)
  <2>1. ToSet(v0) = {{}}
      BY DEF ToSet
  <2>2. v0 \in Seq(SUBSET AnyCondition)
      OBVIOUS
  <2> HIDE DEF v0
  <2> QED BY <2>1, <2>2 DEF Covers
<1> HIDE DEF v0
<1>2. OK(v1) /\ \A H : Covers(v1, H) <=> Covers(v0, H) /\ Meant(match, "domains", H)
    BY <1>1, AppendedMeans, DimensionSet
<1> HIDE DEF v1
<1>3. OK(v2) /\ \A H : Covers(v2, H) <=> Covers(v1, H) /\ Meant(match, "ip_cidrs", H)
    BY <1>2, AppendedMeans, DimensionSet
<1> HIDE DEF v2
<1>4. OK(v3) /\ \A H : Covers(v3, H) <=> Covers(v2, H) /\ Meant(match, "protocols", H)
    BY <1>3, AppendedMeans, DimensionSet
<1> HIDE DEF v3
<1>5. OK(v4) /\ \A H : Covers(v4, H) <=> Covers(v3, H) /\ Meant(match, "ports", H)
    BY <1>4, AppendedMeans, DimensionSet
<1> HIDE DEF v4
<1>6. OK(v5) /\ \A H : Covers(v5, H) <=> Covers(v4, H) /\ Meant(match, "rule_sets", H)
    BY <1>5, AppendedMeans, DimensionSet
<1>7. ruleVariants(match) = v5
    BY DEF ruleVariants, v0, v1, v2, v3, v4
<1> HIDE DEF v5
<1>8. \A H : Covers(v5, H) <=> \A dim \in ToSet(Dimensions) : Meant(match, dim, H)
    BY <1>1, <1>2, <1>3, <1>4, <1>5, <1>6, DimensionSet
<1> QED BY <1>6, <1>7, <1>8

-----------------------------------------------------------------------------
(* What a packet does at a rule and the REJECT behind it *)

\* A list sends the packet to a policy, or lets it pass.
Delivers(r, memory, lines, src, facts, to) ==
    \E x \in AnyLine : IsFirst(lines, Takers(r, memory, src, facts), x) /\ Picked(r, memory, x.to) = to

Evades(r, memory, lines, src, facts) == Avoids(lines, Takers(r, memory, src, facts))

Standing(r) == Builtins \cap GroupNames(r) = {}

LEMMA SentOrPassed ==
    ASSUME NEW r, NEW memory, NEW src, NEW facts, NEW otherwise, NEW lines \in Seq(AnyLine)
    PROVE  /\ Evades(r, memory, lines, src, facts)
                => Leads(r, memory, lines, src, facts, otherwise) = otherwise
           /\ \A to : Delivers(r, memory, lines, src, facts, to)
                => Leads(r, memory, lines, src, facts, otherwise) = to
BY LeadsFirst DEF Delivers, Evades

LEMMA BuiltinStands ==
    ASSUME NEW r, Standing(r), NEW memory, NEW facts, NEW b \in Builtins
    PROVE  Picked(r, memory, b) = b /\ (b \in {"DIRECT", "REJECT"} => Carries(b, facts))
<1>1. b \notin GroupNames(r)
    BY DEF Standing
<1>2. b \in {"DIRECT", "REJECT"} => b \notin NoUDP
    BY PacketsAssumption DEF PacketsAssumption
<1> QED BY <1>1, <1>2 DEF Picked, Carries

LEMMA BuiltinNames == "DIRECT" \in Builtins /\ "REJECT" \in Builtins /\ Native \subseteq Builtins
BY SpellingAssumption, PacketsAssumption DEF SpellingAssumption, PacketsAssumption

\* A REJECT stands behind a rule, unless its target is called like a built-in policy.
Rejects(target, unsupported) == unsupported = "reject" /\ target \notin Builtins

\* The source address of a rule decides about a packet before anything else does.
LEMMA SourceHolds ==
    ASSUME NEW r, NEW facts \in Facts, NEW ip, NEW src
    PROVE  Holds(r, Source(ip), src, facts) <=> ip = src
<1>1. Source(ip)[1] = "SRC-IP-CIDR" /\ (Source(ip) = Source(src) <=> ip = src)
    BY DEF Source
<1>2. Source(ip) \notin facts
  <2>1. facts \subseteq ToSet(Dimensions) \X STRING
      BY PacketsAssumption DEF PacketsAssumption
  <2>2. ASSUME Source(ip) \in facts PROVE FALSE
    <3>1. Source(ip)[1] \in ToSet(Dimensions)
        BY <2>1, <2>2
    <3> QED BY <3>1, <1>1, DimensionSet
  <2> QED BY <2>2
<1> QED BY <1>1, <1>2 DEF Holds

LEMMA ElsewhereEvades ==
    ASSUME NEW r, NEW memory, NEW facts \in Facts, NEW ip, NEW src, ip # src,
           NEW lines \in Seq(AnyLine), \A x \in ToSet(lines) : Source(ip) \in x.when
    PROVE  Evades(r, memory, lines, src, facts)
<1>1. ~Holds(r, Source(ip), src, facts)
    BY SourceHolds
<1>2. ASSUME NEW i \in 1..Len(lines) PROVE lines[i] \notin Takers(r, memory, src, facts)
  <2>1. Source(ip) \in lines[i].when
      BY DEF ToSet
  <2> QED BY <1>1, <2>1 DEF Takers, Takes
<1> QED BY <1>2 DEF Evades, Avoids

LEMMA Pair ==
    ASSUME NEW l, NEW k
    PROVE  <<l>> \o <<k>> = <<l, k>>
<1> DEFINE X == {l, k}
           s == <<l>>
           t == <<k>>
           u == s \o t
           w == <<l, k>>
<1>1. /\ s \in Seq(X) /\ Len(s) = 1 /\ s[1] = l
      /\ t \in Seq(X) /\ Len(t) = 1 /\ t[1] = k
      /\ w \in Seq(X) /\ Len(w) = 2 /\ w[1] = l /\ w[2] = k
    OBVIOUS
<1>2. u = s \o t
    OBVIOUS
<1> HIDE DEF s, t, u, w, X
<1>3. u \in Seq(X) /\ Len(u) = 2 /\ u[1] = l /\ u[2] = k
    BY <1>1, <1>2 DEF s, t
<1>4. u = w
    BY <1>1, <1>3
<1> QED BY <1>4 DEF s, t, u, w

LEMMA RejectLines ==
    ASSUME NEW when, NEW target, NEW unsupported
    PROVE  LET l == [when |-> when, to |-> target]
               k == [when |-> when, to |-> "REJECT"]
           IN  WithReject(when, target, unsupported)
                 = IF Rejects(target, unsupported) THEN <<l, k>> ELSE <<l>>
<1>1. \A l, k : <<l>> \o <<k>> = <<l, k>>
    BY Pair
<1>2. \A l : <<l>> \o << >> = <<l>>
    OBVIOUS
<1>3. CASE Rejects(target, unsupported)
    BY <1>1, <1>3 DEF WithReject, Rejects
<1>4. CASE ~Rejects(target, unsupported)
    BY <1>2, <1>4 DEF WithReject, Rejects
<1> QED BY <1>3, <1>4

LEMMA RejectBehind ==
    ASSUME NEW when \in SUBSET AnyCondition, NEW target \in AnyTarget, NEW unsupported
    PROVE  /\ WithReject(when, target, unsupported) \in Seq(AnyLine)
           /\ \A x \in ToSet(WithReject(when, target, unsupported)) :
                x.when = when /\ x.to \in {target, "REJECT"}
<1> DEFINE l == [when |-> when, to |-> target]
           k == [when |-> when, to |-> "REJECT"]
<1>1. l \in AnyLine /\ k \in AnyLine
    BY BuiltinNames DEF AnyLine, AnyTarget
<1>2. WithReject(when, target, unsupported)
        = IF Rejects(target, unsupported) THEN <<l, k>> ELSE <<l>>
    BY RejectLines
<1>3. l.when = when /\ l.to = target /\ k.when = when /\ k.to = "REJECT"
    OBVIOUS
<1> HIDE DEF l, k
<1> QED BY <1>1, <1>2, <1>3 DEF ToSet

LEMMA RejectReacts ==
    ASSUME NEW r, Standing(r), NEW memory, NEW src, NEW facts,
           NEW when \in SUBSET AnyCondition, NEW target \in AnyTarget, NEW unsupported
    PROVE  LET lines  == WithReject(when, target, unsupported)
               picked == Picked(r, memory, target)
               held   == \A c \in when : Holds(r, c, src, facts)
           IN  /\ held /\ Carries(picked, facts) => Delivers(r, memory, lines, src, facts, picked)
               /\ held /\ ~Carries(picked, facts) /\ Rejects(target, unsupported)
                    => Delivers(r, memory, lines, src, facts, "REJECT")
               /\ ~held \/ (~Carries(picked, facts) /\ ~Rejects(target, unsupported))
                    => Evades(r, memory, lines, src, facts)
<1> DEFINE l == [when |-> when, to |-> target]
           k == [when |-> when, to |-> "REJECT"]
           lines == WithReject(when, target, unsupported)
           picked == Picked(r, memory, target)
           held == \A c \in when : Holds(r, c, src, facts)
           P == Takers(r, memory, src, facts)
<1>1. l \in AnyLine /\ k \in AnyLine
    BY BuiltinNames DEF AnyLine, AnyTarget
<1>2. lines = IF Rejects(target, unsupported) THEN <<l, k>> ELSE <<l>>
    BY RejectLines
<1>3. "REJECT" \in Builtins
    BY BuiltinNames
<1>4. l \in P <=> held /\ Carries(picked, facts)
    BY <1>1 DEF Takers, Takes
<1>5. Picked(r, memory, "REJECT") = "REJECT" /\ Carries("REJECT", facts)
    BY <1>3, BuiltinStands
<1>6. k \in P <=> held
    BY <1>1, <1>5 DEF Takers, Takes
<1>8. l.to = target /\ k.to = "REJECT"
    OBVIOUS
<1>9. /\ Len(<<l>>) = 1 /\ <<l>>[1] = l
      /\ Len(<<l, k>>) = 2 /\ <<l, k>>[1] = l /\ <<l, k>>[2] = k
    OBVIOUS
<1> HIDE DEF l, k, held, picked, P, lines
<1>10. ASSUME held, Carries(picked, facts) PROVE Delivers(r, memory, lines, src, facts, picked)
  <2>1. Len(lines) \in Nat /\ 1 \in 1..Len(lines) /\ lines[1] = l
      BY <1>2, <1>9
  <2>2. l \in P
      BY <1>4, <1>10
  <2>3. IsFirst(lines, P, l)
      BY <2>1, <2>2 DEF IsFirst
  <2> QED BY <2>3, <1>1, <1>8 DEF Delivers, P, picked
<1>11. ASSUME held, ~Carries(picked, facts), Rejects(target, unsupported)
       PROVE  Delivers(r, memory, lines, src, facts, "REJECT")
  <2>1. lines = <<l, k>>
      BY <1>2, <1>11
  <2>2. l \notin P /\ k \in P
      BY <1>4, <1>6, <1>11
  <2>3. 2 \in 1..Len(lines) /\ lines[2] = k /\ \A j \in 1..2 - 1 : lines[j] = l
      BY <2>1, <1>9
  <2>4. IsFirst(lines, P, k)
      BY <2>2, <2>3 DEF IsFirst
  <2> QED BY <2>4, <1>1, <1>5, <1>8 DEF Delivers, P
<1>12. ASSUME ~held \/ (~Carries(picked, facts) /\ ~Rejects(target, unsupported))
       PROVE  Evades(r, memory, lines, src, facts)
  <2>1. CASE ~held
    <3>1. l \notin P /\ k \notin P
        BY <2>1, <1>4, <1>6
    <3>2. \A i \in 1..Len(lines) : lines[i] \in {l, k}
        BY <1>2, <1>9
    <3> QED BY <3>1, <3>2 DEF Evades, Avoids, P
  <2>2. CASE ~Carries(picked, facts) /\ ~Rejects(target, unsupported)
    <3>1. lines = <<l>> /\ l \notin P
        BY <2>2, <1>2, <1>4
    <3> QED BY <3>1, <1>9 DEF Evades, Avoids, P
  <2> QED BY <1>12, <2>1, <2>2
<1> QED BY <1>10, <1>11, <1>12 DEF lines, held, picked

-----------------------------------------------------------------------------
(* The rules of a device *)

\* The policy a rule of a profile stands for, and whether it lets pass what that
\* policy cannot carry.
Stands(memory, d, rule) ==
    IF rule.policies = << >> THEN rule.action ELSE Offered(memory, d.id, rule.id, rule.policies)
Lenient(p, rule) ==
    \/ (IF rule.on_unsupported # "" THEN rule.on_unsupported ELSE p.on_unsupported) = "fallthrough"
    \/ rule.policies = << >> /\ rule.action \in Builtins

\* What mihomo has to know for a device.
Serves(r, set, id) ==
    {q \in r.providers : q.name = RuleSetProviderName(id)}
        = {[name |-> RuleSetProviderName(id), body |-> ById(set.rule_sets, id).body]}

Hosts(r, memory, set, d, p) ==
    /\ Standing(r)
    /\ \A rule \in ToSet(p.rules) :
         /\ Picked(r, memory, TargetOf(d, rule)) = Stands(memory, d, rule)
         /\ \A id \in ToSet(rule.match["rule_sets"]) : Serves(r, set, id)
    /\ HasDefault(d) => Picked(r, memory, DeviceGroupName(d.id, "default"))
                          = Offered(memory, d.id, "default", p.default_policies)

LEMMA RuleParts ==
    ASSUME NEW set \in Known, NEW d \in ManagedDevice, d.id \in DeviceIds, NEW p, ProfileOK(set, p),
           NEW rule \in ToSet(p.rules)
    PROVE  /\ rule \in Rule /\ MatchOK(rule.match)
           /\ TargetOf(d, rule) \in AnyTarget
           /\ Source(d.ipv4) \in AnyCondition
           /\ Rejects(TargetOf(d, rule), resolveUnsupported(rule.on_unsupported, p.on_unsupported))
                <=> ~Lenient(p, rule)
<1>1. rule \in Rule /\ rule.id \in Slots /\ ToSet(rule.match["rule_sets"]) \subseteq ToSet(Ids(set.rule_sets))
    BY DEF ProfileOK
<1>2. MatchOK(rule.match)
    BY <1>1, DocumentParts DEF MatchOK, Rule
<1>3. TargetOf(d, rule) \in AnyTarget
    BY <1>1, GroupNamesApart DEF TargetOf, AnyTarget, Rule
<1>4. Source(d.ipv4) \in AnyCondition
    BY DEF Source, AnyCondition, ManagedDevice
<1>5. p.on_unsupported \in Unsupported /\ rule.on_unsupported \in Unsupported
    BY <1>1 DEF ProfileOK, Profile, Rule
<1>6. TargetOf(d, rule) \in Builtins <=> rule.policies = << >> /\ rule.action \in Builtins
    BY <1>1, GroupNamesApart DEF TargetOf
<1>7. resolveUnsupported(rule.on_unsupported, p.on_unsupported) = "reject"
        <=> (IF rule.on_unsupported # "" THEN rule.on_unsupported ELSE p.on_unsupported) # "fallthrough"
    BY <1>5 DEF resolveUnsupported, Unsupported
<1>8. Rejects(TargetOf(d, rule), resolveUnsupported(rule.on_unsupported, p.on_unsupported))
        <=> ~Lenient(p, rule)
    BY <1>6, <1>7 DEF Rejects, Lenient
<1> QED BY <1>1, <1>2, <1>3, <1>4, <1>8

\* What the blocks of lines that make up a rule look like.
LEMMA RuleLinesShape ==
    ASSUME NEW set \in Known, NEW d \in ManagedDevice, d.id \in DeviceIds, NEW p, ProfileOK(set, p),
           NEW rule \in ToSet(p.rules)
    PROVE  /\ ruleLines(d, p, rule) \in Seq(AnyLine)
           /\ \A x \in ToSet(ruleLines(d, p, rule)) :
                /\ Source(d.ipv4) \in x.when /\ x.to \in {TargetOf(d, rule), "REJECT"}
                /\ \A c \in x.when : c = Source(d.ipv4) \/ Stated(rule.match, c)
<1> DEFINE vs == ruleVariants(rule.match)
           un == resolveUnsupported(rule.on_unsupported, p.on_unsupported)
           block(v) == WithReject({Source(d.ipv4)} \cup v, TargetOf(d, rule), un)
           ss == [i \in DOMAIN vs |-> block(vs[i])]
<1>1. MatchOK(rule.match) /\ TargetOf(d, rule) \in AnyTarget /\ Source(d.ipv4) \in AnyCondition
    BY RuleParts
<1>2. vs \in Seq(SUBSET AnyCondition) /\ \A v \in ToSet(vs) : \A c \in v : Stated(rule.match, c)
    BY <1>1, VariantsMean
<1> HIDE DEF vs, un
<1>3. /\ DOMAIN vs = 1..Len(vs) /\ Len(vs) \in Nat
      /\ \A i \in 1..Len(vs) : vs[i] \in SUBSET AnyCondition /\ vs[i] \in ToSet(vs)
    BY <1>2 DEF ToSet
<1>4. ASSUME NEW v \in SUBSET AnyCondition
      PROVE  /\ block(v) \in Seq(AnyLine)
             /\ \A x \in ToSet(block(v)) : x.when = {Source(d.ipv4)} \cup v /\ x.to \in {TargetOf(d, rule), "REJECT"}
  <2>1. {Source(d.ipv4)} \cup v \in SUBSET AnyCondition
      BY <1>1
  <2> QED BY <1>1, <2>1, RejectBehind
<1> HIDE DEF block
<1>5. ss \in Seq(Seq(AnyLine)) /\ DOMAIN ss = 1..Len(vs) /\ \A i \in 1..Len(vs) : ss[i] = block(vs[i])
    BY <1>3, <1>4
<1> HIDE DEF ss
<1>6. FlattenSeq(ss) \in Seq(AnyLine) /\ ToSet(FlattenSeq(ss)) = UNION {ToSet(ss[k]) : k \in DOMAIN ss}
    BY <1>5, FlattenElements
<1>7. ASSUME NEW x \in ToSet(FlattenSeq(ss))
      PROVE  /\ Source(d.ipv4) \in x.when /\ x.to \in {TargetOf(d, rule), "REJECT"}
             /\ \A c \in x.when : c = Source(d.ipv4) \/ Stated(rule.match, c)
  <2>1. PICK k \in 1..Len(vs) : x \in ToSet(ss[k])
      BY <1>5, <1>6
  <2>2. x.when = {Source(d.ipv4)} \cup vs[k] /\ x.to \in {TargetOf(d, rule), "REJECT"}
      BY <2>1, <1>3, <1>4, <1>5
  <2> QED BY <2>2, <1>2, <1>3
<1>8. ruleLines(d, p, rule) = FlattenSeq(ss)
    BY DEF ruleLines, Concat, ss, block, vs, un
<1> QED BY <1>6, <1>7, <1>8

\* The expanded match holds of the packets it was written for.
LEMMA VariantsMeet ==
    ASSUME NEW r, NEW set \in Known, NEW match, MatchOK(match), NEW src, NEW facts \in Facts,
           \A id \in ToSet(match["rule_sets"]) : Serves(r, set, id)
    PROVE  Covers(ruleVariants(match), {c \in AnyCondition : Holds(r, c, src, facts)})
             <=> Meets(set, match, facts)
<1> DEFINE H == {c \in AnyCondition : Holds(r, c, src, facts)}
           Asked(dim, value) == <<dim, IF dim = "rule_sets" THEN ById(set.rule_sets, value).body ELSE value>>
<1>1. ASSUME NEW dim \in ToSet(Dimensions), NEW value \in ToSet(match[dim])
      PROVE  Condition(dim, value) \in H <=> Asked(dim, value) \in facts
  <2>1. Condition(dim, value) \in AnyCondition /\ Condition(dim, value)[1] = dim
      BY ConditionType
  <2>2. CASE dim = "rule_sets"
    <3>1. Condition(dim, value)[2] = RuleSetProviderName(value)
        BY <2>2 DEF Condition
    <3>2. Holds(r, Condition(dim, value), src, facts)
            <=> \E q \in r.providers : q.name = RuleSetProviderName(value) /\ <<"rule_sets", q.body>> \in facts
        BY <2>1, <2>2, <3>1 DEF Holds
    <3>3. Serves(r, set, value)
        BY <2>2
    <3>4. (\E q \in r.providers : q.name = RuleSetProviderName(value) /\ <<"rule_sets", q.body>> \in facts)
            <=> \E q \in {x \in r.providers : x.name = RuleSetProviderName(value)} : <<"rule_sets", q.body>> \in facts
        OBVIOUS
    <3>5. (\E q \in {x \in r.providers : x.name = RuleSetProviderName(value)} : <<"rule_sets", q.body>> \in facts)
            <=> <<"rule_sets", ById(set.rule_sets, value).body>> \in facts
      <4> DEFINE Q == {x \in r.providers : x.name = RuleSetProviderName(value)}
                 q0 == [name |-> RuleSetProviderName(value), body |-> ById(set.rule_sets, value).body]
      <4>1. Q = {q0} /\ q0.body = ById(set.rule_sets, value).body
          BY <3>3 DEF Serves
      <4> HIDE DEF Q, q0
      <4>2. (\E q \in Q : <<"rule_sets", q.body>> \in facts) <=> <<"rule_sets", q0.body>> \in facts
          BY <4>1
      <4> QED BY <4>1, <4>2 DEF Q
    <3> QED BY <2>1, <2>2, <3>2, <3>4, <3>5
  <2>3. CASE dim # "rule_sets"
    <3>1. Condition(dim, value) = <<dim, value>>
        BY <2>3 DEF Condition
    <3>2. Condition(dim, value) # Source(src)
      <4>1. Source(src)[1] = "SRC-IP-CIDR"
          BY DEF Source
      <4>2. dim # "SRC-IP-CIDR"
          BY DimensionSet
      <4> QED BY <2>1, <4>1, <4>2
    <3>3. Holds(r, Condition(dim, value), src, facts) <=> Condition(dim, value) \in facts
        BY <2>1, <2>3, <3>2 DEF Holds
    <3> QED BY <2>1, <2>3, <3>1, <3>3
  <2> QED BY <2>2, <2>3
<1>2. Covers(ruleVariants(match), H) <=> \A dim \in ToSet(Dimensions) : Meant(match, dim, H)
    BY VariantsMean
<1>3. Meets(set, match, facts)
        <=> \A dim \in ToSet(Dimensions) : match[dim] = << >> \/ \E value \in ToSet(match[dim]) : Asked(dim, value) \in facts
    BY DEF Meets
<1> HIDE DEF H, Asked
<1>4. \A dim \in ToSet(Dimensions) :
        Meant(match, dim, H) <=> match[dim] = << >> \/ \E value \in ToSet(match[dim]) : Asked(dim, value) \in facts
    BY <1>1 DEF Meant
<1> QED BY <1>2, <1>3, <1>4 DEF H

\* A rule of a device does to the device's packets what the profile says.
LEMMA RuleSends ==
    ASSUME NEW r, NEW memory, NEW set \in Known, NEW d \in ManagedDevice, d.id \in DeviceIds,
           NEW p, ProfileOK(set, p), Hosts(r, memory, set, d, p), NEW facts \in Facts,
           NEW rule \in ToSet(p.rules)
    PROVE  LET lines  == ruleLines(d, p, rule)
               meets  == Meets(set, rule.match, facts)
               target == Stands(memory, d, rule)
           IN  IF meets /\ (Carries(target, facts) \/ ~Lenient(p, rule))
               THEN Delivers(r, memory, lines, d.ipv4, facts, IF Carries(target, facts) THEN target ELSE "REJECT")
               ELSE Evades(r, memory, lines, d.ipv4, facts)
<1> DEFINE vs == ruleVariants(rule.match)
           un == resolveUnsupported(rule.on_unsupported, p.on_unsupported)
           block(v) == WithReject({Source(d.ipv4)} \cup v, TargetOf(d, rule), un)
           ss == [i \in DOMAIN vs |-> block(vs[i])]
           H == {c \in AnyCondition : Holds(r, c, d.ipv4, facts)}
           target == Stands(memory, d, rule)
           to == IF Carries(target, facts) THEN target ELSE "REJECT"
           meets == Meets(set, rule.match, facts)
           P == Takers(r, memory, d.ipv4, facts)
<1>1. /\ MatchOK(rule.match) /\ TargetOf(d, rule) \in AnyTarget /\ Source(d.ipv4) \in AnyCondition
      /\ Rejects(TargetOf(d, rule), un) <=> ~Lenient(p, rule)
    BY RuleParts
<1>2. vs \in Seq(SUBSET AnyCondition)
    BY <1>1, VariantsMean
<1>3. Covers(vs, H) <=> meets
    BY <1>1, VariantsMeet DEF Hosts
<1>4. Standing(r) /\ Picked(r, memory, TargetOf(d, rule)) = target
    BY DEF Hosts
<1> HIDE DEF vs, un, target, meets
<1>5. /\ DOMAIN vs = 1..Len(vs) /\ Len(vs) \in Nat
      /\ \A i \in 1..Len(vs) : vs[i] \in SUBSET AnyCondition
    BY <1>2
<1>6. ASSUME NEW v \in SUBSET AnyCondition
      PROVE  /\ block(v) \in Seq(AnyLine)
             /\ v \subseteq H /\ (Carries(target, facts) \/ ~Lenient(p, rule))
                  => Delivers(r, memory, block(v), d.ipv4, facts, to)
             /\ ~(v \subseteq H) \/ ~(Carries(target, facts) \/ ~Lenient(p, rule))
                  => Evades(r, memory, block(v), d.ipv4, facts)
  <2> DEFINE when == {Source(d.ipv4)} \cup v
             held == \A c \in when : Holds(r, c, d.ipv4, facts)
  <2>1. when \in SUBSET AnyCondition
      BY <1>1
  <2>2. held <=> v \subseteq H
      BY SourceHolds
  <2>3. block(v) \in Seq(AnyLine)
      BY <1>1, <2>1, RejectBehind
  <2>4. /\ held /\ Carries(target, facts) => Delivers(r, memory, block(v), d.ipv4, facts, target)
        /\ held /\ ~Carries(target, facts) /\ Rejects(TargetOf(d, rule), un)
             => Delivers(r, memory, block(v), d.ipv4, facts, "REJECT")
        /\ ~held \/ (~Carries(target, facts) /\ ~Rejects(TargetOf(d, rule), un))
             => Evades(r, memory, block(v), d.ipv4, facts)
    <3>1. block(v) = WithReject(when, TargetOf(d, rule), un)
        OBVIOUS
    <3> HIDE DEF when, block
    <3> QED BY <1>1, <1>4, <2>1, <3>1, RejectReacts
  <2> HIDE DEF held, block, H
  <2>5. CASE Carries(target, facts)
    <3>1. to = target
        BY <2>5
    <3> HIDE DEF to
    <3>2. v \subseteq H => Delivers(r, memory, block(v), d.ipv4, facts, to)
        BY <2>2, <2>4, <2>5, <3>1
    <3>3. ~(v \subseteq H) => Evades(r, memory, block(v), d.ipv4, facts)
        BY <2>2, <2>4, Zenon
    <3>4. Carries(target, facts) \/ ~Lenient(p, rule)
        BY <2>5
    <3> QED BY <2>3, <3>2, <3>3, <3>4, Zenon
  <2>6. CASE ~Carries(target, facts) /\ Lenient(p, rule)
    <3>1. ~Rejects(TargetOf(d, rule), un)
        BY <1>1, <2>6
    <3>2. Evades(r, memory, block(v), d.ipv4, facts)
        BY <2>4, <2>6, <3>1
    <3> QED BY <2>3, <2>6, <3>2
  <2>7. CASE ~Carries(target, facts) /\ ~Lenient(p, rule)
    <3>1. to = "REJECT" /\ Rejects(TargetOf(d, rule), un)
        BY <1>1, <2>7
    <3> HIDE DEF to
    <3>2. v \subseteq H => Delivers(r, memory, block(v), d.ipv4, facts, to)
        BY <2>2, <2>4, <2>7, <3>1
    <3>3. ~(v \subseteq H) => Evades(r, memory, block(v), d.ipv4, facts)
        BY <2>2, <2>4, Zenon
    <3>4. Carries(target, facts) \/ ~Lenient(p, rule)
        BY <2>7
    <3> QED BY <2>3, <3>2, <3>3, <3>4, Zenon
  <2> QED BY <2>5, <2>6, <2>7
<1> HIDE DEF block, H, to
<1>7. ss \in Seq(Seq(AnyLine)) /\ Len(ss) = Len(vs) /\ \A i \in 1..Len(vs) : ss[i] = block(vs[i])
    BY <1>5, <1>6
<1> HIDE DEF ss
<1>8. ruleLines(d, p, rule) = FlattenSeq(ss)
    BY DEF ruleLines, Concat, ss, block, vs, un
<1>9. CASE ~(Carries(target, facts) \/ ~Lenient(p, rule))
  <2>1. \A k \in 1..Len(ss) : Avoids(ss[k], P)
      BY <1>5, <1>6, <1>7, <1>9 DEF Evades
  <2>2. Avoids(FlattenSeq(ss), P)
      BY <2>1, <1>7, FirstOfFlatten
  <2> QED BY <2>2, <1>8, <1>9 DEF Evades, target
<1>10. CASE ~meets
  <2>1. ASSUME NEW k \in 1..Len(ss) PROVE Avoids(ss[k], P)
    <3>1. vs[k] \in ToSet(vs)
        BY <1>5, <1>7 DEF ToSet
    <3>2. ~(vs[k] \subseteq H)
        BY <3>1, <1>3, <1>10 DEF Covers
    <3> QED BY <3>2, <1>5, <1>6, <1>7 DEF Evades
  <2>2. Avoids(FlattenSeq(ss), P)
      BY <2>1, <1>7, FirstOfFlatten
  <2> QED BY <2>2, <1>8, <1>10 DEF Evades, meets
<1>11. CASE meets /\ (Carries(target, facts) \/ ~Lenient(p, rule))
  <2> DEFINE N == {k \in 1..Len(vs) : vs[k] \subseteq H}
  <2>1. N \in SUBSET Nat /\ N # {}
    <3>1. PICK v \in ToSet(vs) : v \subseteq H
        BY <1>3, <1>11 DEF Covers
    <3>2. PICK k \in 1..Len(vs) : vs[k] = v
        BY <1>5 DEF ToSet
    <3> QED BY <3>1, <3>2
  <2>2. PICK k \in N : \A j \in N : k <= j
    <3> HIDE DEF N
    <3> QED BY <2>1, LeastNat
  <2>3. \A j \in 1..k - 1 : j \in 1..Len(vs) /\ ~(vs[j] \subseteq H)
      BY <2>2, <1>5
  <2>4. k \in 1..Len(ss) /\ Delivers(r, memory, ss[k], d.ipv4, facts, to)
      BY <2>2, <1>5, <1>6, <1>7, <1>11
  <2>5. PICK x \in AnyLine : IsFirst(ss[k], P, x) /\ Picked(r, memory, x.to) = to
      BY <2>4 DEF Delivers
  <2>6. \A j \in 1..k - 1 : Avoids(ss[j], P)
      BY <2>3, <1>5, <1>6, <1>7 DEF Evades
  <2>7. IsFirst(FlattenSeq(ss), P, x)
      BY <2>4, <2>5, <2>6, <1>7, FirstOfFlatten
  <2>8. Delivers(r, memory, FlattenSeq(ss), d.ipv4, facts, to)
      BY <2>5, <2>7 DEF Delivers
  <2> QED BY <2>8, <1>8, <1>11 DEF meets, target, to
<1> QED BY <1>9, <1>10, <1>11 DEF meets, target

Overrides(d, p) == Concat(p.rules, LAMBDA rule : ruleLines(d, p, rule))

LEMMA OverridesShape ==
    ASSUME NEW set \in Known, NEW d \in ManagedDevice, d.id \in DeviceIds, NEW p, ProfileOK(set, p)
    PROVE  /\ Overrides(d, p) \in Seq(AnyLine)
           /\ \A x \in ToSet(Overrides(d, p)) :
                /\ Source(d.ipv4) \in x.when
                /\ \E rule \in ToSet(p.rules) :
                     /\ x.to \in {TargetOf(d, rule), "REJECT"}
                     /\ \A c \in x.when : c = Source(d.ipv4) \/ Stated(rule.match, c)
<1> DEFINE ss == [i \in DOMAIN p.rules |-> ruleLines(d, p, p.rules[i])]
<1>1. /\ p.rules \in Seq(Rule) /\ DOMAIN p.rules = 1..Len(p.rules) /\ Len(p.rules) \in Nat
      /\ \A i \in 1..Len(p.rules) : p.rules[i] \in ToSet(p.rules)
    BY DEF ProfileOK, Profile, ToSet
<1>2. \A i \in 1..Len(p.rules) : ruleLines(d, p, p.rules[i]) \in Seq(AnyLine)
    BY <1>1, RuleLinesShape
<1>3. ss \in Seq(Seq(AnyLine)) /\ DOMAIN ss = 1..Len(p.rules)
      /\ \A i \in 1..Len(p.rules) : ss[i] = ruleLines(d, p, p.rules[i])
    BY <1>1, <1>2
<1> HIDE DEF ss
<1>4. FlattenSeq(ss) \in Seq(AnyLine) /\ ToSet(FlattenSeq(ss)) = UNION {ToSet(ss[k]) : k \in DOMAIN ss}
    BY <1>3, FlattenElements
<1>5. ASSUME NEW x \in ToSet(FlattenSeq(ss))
      PROVE  /\ Source(d.ipv4) \in x.when
             /\ \E rule \in ToSet(p.rules) :
                  /\ x.to \in {TargetOf(d, rule), "REJECT"}
                  /\ \A c \in x.when : c = Source(d.ipv4) \/ Stated(rule.match, c)
  <2>1. PICK k \in 1..Len(p.rules) : x \in ToSet(ss[k])
      BY <1>3, <1>4
  <2>2. p.rules[k] \in ToSet(p.rules) /\ x \in ToSet(ruleLines(d, p, p.rules[k]))
      BY <2>1, <1>1, <1>3
  <2> QED BY <2>2, RuleLinesShape
<1>6. Overrides(d, p) = FlattenSeq(ss)
    BY DEF Overrides, Concat, ss
<1> QED BY <1>4, <1>5, <1>6

\* All rules of a device together.
LEMMA OverridesLead ==
    ASSUME NEW r, NEW memory, NEW set \in Known, NEW d \in ManagedDevice, d.id \in DeviceIds,
           NEW p, ProfileOK(set, p), Hosts(r, memory, set, d, p), NEW facts \in Facts, NEW rest
    PROVE  Leads(r, memory, Overrides(d, p), d.ipv4, facts, rest) = Ruled(set, p, d, memory, facts, rest)
<1> DEFINE ss == [i \in DOMAIN p.rules |-> ruleLines(d, p, p.rules[i])]
           Decides(i) == /\ Meets(set, p.rules[i].match, facts)
                         /\ Carries(Stands(memory, d, p.rules[i]), facts) \/ ~Lenient(p, p.rules[i])
           To(i) == IF Carries(Stands(memory, d, p.rules[i]), facts) THEN Stands(memory, d, p.rules[i]) ELSE "REJECT"
           deciding == {i \in DOMAIN p.rules : Decides(i)}
           least == CHOOSE i \in deciding : \A j \in deciding : i <= j
           P == Takers(r, memory, d.ipv4, facts)
<1>1. /\ p.rules \in Seq(Rule) /\ DOMAIN p.rules = 1..Len(p.rules) /\ Len(p.rules) \in Nat
      /\ \A i \in 1..Len(p.rules) : p.rules[i] \in ToSet(p.rules)
    BY DEF ProfileOK, Profile, ToSet
<1>2. Ruled(set, p, d, memory, facts, rest) = IF deciding = {} THEN rest ELSE To(least)
    BY DEF Ruled, Stands, Lenient, Outcome
<1>3. \A i \in 1..Len(p.rules) : ruleLines(d, p, p.rules[i]) \in Seq(AnyLine)
    BY <1>1, RuleLinesShape
<1>4. /\ ss \in Seq(Seq(AnyLine)) /\ Len(ss) = Len(p.rules)
      /\ \A i \in 1..Len(p.rules) : ss[i] = ruleLines(d, p, p.rules[i])
    BY <1>1, <1>3
<1>5. ASSUME NEW i \in 1..Len(p.rules)
      PROVE  IF Decides(i) THEN Delivers(r, memory, ss[i], d.ipv4, facts, To(i))
                           ELSE Evades(r, memory, ss[i], d.ipv4, facts)
    BY <1>1, <1>4, RuleSends
<1>6. Overrides(d, p) = FlattenSeq(ss)
    BY DEF Overrides, Concat
<1> HIDE DEF ss, Decides, To, P
<1>7. CASE deciding = {}
  <2>1. \A k \in 1..Len(ss) : Avoids(ss[k], P)
      BY <1>1, <1>4, <1>5, <1>7 DEF Evades, P
  <2>2. Leads(r, memory, FlattenSeq(ss), d.ipv4, facts, rest) = rest
      BY <2>1, <1>4, LeadsNone DEF P
  <2> QED BY <2>2, <1>2, <1>6, <1>7
<1>8. CASE deciding # {}
  <2>1. deciding \in SUBSET (1..Len(p.rules))
      BY <1>1
  <2> HIDE DEF deciding
  <2>2. least \in deciding /\ \A j \in deciding : least <= j
    <3>1. \E i \in deciding : \A j \in deciding : i <= j
        BY <2>1, <1>8, LeastNat
    <3> QED BY <3>1
  <2> HIDE DEF least
  <2>3. least \in 1..Len(ss) /\ Decides(least)
      BY <2>1, <2>2, <1>4 DEF deciding
  <2>4. ASSUME NEW j \in 1..least - 1 PROVE Avoids(ss[j], P)
    <3>1. j \in 1..Len(p.rules) /\ ~(least <= j)
        BY <2>1, <2>2, <1>1
    <3>2. ~Decides(j)
        BY <3>1, <2>2, <1>1 DEF deciding
    <3> QED BY <3>1, <3>2, <1>5 DEF Evades, P
  <2>5. PICK x \in AnyLine : IsFirst(ss[least], P, x) /\ Picked(r, memory, x.to) = To(least)
      BY <2>3, <1>4, <1>5 DEF Delivers, P
  <2>6. IsFirst(FlattenSeq(ss), P, x)
      BY <2>3, <2>4, <2>5, <1>4, FirstOfFlatten
  <2>7. Leads(r, memory, FlattenSeq(ss), d.ipv4, facts, rest) = To(least)
    <3>1. FlattenSeq(ss) \in Seq(AnyLine)
        BY <1>4, FlattenStep
    <3> QED BY <2>5, <2>6, <3>1, LeadsFirst DEF P
  <2> QED BY <2>7, <1>2, <1>6, <1>8 DEF least, deciding
<1> QED BY <1>7, <1>8

LEMMA DefaultsShape ==
    ASSUME NEW d \in ManagedDevice, d.id \in DeviceIds, NEW p
    PROVE  /\ defaultLines(d, p) \in Seq(AnyLine)
           /\ \A x \in ToSet(defaultLines(d, p)) :
                x.when = {Source(d.ipv4)} /\ x.to \in {DeviceGroupName(d.id, "default"), "REJECT"}
<1>1. {Source(d.ipv4)} \in SUBSET AnyCondition
  <2>1. Source(d.ipv4) \in AnyCondition
      BY DEF Source, AnyCondition, ManagedDevice
  <2> QED BY <2>1
<1>2. "default" \in Slots
    BY DEF Slots
<1>3. DeviceGroupName(d.id, "default") \in AnyTarget
    BY <1>2, GroupNamesApart DEF AnyTarget
<1> QED BY <1>1, <1>3, RejectBehind DEF defaultLines

\* What the default policy of a device does to a packet its rules have passed on.
DefaultOutcome(memory, d, p, facts, rest) ==
    Outcome(Offered(memory, d.id, "default", p.default_policies), p.on_unsupported = "fallthrough", facts, rest)

\* A device's default rules send a packet as its default policy would.
LEMMA DefaultsLead ==
    ASSUME NEW r, NEW memory, NEW set \in Known, NEW d \in ManagedDevice, d.id \in DeviceIds,
           NEW p, ProfileOK(set, p), Hosts(r, memory, set, d, p), HasDefault(d), NEW facts \in Facts, NEW rest
    PROVE  Leads(r, memory, defaultLines(d, p), d.ipv4, facts, rest) = DefaultOutcome(memory, d, p, facts, rest)
<1> DEFINE when == {Source(d.ipv4)}
           target == DeviceGroupName(d.id, "default")
           un == resolveUnsupported("", p.on_unsupported)
           picked == Picked(r, memory, target)
           lines == WithReject(when, target, un)
<1>1. when \in SUBSET AnyCondition
  <2>1. Source(d.ipv4) \in AnyCondition
      BY DEF Source, AnyCondition, ManagedDevice
  <2> QED BY <2>1
<1>2. target \in AnyTarget /\ target \notin Builtins
    BY GroupNamesApart DEF AnyTarget, Slots
<1>3. \A c \in when : Holds(r, c, d.ipv4, facts)
    BY SourceHolds
<1>4. picked = Offered(memory, d.id, "default", p.default_policies) /\ Standing(r)
    BY DEF Hosts
<1>5. Rejects(target, un) <=> p.on_unsupported # "fallthrough"
  <2>1. p.on_unsupported \in Unsupported
      BY DEF ProfileOK, Profile
  <2>2. un = "reject" <=> p.on_unsupported # "fallthrough"
      BY <2>1 DEF resolveUnsupported, Unsupported
  <2> QED BY <2>2, <1>2 DEF Rejects
<1>6. defaultLines(d, p) = lines /\ lines \in Seq(AnyLine)
  <2>1. defaultLines(d, p) = lines
      BY DEF defaultLines
  <2> QED BY <2>1, DefaultsShape
<1> HIDE DEF when, target, un
<1>7. /\ Carries(picked, facts) => Delivers(r, memory, lines, d.ipv4, facts, picked)
      /\ ~Carries(picked, facts) /\ Rejects(target, un) => Delivers(r, memory, lines, d.ipv4, facts, "REJECT")
      /\ ~Carries(picked, facts) /\ ~Rejects(target, un) => Evades(r, memory, lines, d.ipv4, facts)
    BY <1>1, <1>2, <1>3, <1>4, RejectReacts
<1> HIDE DEF picked, lines
<1>8. Leads(r, memory, lines, d.ipv4, facts, rest) = Outcome(picked, p.on_unsupported = "fallthrough", facts, rest)
  <2>1. CASE Carries(picked, facts)
    <3>1. Leads(r, memory, lines, d.ipv4, facts, rest) = picked
        BY <2>1, <1>6, <1>7, SentOrPassed
    <3> QED BY <2>1, <3>1 DEF Outcome
  <2>2. CASE ~Carries(picked, facts) /\ p.on_unsupported # "fallthrough"
    <3>1. Leads(r, memory, lines, d.ipv4, facts, rest) = "REJECT"
        BY <2>2, <1>5, <1>6, <1>7, SentOrPassed
    <3> QED BY <2>2, <3>1 DEF Outcome
  <2>3. CASE ~Carries(picked, facts) /\ p.on_unsupported = "fallthrough"
    <3>1. Leads(r, memory, lines, d.ipv4, facts, rest) = rest
        BY <2>3, <1>5, <1>6, <1>7, SentOrPassed
    <3> QED BY <2>3, <3>1 DEF Outcome
  <2> QED BY <2>1, <2>2, <2>3
<1> QED BY <1>4, <1>6, <1>8 DEF DefaultOutcome

LEMMA LocalLead ==
    ASSUME NEW r, Standing(r), NEW memory, NEW d \in ManagedDevice, NEW facts \in Facts, NEW rest
    PROVE  /\ << LocalLine(d) >> \in Seq(AnyLine)
           /\ Leads(r, memory, << LocalLine(d) >>, d.ipv4, facts, rest)
                = IF Local \in facts THEN "DIRECT" ELSE rest
<1> DEFINE l == LocalLine(d)
           P == Takers(r, memory, d.ipv4, facts)
<1>1. l \in AnyLine
  <2>1. Source(d.ipv4) \in AnyCondition /\ Local \in AnyCondition
      BY DimensionSet DEF Source, Local, AnyCondition, ManagedDevice
  <2>2. "DIRECT" \in AnyTarget
      BY BuiltinNames DEF AnyTarget
  <2> QED BY <2>1, <2>2 DEF LocalLine, AnyLine
<1>2. Holds(r, Local, d.ipv4, facts) <=> Local \in facts
    BY DEF Holds, Local, Source
<1>3. Picked(r, memory, "DIRECT") = "DIRECT" /\ Carries("DIRECT", facts)
    BY BuiltinStands, BuiltinNames
<1>4. l.to = "DIRECT" /\ l.when = {Source(d.ipv4), Local}
    BY DEF LocalLine
<1>5. l \in P <=> Local \in facts
    BY <1>1, <1>2, <1>3, <1>4, SourceHolds DEF Takers, Takes
<1>6. Len(<<l>>) = 1 /\ <<l>>[1] = l /\ <<l>> \in Seq(AnyLine)
    BY <1>1
<1> HIDE DEF l, P
<1>7. CASE Local \in facts
  <2>1. IsFirst(<<l>>, P, l)
      BY <1>5, <1>6, <1>7 DEF IsFirst
  <2>2. Leads(r, memory, <<l>>, d.ipv4, facts, rest) = Picked(r, memory, l.to)
    <3> DEFINE lines == <<l>>
    <3>1. lines \in Seq(AnyLine) /\ IsFirst(lines, P, l)
        BY <2>1, <1>6
    <3> HIDE DEF lines
    <3>2. Leads(r, memory, lines, d.ipv4, facts, rest) = Picked(r, memory, l.to)
        BY <3>1, LeadsFirst DEF P
    <3> QED BY <3>2 DEF lines
  <2> QED BY <2>2, <1>3, <1>4, <1>6, <1>7 DEF l
<1>8. CASE Local \notin facts
  <2>1. Avoids(<<l>>, P)
      BY <1>5, <1>6, <1>8 DEF Avoids
  <2>2. Leads(r, memory, <<l>>, d.ipv4, facts, rest) = rest
      BY <2>1, <1>6, LeadsFirst DEF P
  <2> QED BY <2>2, <1>6, <1>8 DEF l
<1> QED BY <1>7, <1>8

-----------------------------------------------------------------------------
(* The documents' devices that are compiled *)

AddressIn == [d \in ManagedDevice |-> d.ipv4]
MayServe(sameLAN) == {d \in ManagedDevice : sameLAN \/ d.mac # ""}

LEMMA ActiveDevices ==
    ASSUME NEW set \in Known, ValidatePolicySet(set), NEW sameLAN
    PROVE  /\ activeDevices(set, sameLAN) \in Seq(ManagedDevice)
           /\ ToSet(activeDevices(set, sameLAN)) = ToSet(set.devices) \cap MayServe(sameLAN)
           /\ Unlike(activeDevices(set, sameLAN), IdIn(ManagedDevice))
           /\ Unlike(activeDevices(set, sameLAN), AddressIn)
           /\ \A d, e \in ToSet(set.devices) : d.id = e.id \/ d.ipv4 = e.ipv4 => d = e
<1> DEFINE s == set.devices
           S == MayServe(sameLAN)
           kept == KeepIn(s, S)
<1>1. s \in Seq(ManagedDevice)
    BY DocumentParts DEF PolicySet
<1>2. DOMAIN s = 1..Len(s) /\ \A i \in 1..Len(s) : s[i] \in ManagedDevice
    BY <1>1
<1>3. activeDevices(set, sameLAN) = kept
  <2>1. \A i \in DOMAIN s : s[i] \in S <=> (sameLAN \/ s[i].mac # "")
      BY <1>2 DEF MayServe
  <2>2. [i \in DOMAIN s |-> IF s[i] \in S THEN <<s[i]>> ELSE << >>]
          = [i \in DOMAIN s |-> IF sameLAN \/ s[i].mac # "" THEN <<s[i]>> ELSE << >>]
      BY <2>1
  <2>3. activeDevices(set, sameLAN)
          = FlattenSeq([i \in DOMAIN s |-> IF sameLAN \/ s[i].mac # "" THEN <<s[i]>> ELSE << >>])
      BY DEF activeDevices, Where, Concat
  <2> QED BY <2>2, <2>3 DEF KeepIn
<1>4. Distinct(Ids(s)) /\ Distinct([i \in DOMAIN s |-> s[i].ipv4])
    BY DEF ValidatePolicySet
<1> HIDE DEF s
<1>5. Unlike(s, IdIn(ManagedDevice)) /\ \A d, e \in ToSet(s) : d.id = e.id => d = e
    BY <1>1, <1>4, DistinctIds
<1>6. \A i, j \in 1..Len(s) : s[i].ipv4 = s[j].ipv4 => i = j
    BY <1>2, <1>4 DEF Distinct, IsInjective
<1>7. Unlike(s, AddressIn) /\ \A d, e \in ToSet(s) : d.ipv4 = e.ipv4 => d = e
    BY <1>2, <1>6 DEF Unlike, AddressIn, ToSet
<1> HIDE DEF S
<1>8. /\ kept \in Seq(ManagedDevice)
      /\ ToSet(kept) = ToSet(s) \cap S
      /\ \A K : Unlike(s, K) => Unlike(kept, K)
    BY <1>1, WhereIn
<1> HIDE DEF kept
<1>9. Unlike(kept, IdIn(ManagedDevice)) /\ Unlike(kept, AddressIn)
    BY <1>5, <1>7, <1>8
<1> QED BY <1>3, <1>5, <1>7, <1>8, <1>9 DEF s, S

LEMMA CompiledFields ==
    ASSUME NEW set, NEW d
    PROVE  LET p  == deviceProfile(set, d)
               cd == compileDevice(set, d)
           IN  /\ cd.id = d.id /\ cd.mac = d.mac /\ cd.ipv4 = d.ipv4
               /\ cd.mode = EffectiveEgressMode(d.egress_mode)
               /\ cd.slots = {r.id : r \in Choosing(p)} \cup (IF HasDefault(d) THEN {"default"} ELSE {})
               /\ cd.groups = deviceGroups(d, p)
               /\ cd.actions = {r.action : r \in {x \in ToSet(p.rules) : x.policies = << >>}}
               /\ cd.referenced = UNION {ToSet(r.match["rule_sets"]) : r \in ToSet(p.rules)}
               /\ cd.overrides = Overrides(d, p)
               /\ cd.defaults = defaultLines(d, p)
BY DEF compileDevice, Overrides, Choosing, HasDefault

\* A device that is compiled, with its place.
LEMMA ActiveParts ==
    ASSUME NEW set \in Known, ValidatePolicySet(set), NEW sameLAN,
           NEW d \in ToSet(activeDevices(set, sameLAN))
    PROVE  /\ d \in ToSet(set.devices) /\ d \in ManagedDevice /\ d.id \in DeviceIds
           /\ sameLAN \/ d.mac # ""
           /\ ProfileOK(set, deviceProfile(set, d))
           /\ \E k \in 1..Len(activeDevices(set, sameLAN)) : activeDevices(set, sameLAN)[k] = d
<1>1. d \in ToSet(set.devices) \cap MayServe(sameLAN) /\ activeDevices(set, sameLAN) \in Seq(ManagedDevice)
    BY ActiveDevices
<1>2. d \in ManagedDevice /\ d.id \in DeviceIds
    BY <1>1, DocumentParts
<1>3. ProfileOK(set, deviceProfile(set, d))
    BY <1>1, DeviceProfileOK
<1>4. \E k \in 1..Len(activeDevices(set, sameLAN)) : activeDevices(set, sameLAN)[k] = d
    BY <1>1 DEF ToSet
<1> QED BY <1>1, <1>2, <1>3, <1>4 DEF MayServe

\* The groups of all devices.
LEMMA CompiledGroups ==
    ASSUME NEW set \in Known, ValidatePolicySet(set), NEW sameLAN
    PROVE  LET groups == CompilePolicySet(set, sameLAN).groups IN
           /\ groups \in Seq(AnyGroup) /\ Unlike(groups, NameIn)
           /\ ToSet(groups) = UNION {ToSet(deviceGroups(d, deviceProfile(set, d))) :
                                       d \in ToSet(activeDevices(set, sameLAN))}
<1> DEFINE active == activeDevices(set, sameLAN)
           GroupsOf(d) == deviceGroups(d, deviceProfile(set, d))
           ss == [i \in DOMAIN active |-> GroupsOf(active[i])]
<1>1. /\ active \in Seq(ManagedDevice) /\ Len(active) \in Nat /\ DOMAIN active = 1..Len(active)
      /\ \A i \in 1..Len(active) : active[i] \in ToSet(active)
      /\ Unlike(active, IdIn(ManagedDevice))
    BY ActiveDevices DEF ToSet
<1>2. ASSUME NEW d \in ToSet(active)
      PROVE  /\ GroupsOf(d) \in Seq(AnyGroup) /\ Unlike(GroupsOf(d), NameIn)
             /\ d \in ManagedDevice /\ d.id \in DeviceIds
             /\ \A g \in ToSet(GroupsOf(d)) :
                  NameIn[g] = g.name /\ \E slot \in Slots : g.name = DeviceGroupName(d.id, slot)
  <2> DEFINE p == deviceProfile(set, d)
  <2>1. d \in ManagedDevice /\ d.id \in DeviceIds /\ ProfileOK(set, p)
      BY ActiveParts
  <2>2. /\ GroupsOf(d) \in Seq(AnyGroup) /\ Unlike(GroupsOf(d), NameIn)
        /\ ToSet(GroupsOf(d)) = {GroupOfRule(d, r) : r \in Choosing(p)}
             \cup (IF HasDefault(d) THEN {Group(d, "default", p.default_policies)} ELSE {})
      BY <2>1, GroupsOfDevice
  <2>3. ASSUME NEW g \in ToSet(GroupsOf(d))
        PROVE  NameIn[g] = g.name /\ \E slot \in Slots : g.name = DeviceGroupName(d.id, slot)
    <3>1. NameIn[g] = g.name
      <4> HIDE DEF GroupsOf
      <4>1. g \in AnyGroup
          BY <2>2, SequenceParts
      <4> QED BY <4>1 DEF NameIn
    <3>2. CASE \E r \in Choosing(p) : g = GroupOfRule(d, r)
      <4>1. PICK r \in ToSet(p.rules) : g = Group(d, r.id, r.policies)
          BY <3>2 DEF Choosing, GroupOfRule
      <4>2. r.id \in Slots
          BY <2>1 DEF ProfileOK
      <4> QED BY <3>1, <4>1, <4>2 DEF Group
    <3>3. CASE g = Group(d, "default", p.default_policies)
      <4>1. "default" \in Slots
          BY DEF Slots
      <4> QED BY <3>1, <3>3, <4>1 DEF Group
    <3>4. (\E r \in Choosing(p) : g = GroupOfRule(d, r)) \/ g = Group(d, "default", p.default_policies)
      <4>1. g \in {GroupOfRule(d, r) : r \in Choosing(p)}
               \cup (IF HasDefault(d) THEN {Group(d, "default", p.default_policies)} ELSE {})
          BY <2>2
      <4> HIDE DEF p
      <4> QED BY <4>1
    <3> QED BY <3>2, <3>3, <3>4
  <2> QED BY <2>1, <2>2, <2>3
<1>3. CompilePolicySet(set, sameLAN).groups = FlattenSeq(ss)
  <2> DEFINE built == [i \in DOMAIN active |-> compileDevice(set, active[i])]
  <2>1. CompilePolicySet(set, sameLAN).groups = FlattenSeq([i \in DOMAIN built |-> built[i].groups])
      BY DEF CompilePolicySet, Concat
  <2>2. [i \in DOMAIN built |-> built[i].groups] = ss
      BY CompiledFields
  <2> QED BY <2>1, <2>2
<1> HIDE DEF GroupsOf, active
<1>4. ss \in Seq(Seq(AnyGroup)) /\ Len(ss) = Len(active) /\ DOMAIN ss = 1..Len(active)
      /\ \A i \in 1..Len(active) : ss[i] = GroupsOf(active[i])
    BY <1>1, <1>2
<1> HIDE DEF ss
<1>5. Apart(ss, NameIn)
  <2>1. \A k \in 1..Len(ss) : Unlike(ss[k], NameIn)
      BY <1>1, <1>2, <1>4
  <2>2. ASSUME NEW j \in 1..Len(ss), NEW k \in 1..Len(ss), j # k,
               NEW x \in ToSet(ss[j]), NEW y \in ToSet(ss[k])
        PROVE  NameIn[x] # NameIn[y]
    <3>1. /\ active[j] \in ToSet(active) /\ active[k] \in ToSet(active)
          /\ x \in ToSet(GroupsOf(active[j])) /\ y \in ToSet(GroupsOf(active[k]))
        BY <1>1, <1>4, <2>2
    <3>2. active[j].id # active[k].id
      <4>1. active[j] \in ManagedDevice /\ active[k] \in ManagedDevice
          BY <3>1, <1>2
      <4> QED BY <4>1, <1>1, <1>4, <2>2 DEF Unlike, IdIn
    <3>3. PICK s \in Slots : NameIn[x] = DeviceGroupName(active[j].id, s)
        BY <3>1, <1>2
    <3>4. PICK t \in Slots : NameIn[y] = DeviceGroupName(active[k].id, t)
        BY <3>1, <1>2
    <3>5. active[j].id \in DeviceIds /\ active[k].id \in DeviceIds
        BY <3>1, <1>2
    <3> QED BY <3>2, <3>3, <3>4, <3>5, GroupNamesApart
  <2> QED BY <2>1, <2>2 DEF Apart
<1>6. Unlike(FlattenSeq(ss), NameIn) /\ FlattenSeq(ss) \in Seq(AnyGroup)
    BY <1>4, <1>5, FlattenUnlike, FlattenElements
<1>7. ToSet(FlattenSeq(ss)) = UNION {ToSet(GroupsOf(d)) : d \in ToSet(active)}
  <2>1. ToSet(FlattenSeq(ss)) = UNION {ToSet(ss[k]) : k \in DOMAIN ss}
      BY <1>4, FlattenElements
  <2>2. ASSUME NEW x \in ToSet(FlattenSeq(ss)) PROVE x \in UNION {ToSet(GroupsOf(d)) : d \in ToSet(active)}
    <3>1. PICK k \in 1..Len(active) : x \in ToSet(ss[k])
        BY <2>1, <1>4
    <3> QED BY <3>1, <1>1, <1>4
  <2>3. ASSUME NEW x \in UNION {ToSet(GroupsOf(d)) : d \in ToSet(active)} PROVE x \in ToSet(FlattenSeq(ss))
    <3>1. PICK d \in ToSet(active) : x \in ToSet(GroupsOf(d))
        BY <2>3
    <3>2. PICK k \in 1..Len(active) : d = active[k]
        BY <1>1 DEF ToSet
    <3> QED BY <3>1, <3>2, <2>1, <1>4
  <2> QED BY <2>2, <2>3
<1> QED BY <1>3, <1>6, <1>7 DEF active, GroupsOf

-----------------------------------------------------------------------------
(* What mihomo can resolve *)

Unique(r) ==
    /\ \A g, h \in ToSet(r.groups) : g.name = h.name => g = h
    /\ \A p, q \in r.providers : p.name = q.name => p = q

\* The names of a rule are a policy, a group or a provider that there is.
Resolved(x, names, groups, providers) ==
    /\ x.to \in names \/ \E g \in groups : x.to = g.name
    /\ \A c \in x.when : c[1] = "rule_sets" => \E p \in providers : p.name = c[2]

\* What a group stands for.
Choice(memory, g) ==
    IF g.name \in DOMAIN memory /\ memory[g.name] \in ToSet(g.policies) THEN memory[g.name] ELSE g.policies[1]

LEMMA GroupStandsFor ==
    ASSUME NEW r, Unique(r), NEW memory, NEW g \in ToSet(r.groups)
    PROVE  Picked(r, memory, g.name) = Choice(memory, g)
<1>1. g.name \in GroupNames(r)
    BY DEF GroupNames
<1>2. {h \in ToSet(r.groups) : h.name = g.name} = {g}
    BY DEF Unique
<1>3. Options(r, g.name) = ToSet(g.policies)
    BY <1>2 DEF Options
<1>4. (CHOOSE h \in ToSet(r.groups) : h.name = g.name) = g
    BY DEF Unique
<1>5. First(r, g.name) = g.policies[1]
    BY <1>4 DEF First
<1> QED BY <1>1, <1>3, <1>5 DEF Picked, Choice

LEMMA OtherNamesStand ==
    ASSUME NEW r, NEW memory, NEW name, name \notin GroupNames(r)
    PROVE  Picked(r, memory, name) = name
BY DEF Picked

\* Two configurations of mihomo that have the groups and the providers of a rule in
\* common treat it alike.
LEMMA ResolvedAlike ==
    ASSUME NEW r, NEW s, NEW memory, NEW src, NEW facts, NEW x, NEW names, NEW groups, NEW providers,
           Unique(r), Unique(s),
           groups \subseteq ToSet(r.groups), groups \subseteq ToSet(s.groups),
           providers \subseteq r.providers, providers \subseteq s.providers,
           names \cap GroupNames(r) = {}, names \cap GroupNames(s) = {},
           Resolved(x, names, groups, providers)
    PROVE  /\ Takes(r, memory, x, src, facts) <=> Takes(s, memory, x, src, facts)
           /\ Picked(r, memory, x.to) = Picked(s, memory, x.to)
<1>1. Picked(r, memory, x.to) = Picked(s, memory, x.to)
  <2>1. CASE x.to \in names
    <3>1. x.to \notin GroupNames(r) /\ x.to \notin GroupNames(s)
        BY <2>1
    <3> QED BY <3>1, OtherNamesStand
  <2>2. CASE \E g \in groups : x.to = g.name
    <3>1. PICK g \in groups : x.to = g.name
        BY <2>2
    <3>2. g \in ToSet(r.groups) /\ g \in ToSet(s.groups)
        OBVIOUS
    <3>3. Picked(r, memory, g.name) = Choice(memory, g) /\ Picked(s, memory, g.name) = Choice(memory, g)
        BY <3>2, GroupStandsFor
    <3> QED BY <3>1, <3>3
  <2> QED BY <2>1, <2>2 DEF Resolved
<1>2. ASSUME NEW c \in x.when PROVE Holds(r, c, src, facts) <=> Holds(s, c, src, facts)
  <2>1. CASE c[1] = "rule_sets"
    <3>1. PICK p \in providers : p.name = c[2]
        BY <2>1 DEF Resolved
    <3>2. p \in r.providers /\ p \in s.providers
        OBVIOUS
    <3>3. Holds(r, c, src, facts) <=> <<"rule_sets", p.body>> \in facts
        BY <2>1, <3>1, <3>2 DEF Holds, Unique
    <3>4. Holds(s, c, src, facts) <=> <<"rule_sets", p.body>> \in facts
        BY <2>1, <3>1, <3>2 DEF Holds, Unique
    <3> QED BY <3>3, <3>4
  <2>2. CASE c[1] # "rule_sets"
      BY <2>2 DEF Holds
  <2> QED BY <2>1, <2>2
<1> QED BY <1>1, <1>2 DEF Takes

\* The providers of the rule sets a device refers to.
ProviderOf(set, id) == [name |-> RuleSetProviderName(id), body |-> ById(set.rule_sets, id).body]
Referenced(p)       == UNION {ToSet(rule.match["rule_sets"]) : rule \in ToSet(p.rules)}
ProvidersOf(set, p) == {ProviderOf(set, id) : id \in Referenced(p)}

\* The empty document is valid everywhere and has no devices.
LEMMA NobodyActive ==
    ASSUME NEW sameLAN
    PROVE  ValidForLAN(EmptySet, sameLAN) /\ ToSet(activeDevices(EmptySet, sameLAN)) = {}
<1>1. /\ EmptySet.devices = << >> /\ EmptySet.profiles = << >> /\ EmptySet.templates = << >>
      /\ EmptySet.rule_sets = << >>
    BY DEF EmptySet
<1>2. Ids(<< >>) = << >> /\ Distinct(<< >>) /\ ToSet(<< >>) = {}
    BY DEF Ids, Distinct, IsInjective, ToSet
<1>3. Macs(EmptySet) = << >>
  <2>1. [i \in DOMAIN EmptySet.devices |-> EmptySet.devices[i].mac] = << >>
      BY <1>1
  <2>2. Where(<< >>, LAMBDA m : m # "") = FlattenSeq(<< >>)
      BY DEF Where, Concat
  <2>3. FlattenSeq(<< >>) = << >>
      BY FlattenStep
  <2> QED BY <2>1, <2>2, <2>3 DEF Macs
<1>4. [i \in DOMAIN EmptySet.devices |-> EmptySet.devices[i].ipv4] = << >>
    BY <1>1
<1>5. ValidatePolicySet(EmptySet)
    BY <1>1, <1>2, <1>3, <1>4 DEF ValidatePolicySet
<1>6. EmptySet \in Known
    BY DEF Known
<1>7. ToSet(activeDevices(EmptySet, sameLAN)) = {}
  <2>1. ToSet(activeDevices(EmptySet, sameLAN)) = ToSet(EmptySet.devices) \cap MayServe(sameLAN)
      BY <1>5, <1>6, ActiveDevices
  <2> QED BY <2>1, <1>1, <1>2
<1> QED BY <1>5, <1>6, <1>7 DEF ValidForLAN, ValidSets

LEMMA CompiledProviders ==
    ASSUME NEW set \in Known, ValidatePolicySet(set), NEW sameLAN
    PROVE  LET provided == CompilePolicySet(set, sameLAN).providers IN
           /\ \A q \in provided : \E id \in RuleSetIds : q = ProviderOf(set, id)
           /\ provided # {} => ToSet(activeDevices(set, sameLAN)) # {}
           /\ \A d \in ToSet(activeDevices(set, sameLAN)) :
                ProvidersOf(set, deviceProfile(set, d)) \subseteq provided
<1> DEFINE active == activeDevices(set, sameLAN)
           built == [i \in DOMAIN active |-> compileDevice(set, active[i])]
           used == UNION {d.referenced : d \in ToSet(built)}
<1>1. CompilePolicySet(set, sameLAN).providers = {ProviderOf(set, id) : id \in used}
    BY DEF CompilePolicySet, ProviderOf
<1>2. ToSet(built) = {compileDevice(set, d) : d \in ToSet(active)}
    BY DEF ToSet
<1>3. \A d : compileDevice(set, d).referenced = Referenced(deviceProfile(set, d))
    BY CompiledFields DEF Referenced
<1> HIDE DEF active, built
<1>4. \A id \in used : \E d \in ToSet(active) : id \in Referenced(deviceProfile(set, d))
    BY <1>2, <1>3
<1>5. \A d \in ToSet(active) : Referenced(deviceProfile(set, d)) \subseteq used
    BY <1>2, <1>3
<1>6. ASSUME NEW d \in ToSet(active) PROVE Referenced(deviceProfile(set, d)) \subseteq RuleSetIds
  <2>1. ProfileOK(set, deviceProfile(set, d))
      BY ActiveParts DEF active
  <2> QED BY <2>1, DocumentParts DEF ProfileOK, Referenced
<1> HIDE DEF used
<1> QED BY <1>1, <1>4, <1>5, <1>6 DEF active, ProvidersOf

LEMMA SettingParts ==
    ASSUME NEW s \in Settings
    PROVE  /\ s.global \in GlobalRules /\ s.sameLAN \in BOOLEAN
           /\ s.global.before \in Seq(AnyLine) /\ s.global.terminal \in Seq(AnyLine)
           /\ \A x \in ToSet(s.global.before) \cup ToSet(s.global.terminal) :
                Resolved(x, Native \cup s.global.targets, {}, s.global.providers)
<1>1. /\ s.global \in GlobalRules /\ s.sameLAN \in BOOLEAN
      /\ \A line \in ToSet(s.global.before) \cup ToSet(s.global.terminal) :
           /\ line.to \in Native \cup s.global.targets
           /\ \A c \in line.when : c[1] = "rule_sets" => \E p \in s.global.providers : p.name = c[2]
    BY SettingsAssumption DEF SettingsAssumption
<1>2. Line \subseteq AnyLine
  <2>1. STRING \X STRING \subseteq AnyCondition
      BY DEF AnyCondition
  <2>2. SUBSET (STRING \X STRING) \subseteq SUBSET AnyCondition
      BY <2>1
  <2>3. STRING \subseteq AnyTarget
      BY DEF AnyTarget
  <2> QED BY <2>2, <2>3 DEF Line, AnyLine
<1>3. s.global.before \in Seq(Line) /\ s.global.terminal \in Seq(Line)
    BY <1>1 DEF GlobalRules
<1> QED BY <1>1, <1>2, <1>3 DEF Resolved

\* What OpenSurge lets pass and has no name twice: what mihomo is given is of this kind.
Admitted(set, s) == Passes(set, s) /\ NoNameTwice(Rendered(set, s))

LEMMA AcceptedAdmitted ==
    ASSUME NEW set, NEW s, Accepted(set, s)
    PROVE  Admitted(set, s)
BY DEF Accepted, Admitted, Loads

\* Groups and rule sets have one meaning.
LEMMA RenderedUnique ==
    ASSUME NEW set \in Known, ValidatePolicySet(set), NEW s \in Settings, Admitted(set, s)
    PROVE  LET r == Rendered(set, s) IN
           /\ Unique(r) /\ Standing(r)
           /\ r.targets = s.global.targets
           /\ (Builtins \cup s.global.targets) \cap GroupNames(r) = {}
           /\ s.global.providers \subseteq r.providers
           /\ \A d \in ToSet(activeDevices(set, s.sameLAN)) :
                /\ ToSet(deviceGroups(d, deviceProfile(set, d))) \subseteq ToSet(r.groups)
                /\ ProvidersOf(set, deviceProfile(set, d)) \subseteq r.providers
<1> DEFINE r == Rendered(set, s)
           compiled == CompilePolicySet(set, s.sameLAN)
<1>1. /\ r.groups = compiled.groups /\ r.targets = s.global.targets
      /\ r.providers = compiled.providers \cup s.global.providers
    BY DEF Rendered, composeSections
<1> HIDE DEF r
<1>2. /\ compiled.groups \in Seq(AnyGroup) /\ Unlike(compiled.groups, NameIn)
      /\ ToSet(compiled.groups) = UNION {ToSet(deviceGroups(d, deviceProfile(set, d))) :
                                           d \in ToSet(activeDevices(set, s.sameLAN))}
    BY CompiledGroups
<1>3. /\ \A q \in compiled.providers : \E id \in RuleSetIds : q = ProviderOf(set, id)
      /\ compiled.providers # {} => ToSet(activeDevices(set, s.sameLAN)) # {}
      /\ \A d \in ToSet(activeDevices(set, s.sameLAN)) :
           ProvidersOf(set, deviceProfile(set, d)) \subseteq compiled.providers
    BY CompiledProviders
<1> HIDE DEF compiled
<1>4. \A g, h \in ToSet(r.groups) : g.name = h.name => g = h
  <2>1. ASSUME NEW g \in ToSet(r.groups), NEW h \in ToSet(r.groups), g.name = h.name PROVE g = h
    <3>1. PICK i \in 1..Len(r.groups) : r.groups[i] = g
        BY <1>1, <1>2 DEF ToSet
    <3>2. PICK j \in 1..Len(r.groups) : r.groups[j] = h
        BY <1>1, <1>2 DEF ToSet
    <3>3. g \in AnyGroup /\ h \in AnyGroup
        BY <1>1, <1>2, SequenceParts
    <3>4. NameIn[g] = g.name /\ NameIn[h] = h.name
        BY <3>3 DEF NameIn
    <3>5. i = j
        BY <1>1, <1>2, <2>1, <3>1, <3>2, <3>4 DEF Unlike
    <3> QED BY <3>1, <3>2, <3>5
  <2> QED BY <2>1
<1>5. GroupNames(r) \subseteq ReservedGroups
  <2>1. ToSet(r.groups) \subseteq AnyGroup
      BY <1>1, <1>2, SequenceParts
  <2> QED BY <2>1 DEF GroupNames, AnyGroup
<1>6. (Builtins \cup s.global.targets) \cap GroupNames(r) = {}
  <2>1. ReservedGroups \cap Builtins = {}
      BY IdentifiersAssumption DEF IdentifiersAssumption
  <2>2. GroupNames(r) \cap r.targets = {}
      BY DEF Admitted, NoNameTwice, r
  <2> QED BY <2>1, <2>2, <1>1, <1>5
<1>7. \A p, q \in r.providers : p.name = q.name => p = q
  <2>1. \A p \in compiled.providers : p.name \in ReservedProviders
      BY <1>3, ProviderNamesApart DEF ProviderOf
  <2>2. \A p, q \in compiled.providers : p.name = q.name => p = q
    <3>1. ASSUME NEW p \in compiled.providers, NEW q \in compiled.providers, p.name = q.name PROVE p = q
      <4>1. PICK i \in RuleSetIds : p = ProviderOf(set, i)
          BY <1>3
      <4>2. PICK j \in RuleSetIds : q = ProviderOf(set, j)
          BY <1>3
      <4>3. RuleSetProviderName(i) = RuleSetProviderName(j)
          BY <3>1, <4>1, <4>2 DEF ProviderOf
      <4> QED BY <4>1, <4>2, <4>3, ProviderNamesApart
    <3> QED BY <3>1
  <2>3. \A p, q \in s.global.providers : p.name = q.name => p = q
      BY SettingsAssumption DEF SettingsAssumption
  <2>4. ASSUME compiled.providers # {}, NEW p \in s.global.providers PROVE p.name \notin ReservedProviders
    <3>1. set # EmptySet
      <4>1. ToSet(activeDevices(set, s.sameLAN)) # {}
          BY <1>3, <2>4
      <4>2. ToSet(activeDevices(EmptySet, s.sameLAN)) = {}
          BY NobodyActive
      <4> QED BY <4>1, <4>2
    <3>2. s.global.imported
        BY <2>4, SettingsAssumption DEF SettingsAssumption
    <3>3. ReservedNamesFree(set # EmptySet, s.global)
        BY DEF Admitted, Passes, validatePolicySections
    <3>4. ~HasPrefix(p.name, "open-surge-ruleset-")
        BY <2>4, <3>1, <3>2, <3>3 DEF ReservedNamesFree
    <3> QED BY <3>4, IdentifiersAssumption DEF IdentifiersAssumption
  <2> QED BY <1>1, <2>1, <2>2, <2>3, <2>4
<1>8. Unique(r) /\ Standing(r)
    BY <1>4, <1>6, <1>7 DEF Unique, Standing
<1>9. \A d \in ToSet(activeDevices(set, s.sameLAN)) :
        /\ ToSet(deviceGroups(d, deviceProfile(set, d))) \subseteq ToSet(r.groups)
        /\ ProvidersOf(set, deviceProfile(set, d)) \subseteq r.providers
    BY <1>1, <1>2, <1>3
<1> QED BY <1>1, <1>6, <1>8, <1>9 DEF r

Actions(p) == {r.action : r \in {x \in ToSet(p.rules) : x.policies = << >>}}

\* The targets OpenSurge writes into rules itself.
Fixed == {"DIRECT", "REJECT"}

LEMMA FixedNative == Fixed \subseteq Native /\ Native \subseteq Builtins
BY PacketsAssumption DEF PacketsAssumption, Fixed

\* The rules of a device name its own groups and providers, and the policies the document names.
LEMMA DeviceResolved ==
    ASSUME NEW set \in Known, ValidatePolicySet(set), NEW sameLAN,
           NEW d \in ToSet(activeDevices(set, sameLAN))
    PROVE  LET p == deviceProfile(set, d)
               Fine(x) == Resolved(x, Fixed \cup Actions(p), ToSet(deviceGroups(d, p)), ProvidersOf(set, p))
           IN  /\ \A x \in ToSet(Overrides(d, p)) : Fine(x)
               /\ HasDefault(d) => \A x \in ToSet(defaultLines(d, p)) : Fine(x)
               /\ Fine(LocalLine(d))
<1> DEFINE p == deviceProfile(set, d)
           names == Fixed \cup Actions(p)
           groups == ToSet(deviceGroups(d, p))
           provided == ProvidersOf(set, p)
<1>1. d \in ManagedDevice /\ d.id \in DeviceIds /\ ProfileOK(set, p)
    BY ActiveParts
<1>2. groups = {GroupOfRule(d, r) : r \in Choosing(p)}
               \cup (IF HasDefault(d) THEN {Group(d, "default", p.default_policies)} ELSE {})
    BY <1>1, GroupsOfDevice
<1> HIDE DEF p
<1>3. "REJECT" \in names /\ "DIRECT" \in names
    BY DEF Fixed
<1>4. Source(d.ipv4)[1] # "rule_sets" /\ Local[1] # "rule_sets"
    BY DEF Source, Local
<1>5. ASSUME NEW rule \in ToSet(p.rules) PROVE TargetOf(d, rule) \in names \/ \E g \in groups : TargetOf(d, rule) = g.name
  <2>1. CASE rule.policies = << >>
      BY <2>1 DEF TargetOf, Actions
  <2>2. CASE rule.policies # << >>
    <3>1. GroupOfRule(d, rule) \in groups
        BY <2>2, <1>2 DEF Choosing
    <3>2. TargetOf(d, rule) = GroupOfRule(d, rule).name
        BY <2>2 DEF TargetOf, GroupOfRule, Group
    <3> QED BY <3>1, <3>2
  <2> QED BY <2>1, <2>2
<1>6. ASSUME NEW rule \in ToSet(p.rules), NEW c, Stated(rule.match, c), c[1] = "rule_sets"
      PROVE  \E q \in provided : q.name = c[2]
  <2>0. PICK dim \in ToSet(Dimensions) : \E value \in ToSet(rule.match[dim]) : c = Condition(dim, value)
      BY <1>6 DEF Stated
  <2>1. PICK value \in ToSet(rule.match[dim]) : c = Condition(dim, value)
      BY <2>0
  <2>2. dim = "rule_sets" /\ c[2] = RuleSetProviderName(value)
      BY <2>1, <1>6 DEF Condition
  <2>3. value \in Referenced(p)
      BY <2>1, <2>2 DEF Referenced
  <2>4. ProviderOf(set, value) \in provided /\ ProviderOf(set, value).name = c[2]
      BY <2>2, <2>3 DEF ProvidersOf, ProviderOf
  <2> QED BY <2>4
<1>7. ASSUME NEW x \in ToSet(Overrides(d, p)) PROVE Resolved(x, names, groups, provided)
  <2>1. PICK rule \in ToSet(p.rules) : /\ x.to \in {TargetOf(d, rule), "REJECT"}
                                       /\ \A c \in x.when : c = Source(d.ipv4) \/ Stated(rule.match, c)
      BY <1>1, OverridesShape
  <2>2. x.to \in names \/ \E g \in groups : x.to = g.name
      BY <2>1, <1>3, <1>5
  <2>3. \A c \in x.when : c[1] = "rule_sets" => \E q \in provided : q.name = c[2]
      BY <2>1, <1>4, <1>6
  <2> QED BY <2>2, <2>3 DEF Resolved
<1>8. ASSUME HasDefault(d), NEW x \in ToSet(defaultLines(d, p)) PROVE Resolved(x, names, groups, provided)
  <2>1. x.when = {Source(d.ipv4)} /\ x.to \in {DeviceGroupName(d.id, "default"), "REJECT"}
      BY <1>1, DefaultsShape
  <2>2. /\ Group(d, "default", p.default_policies) \in groups
        /\ Group(d, "default", p.default_policies).name = DeviceGroupName(d.id, "default")
      BY <1>2, <1>8 DEF Group
  <2>3. x.to \in names \/ \E g \in groups : x.to = g.name
      BY <2>1, <2>2, <1>3
  <2> QED BY <2>1, <2>3, <1>4 DEF Resolved
<1>9. Resolved(LocalLine(d), names, groups, provided)
    BY <1>3, <1>4 DEF Resolved, LocalLine
<1> QED BY <1>7, <1>8, <1>9 DEF p

\* The targets of a compiled document are all the policies a device may use.
LEMMA TargetsCover ==
    ASSUME NEW set, NEW sameLAN, NEW names, CompilePolicySet(set, sameLAN).targets \subseteq names,
           NEW d \in ToSet(activeDevices(set, sameLAN))
    PROVE  /\ Actions(deviceProfile(set, d)) \subseteq names
           /\ \A g \in ToSet(deviceGroups(d, deviceProfile(set, d))) : ToSet(g.policies) \subseteq names
<1> DEFINE active == activeDevices(set, sameLAN)
           built == [i \in DOMAIN active |-> compileDevice(set, active[i])]
           cd == compileDevice(set, d)
           named == {ToSet(g.policies) : g \in UNION {ToSet(e.groups) : e \in ToSet(built)}}
                    \cup {e.actions : e \in ToSet(built)}
<1>1. CompilePolicySet(set, sameLAN).targets = UNION named
    BY DEF CompilePolicySet
<1>2. UNION named \subseteq names
    BY <1>1
<1>3. cd \in ToSet(built)
    BY DEF ToSet
<1>4. cd.actions = Actions(deviceProfile(set, d)) /\ cd.groups = deviceGroups(d, deviceProfile(set, d))
    BY CompiledFields DEF Actions
<1> HIDE DEF cd, built
<1>5. cd.actions \in named /\ \A g \in ToSet(cd.groups) : ToSet(g.policies) \in named
    BY <1>3
<1> HIDE DEF named
<1> QED BY <1>2, <1>4, <1>5

\* validatePolicySections looks every one of them up.
LEMMA SectionsCover ==
    ASSUME NEW set, NEW s, Admitted(set, s), NEW d \in ToSet(activeDevices(set, s.sameLAN))
    PROVE  /\ Fixed \cup Actions(deviceProfile(set, d)) \subseteq Builtins \cup s.global.targets
           /\ \A g \in ToSet(deviceGroups(d, deviceProfile(set, d))) :
                ToSet(g.policies) \subseteq Builtins \cup s.global.targets
<1> DEFINE names == Builtins \cup s.global.targets
<1>1. CompilePolicySet(set, s.sameLAN).targets \subseteq names
    BY DEF Admitted, Passes, validatePolicySections
<1>2. Fixed \subseteq names
    BY FixedNative
<1> HIDE DEF names
<1>3. /\ Actions(deviceProfile(set, d)) \subseteq names
      /\ \A g \in ToSet(deviceGroups(d, deviceProfile(set, d))) : ToSet(g.policies) \subseteq names
    BY <1>1, TargetsCover
<1> QED BY <1>2, <1>3 DEF names

\* mihomo resolves the names of a compiled device as the document means them.
LEMMA Hosting ==
    ASSUME NEW set \in Known, ValidatePolicySet(set), NEW s \in Settings, Admitted(set, s),
           NEW d \in ToSet(activeDevices(set, s.sameLAN)), NEW memory
    PROVE  Hosts(Rendered(set, s), memory, set, d, deviceProfile(set, d))
<1> DEFINE r == Rendered(set, s)
           p == deviceProfile(set, d)
<1>1. /\ Unique(r) /\ Standing(r)
      /\ (Builtins \cup s.global.targets) \cap GroupNames(r) = {}
      /\ ToSet(deviceGroups(d, p)) \subseteq ToSet(r.groups)
      /\ ProvidersOf(set, p) \subseteq r.providers
    BY RenderedUnique
<1>2. d \in ManagedDevice /\ d.id \in DeviceIds /\ ProfileOK(set, p)
    BY ActiveParts
<1>3. ToSet(deviceGroups(d, p)) = {GroupOfRule(d, rule) : rule \in Choosing(p)}
               \cup (IF HasDefault(d) THEN {Group(d, "default", p.default_policies)} ELSE {})
    BY <1>2, GroupsOfDevice
<1>4. Actions(p) \subseteq Builtins \cup s.global.targets
    BY SectionsCover
<1> HIDE DEF r, p
<1>5. ASSUME NEW slot, NEW policies, Group(d, slot, policies) \in ToSet(r.groups)
      PROVE  Picked(r, memory, DeviceGroupName(d.id, slot)) = Offered(memory, d.id, slot, policies)
  <2> DEFINE g == Group(d, slot, policies)
  <2>1. g.name = DeviceGroupName(d.id, slot) /\ g.policies = policies
      BY DEF Group
  <2> HIDE DEF g
  <2>2. Picked(r, memory, g.name) = Choice(memory, g)
      BY <1>1, <1>5, GroupStandsFor DEF g
  <2>3. Choice(memory, g) = Offered(memory, d.id, slot, policies)
      BY <2>1 DEF Choice, Offered, DeviceGroupName
  <2> QED BY <2>1, <2>2, <2>3
<1>6. ASSUME NEW rule \in ToSet(p.rules) PROVE Picked(r, memory, TargetOf(d, rule)) = Stands(memory, d, rule)
  <2>1. CASE rule.policies = << >>
    <3>1. TargetOf(d, rule) = rule.action /\ Stands(memory, d, rule) = rule.action
        BY <2>1 DEF TargetOf, Stands
    <3>2. rule.action \in Builtins \cup s.global.targets
        BY <2>1, <1>4 DEF Actions
    <3>3. rule.action \notin GroupNames(r)
        BY <3>2, <1>1
    <3> QED BY <3>1, <3>3, OtherNamesStand
  <2>2. CASE rule.policies # << >>
    <3>1. /\ TargetOf(d, rule) = DeviceGroupName(d.id, rule.id)
          /\ Stands(memory, d, rule) = Offered(memory, d.id, rule.id, rule.policies)
        BY <2>2 DEF TargetOf, Stands
    <3>2. Group(d, rule.id, rule.policies) \in ToSet(r.groups)
        BY <2>2, <1>1, <1>3 DEF Choosing, GroupOfRule
    <3> QED BY <3>1, <3>2, <1>5
  <2> QED BY <2>1, <2>2
<1>7. ASSUME NEW rule \in ToSet(p.rules), NEW id \in ToSet(rule.match["rule_sets"]) PROVE Serves(r, set, id)
  <2>1. ProviderOf(set, id) \in r.providers /\ ProviderOf(set, id).name = RuleSetProviderName(id)
      BY <1>1 DEF ProvidersOf, ProviderOf, Referenced
  <2>2. \A q \in r.providers : q.name = RuleSetProviderName(id) => q = ProviderOf(set, id)
      BY <1>1, <2>1 DEF Unique
  <2> QED BY <2>1, <2>2 DEF Serves, ProviderOf
<1>8. HasDefault(d) => Picked(r, memory, DeviceGroupName(d.id, "default"))
                         = Offered(memory, d.id, "default", p.default_policies)
    BY <1>1, <1>3, <1>5
<1>9. Hosts(r, memory, set, d, p)
    BY <1>1, <1>6, <1>7, <1>8 DEF Hosts
<1> QED BY <1>9 DEF r, p

-----------------------------------------------------------------------------
(* The rules mihomo is given, for one source *)

\* Of blocks of rules, one for each device, a packet meets only those of its sender.
LEMMA BlocksLead ==
    ASSUME NEW set \in Known, ValidatePolicySet(set), NEW sameLAN, NEW r, NEW memory, NEW facts \in Facts,
           NEW src, NEW otherwise, NEW ss \in Seq(Seq(AnyLine)),
           Len(ss) = Len(activeDevices(set, sameLAN)),
           \A k \in 1..Len(ss) : \A x \in ToSet(ss[k]) : Source(activeDevices(set, sameLAN)[k].ipv4) \in x.when
    PROVE  /\ \A k \in 1..Len(ss) : activeDevices(set, sameLAN)[k].ipv4 = src =>
                Leads(r, memory, FlattenSeq(ss), src, facts, otherwise)
                  = Leads(r, memory, ss[k], src, facts, otherwise)
           /\ (\A k \in 1..Len(ss) : activeDevices(set, sameLAN)[k].ipv4 # src) =>
                Leads(r, memory, FlattenSeq(ss), src, facts, otherwise) = otherwise
<1> DEFINE active == activeDevices(set, sameLAN)
<1>1. /\ active \in Seq(ManagedDevice) /\ Unlike(active, AddressIn)
      /\ \A k \in 1..Len(active) : active[k] \in ManagedDevice
    BY ActiveDevices
<1>2. /\ Len(ss) = Len(active)
      /\ \A k \in 1..Len(ss) : ss[k] \in Seq(AnyLine) /\ \A x \in ToSet(ss[k]) : Source(active[k].ipv4) \in x.when
    OBVIOUS
<1> HIDE DEF active
<1>3. ASSUME NEW j \in 1..Len(ss), active[j].ipv4 # src
      PROVE  Avoids(ss[j], Takers(r, memory, src, facts))
    BY <1>2, <1>3, ElsewhereEvades DEF Evades
<1>4. ASSUME NEW k \in 1..Len(ss), active[k].ipv4 = src
      PROVE  Leads(r, memory, FlattenSeq(ss), src, facts, otherwise)
               = Leads(r, memory, ss[k], src, facts, otherwise)
  <2>1. \A j \in 1..Len(ss) : j # k => active[j].ipv4 # src
      BY <1>1, <1>2, <1>4 DEF Unlike, AddressIn
  <2>2. \A j \in 1..Len(ss) : j # k => Avoids(ss[j], Takers(r, memory, src, facts))
      BY <2>1, <1>3
  <2>3. \A j \in (1..Len(ss)) \ {k} : Avoids(ss[j], Takers(r, memory, src, facts))
      BY <2>2
  <2>4. ss \in Seq(Seq(AnyLine)) /\ k \in 1..Len(ss)
      BY <1>4
  <2> QED BY ONLY <2>3, <2>4, LeadsOne
<1>5. ASSUME \A k \in 1..Len(ss) : active[k].ipv4 # src
      PROVE  Leads(r, memory, FlattenSeq(ss), src, facts, otherwise) = otherwise
  <2>1. \A j \in 1..Len(ss) : Avoids(ss[j], Takers(r, memory, src, facts))
      BY <1>3, <1>5
  <2> QED BY <2>1, LeadsNone
<1> QED BY <1>4, <1>5 DEF active

\* The blocks of rules a compiled device has: in front of the global rules three, between
\* them and the MATCH at their end one.
EndedBy(cd, mode) == IF cd.mode = mode THEN cd.defaults ELSE << >>
Block(cd, kind) ==
    IF kind = "local" THEN IF cd.mode = "dedicated" THEN << LocalLine(cd) >> ELSE << >>
    ELSE IF kind = "overrides" THEN cd.overrides
    ELSE EndedBy(cd, kind)
Kinds == {"local", "overrides", "dedicated", "legacy_fallback"}

Blocks(set, sameLAN, kind) ==
    [k \in DOMAIN activeDevices(set, sameLAN) |-> Block(compileDevice(set, activeDevices(set, sameLAN)[k]), kind)]

LEMMA BlockShape ==
    ASSUME NEW set \in Known, ValidatePolicySet(set), NEW sameLAN,
           NEW d \in ToSet(activeDevices(set, sameLAN)), NEW kind \in Kinds
    PROVE  LET block == Block(compileDevice(set, d), kind) IN
           /\ block \in Seq(AnyLine)
           /\ \A x \in ToSet(block) :
                /\ Source(d.ipv4) \in x.when
                /\ Resolved(x, Fixed \cup Actions(deviceProfile(set, d)),
                            ToSet(deviceGroups(d, deviceProfile(set, d))), ProvidersOf(set, deviceProfile(set, d)))
<1> DEFINE p == deviceProfile(set, d)
           cd == compileDevice(set, d)
           Fine(x) == Resolved(x, Fixed \cup Actions(p), ToSet(deviceGroups(d, p)), ProvidersOf(set, p))
           Good(lines) == lines \in Seq(AnyLine) /\ \A x \in ToSet(lines) : Source(d.ipv4) \in x.when /\ Fine(x)
<1>1. d \in ManagedDevice /\ d.id \in DeviceIds /\ ProfileOK(set, p)
    BY ActiveParts
<1>2. /\ \A x \in ToSet(Overrides(d, p)) : Fine(x)
      /\ HasDefault(d) => \A x \in ToSet(defaultLines(d, p)) : Fine(x)
      /\ Fine(LocalLine(d))
    BY DeviceResolved
<1>3. /\ cd.ipv4 = d.ipv4 /\ cd.mode = EffectiveEgressMode(d.egress_mode)
      /\ cd.overrides = Overrides(d, p) /\ cd.defaults = defaultLines(d, p)
    BY CompiledFields
<1> HIDE DEF p, cd, Fine
<1>4. Good(<< >>)
    BY DEF ToSet
<1>5. Good(Overrides(d, p))
    BY <1>1, <1>2, OverridesShape
<1>6. HasDefault(d) => Good(defaultLines(d, p))
  <2>1. \A x \in ToSet(defaultLines(d, p)) : Source(d.ipv4) \in x.when
      BY <1>1, DefaultsShape
  <2>2. defaultLines(d, p) \in Seq(AnyLine)
      BY <1>1, DefaultsShape
  <2> QED BY <1>2, <2>1, <2>2
<1>7. Good(<< LocalLine(cd) >>)
  <2>1. LocalLine(cd) = LocalLine(d)
      BY <1>3 DEF LocalLine
  <2>2. LocalLine(d) \in AnyLine
    <3>1. Source(d.ipv4) \in AnyCondition /\ Local \in AnyCondition
        BY <1>1, DimensionSet DEF Source, Local, AnyCondition, ManagedDevice
    <3>2. "DIRECT" \in AnyTarget
        BY BuiltinNames DEF AnyTarget
    <3> QED BY <3>1, <3>2 DEF LocalLine, AnyLine
  <2>3. Source(d.ipv4) \in LocalLine(d).when
      BY DEF LocalLine
  <2> DEFINE l == LocalLine(d)
  <2>4. l \in AnyLine /\ Source(d.ipv4) \in l.when /\ Fine(l)
      BY <1>2, <2>2, <2>3
  <2> HIDE DEF l
  <2>5. Good(<<l>>)
      BY <2>4 DEF ToSet
  <2> QED BY <2>1, <2>5 DEF l
<1> HIDE DEF Good
<1>8. Good(Block(cd, kind))
  <2>1. CASE kind = "local"
      BY <2>1, <1>4, <1>7 DEF Block
  <2>2. CASE kind = "overrides"
      BY <2>2, <1>3, <1>5 DEF Block
  <2>3. CASE kind \in {"dedicated", "legacy_fallback"}
    <3>1. Block(cd, kind) = IF cd.mode = kind THEN cd.defaults ELSE << >>
        BY <2>3 DEF Block, EndedBy
    <3>2. cd.mode = kind => HasDefault(d)
        BY <2>3, <1>3 DEF HasDefault
    <3> QED BY <3>1, <3>2, <1>3, <1>4, <1>6
  <2> QED BY <2>1, <2>2, <2>3 DEF Kinds
<1> QED BY <1>8 DEF Good, cd, p, Fine

LEMMA BlocksShape ==
    ASSUME NEW set \in Known, ValidatePolicySet(set), NEW sameLAN, NEW kind \in Kinds
    PROVE  LET ss     == Blocks(set, sameLAN, kind)
               active == activeDevices(set, sameLAN)
           IN  /\ ss \in Seq(Seq(AnyLine)) /\ Len(ss) = Len(active)
               /\ \A k \in 1..Len(ss) : /\ ss[k] = Block(compileDevice(set, active[k]), kind)
                                        /\ active[k] \in ToSet(active)
                                        /\ \A x \in ToSet(ss[k]) : Source(active[k].ipv4) \in x.when
<1> DEFINE active == activeDevices(set, sameLAN)
           ss == Blocks(set, sameLAN, kind)
<1>1. /\ active \in Seq(ManagedDevice) /\ DOMAIN active = 1..Len(active) /\ Len(active) \in Nat
      /\ \A k \in 1..Len(active) : active[k] \in ToSet(active)
    BY ActiveDevices DEF ToSet
<1>2. \A d \in ToSet(active) :
        LET block == Block(compileDevice(set, d), kind) IN
        block \in Seq(AnyLine) /\ \A x \in ToSet(block) : Source(d.ipv4) \in x.when
    BY BlockShape
<1>3. ss = [k \in 1..Len(active) |-> Block(compileDevice(set, active[k]), kind)]
    BY <1>1 DEF Blocks
<1> HIDE DEF active, ss
<1>4. ss \in Seq(Seq(AnyLine)) /\ Len(ss) = Len(active)
    BY <1>1, <1>2, <1>3
<1> QED BY <1>1, <1>2, <1>3, <1>4 DEF active, ss

LEMMA CompiledBlocks ==
    ASSUME NEW set, NEW sameLAN
    PROVE  LET compiled == CompilePolicySet(set, sameLAN) IN
           /\ LocalLines(compiled) = FlattenSeq(Blocks(set, sameLAN, "local"))
           /\ compiled.overrides   = FlattenSeq(Blocks(set, sameLAN, "overrides"))
           /\ compiled.dedicated   = FlattenSeq(Blocks(set, sameLAN, "dedicated"))
           /\ compiled.defaults    = FlattenSeq(Blocks(set, sameLAN, "legacy_fallback"))
<1> DEFINE active == activeDevices(set, sameLAN)
           built == [i \in DOMAIN active |-> compileDevice(set, active[i])]
           compiled == CompilePolicySet(set, sameLAN)
<1>1. /\ compiled.devices = built
      /\ compiled.overrides = FlattenSeq([i \in DOMAIN built |-> built[i].overrides])
      /\ compiled.dedicated
           = FlattenSeq([i \in DOMAIN built |-> IF built[i].mode = "dedicated" THEN built[i].defaults ELSE << >>])
      /\ compiled.defaults
           = FlattenSeq([i \in DOMAIN built |-> IF built[i].mode = "legacy_fallback" THEN built[i].defaults ELSE << >>])
    BY DEF CompilePolicySet, Ended, Concat
<1> HIDE DEF compiled
<1>2. LocalLines(compiled)
        = FlattenSeq([i \in DOMAIN built |-> IF built[i].mode = "dedicated" THEN << LocalLine(built[i]) >> ELSE << >>])
    BY <1>1 DEF LocalLines, Concat
<1>3. [i \in DOMAIN built |-> IF built[i].mode = "dedicated" THEN << LocalLine(built[i]) >> ELSE << >>]
        = Blocks(set, sameLAN, "local")
    BY DEF Blocks, Block
<1>4. [i \in DOMAIN built |-> built[i].overrides] = Blocks(set, sameLAN, "overrides")
    BY DEF Blocks, Block
<1>5. [i \in DOMAIN built |-> IF built[i].mode = "dedicated" THEN built[i].defaults ELSE << >>]
        = Blocks(set, sameLAN, "dedicated")
    BY DEF Blocks, Block, EndedBy
<1>6. [i \in DOMAIN built |-> IF built[i].mode = "legacy_fallback" THEN built[i].defaults ELSE << >>]
        = Blocks(set, sameLAN, "legacy_fallback")
    BY DEF Blocks, Block, EndedBy
<1> QED BY <1>1, <1>2, <1>3, <1>4, <1>5, <1>6 DEF compiled

\* The rules of one device and the global ones, in the order in which they are asked.
Asked(r, memory, cd, global, src, facts) ==
    Leads(r, memory, Block(cd, "local"), src, facts,
    Leads(r, memory, Block(cd, "overrides"), src, facts,
    Leads(r, memory, Block(cd, "dedicated"), src, facts,
    Leads(r, memory, global.before, src, facts,
    Leads(r, memory, Block(cd, "legacy_fallback"), src, facts,
    Leads(r, memory, global.terminal, src, facts, "DIRECT"))))))

AskedGlobal(r, memory, global, src, facts) ==
    Leads(r, memory, global.before, src, facts, Leads(r, memory, global.terminal, src, facts, "DIRECT"))

LEMMA RouteUnfolds ==
    ASSUME NEW set \in Known, ValidatePolicySet(set), NEW s \in Settings, NEW r, r = Rendered(set, s),
           NEW memory, NEW src, NEW facts
    PROVE  Route(r, memory, src, facts)
             = Leads(r, memory, FlattenSeq(Blocks(set, s.sameLAN, "local")), src, facts,
               Leads(r, memory, FlattenSeq(Blocks(set, s.sameLAN, "overrides")), src, facts,
               Leads(r, memory, FlattenSeq(Blocks(set, s.sameLAN, "dedicated")), src, facts,
               Leads(r, memory, s.global.before, src, facts,
               Leads(r, memory, FlattenSeq(Blocks(set, s.sameLAN, "legacy_fallback")), src, facts,
               Leads(r, memory, s.global.terminal, src, facts, "DIRECT"))))))
<1> DEFINE a == FlattenSeq(Blocks(set, s.sameLAN, "local"))
           b == FlattenSeq(Blocks(set, s.sameLAN, "overrides"))
           c == FlattenSeq(Blocks(set, s.sameLAN, "dedicated"))
           e == s.global.before
           f == FlattenSeq(Blocks(set, s.sameLAN, "legacy_fallback"))
           t == s.global.terminal
           Lead(lines, otherwise) == Leads(r, memory, lines, src, facts, otherwise)
<1>1. r.rules = ((((a \o b) \o c) \o e) \o f) \o t
    BY CompiledBlocks DEF Rendered, composeSections, orderedDevicePreRules
<1>2. /\ a \in Seq(AnyLine) /\ b \in Seq(AnyLine) /\ c \in Seq(AnyLine) /\ f \in Seq(AnyLine)
      /\ e \in Seq(AnyLine) /\ t \in Seq(AnyLine)
  <2>1. \A kind \in Kinds : FlattenSeq(Blocks(set, s.sameLAN, kind)) \in Seq(AnyLine)
      BY BlocksShape, FlattenStep
  <2> QED BY <2>1, SettingParts DEF Kinds
<1>3. \A x, y \in Seq(AnyLine) : x \o y \in Seq(AnyLine)
    OBVIOUS
<1>4. \A x, y \in Seq(AnyLine) : \A otherwise : Lead(x \o y, otherwise) = Lead(x, Lead(y, otherwise))
    BY LeadsThrough
<1>5. Route(r, memory, src, facts) = Lead(r.rules, "DIRECT")
    BY DEF Route
<1> HIDE DEF a, b, c, e, f, t, Lead
<1> DEFINE ab == a \o b
           abc == ab \o c
           abce == abc \o e
           abcef == abce \o f
<1>6. ab \in Seq(AnyLine)
    BY <1>2, <1>3
<1>7. \A w : Lead(ab, w) = Lead(a, Lead(b, w))
    BY <1>2, <1>4
<1> HIDE DEF ab
<1>8. abc \in Seq(AnyLine) /\ \A w : Lead(abc, w) = Lead(ab, Lead(c, w))
    BY <1>2, <1>3, <1>4, <1>6
<1> HIDE DEF abc
<1>9. abce \in Seq(AnyLine) /\ \A w : Lead(abce, w) = Lead(abc, Lead(e, w))
    BY <1>2, <1>3, <1>4, <1>8
<1> HIDE DEF abce
<1>10. abcef \in Seq(AnyLine) /\ \A w : Lead(abcef, w) = Lead(abce, Lead(f, w))
    BY <1>2, <1>3, <1>4, <1>9
<1> HIDE DEF abcef
<1>11. Lead(abcef \o t, "DIRECT") = Lead(abcef, Lead(t, "DIRECT"))
    BY <1>2, <1>4, <1>10
<1>12. r.rules = abcef \o t
    BY <1>1 DEF abcef, abce, abc, ab
<1>13. Route(r, memory, src, facts) = Lead(a, Lead(b, Lead(c, Lead(e, Lead(f, Lead(t, "DIRECT"))))))
    BY <1>5, <1>7, <1>8, <1>9, <1>10, <1>11, <1>12
<1> QED BY <1>13 DEF Lead, a, b, c, e, f, t

\* Of the blocks of one kind only that of the device with the address matters to a packet.
LEMMA KindLeads ==
    ASSUME NEW set \in Known, ValidatePolicySet(set), NEW sameLAN, NEW kind \in Kinds,
           NEW r, NEW memory, NEW facts \in Facts, NEW src, NEW otherwise
    PROVE  /\ \A d \in ToSet(activeDevices(set, sameLAN)) : d.ipv4 = src =>
                Leads(r, memory, FlattenSeq(Blocks(set, sameLAN, kind)), src, facts, otherwise)
                  = Leads(r, memory, Block(compileDevice(set, d), kind), src, facts, otherwise)
           /\ (\A d \in ToSet(activeDevices(set, sameLAN)) : d.ipv4 # src) =>
                Leads(r, memory, FlattenSeq(Blocks(set, sameLAN, kind)), src, facts, otherwise) = otherwise
<1> DEFINE ss == Blocks(set, sameLAN, kind)
           active == activeDevices(set, sameLAN)
           Lead(lines) == Leads(r, memory, lines, src, facts, otherwise)
<1>1. /\ ss \in Seq(Seq(AnyLine)) /\ Len(ss) = Len(active)
      /\ \A k \in 1..Len(ss) : /\ ss[k] = Block(compileDevice(set, active[k]), kind)
                               /\ active[k] \in ToSet(active)
                               /\ \A x \in ToSet(ss[k]) : Source(active[k].ipv4) \in x.when
    BY BlocksShape
<1>2. \A d \in ToSet(active) : \E k \in 1..Len(active) : active[k] = d
    BY ActiveDevices DEF ToSet
<1> HIDE DEF ss
<1>3. \A k \in 1..Len(ss) : \A x \in ToSet(ss[k]) : Source(active[k].ipv4) \in x.when
    BY <1>1
<1>4. /\ \A k \in 1..Len(ss) : active[k].ipv4 = src => Lead(FlattenSeq(ss)) = Lead(ss[k])
      /\ (\A k \in 1..Len(ss) : active[k].ipv4 # src) => Lead(FlattenSeq(ss)) = otherwise
  <2>1. ss \in Seq(Seq(AnyLine)) /\ Len(ss) = Len(activeDevices(set, sameLAN))
      BY <1>1
  <2>2. \A k \in 1..Len(ss) : \A x \in ToSet(ss[k]) :
          Source(activeDevices(set, sameLAN)[k].ipv4) \in x.when
      BY <1>3
  <2> QED BY <2>1, <2>2, BlocksLead
<1> HIDE DEF Lead, active
<1>5. ASSUME NEW d \in ToSet(active), d.ipv4 = src
      PROVE  Lead(FlattenSeq(ss)) = Lead(Block(compileDevice(set, d), kind))
  <2>1. PICK k \in 1..Len(active) : active[k] = d
      BY <1>2
  <2> QED BY <1>1, <1>4, <1>5, <2>1
<1>6. ASSUME \A d \in ToSet(active) : d.ipv4 # src
      PROVE  Lead(FlattenSeq(ss)) = otherwise
    BY <1>1, <1>4, <1>6
<1> QED BY <1>5, <1>6 DEF Lead, active, ss

\* A device's packets are asked about by its own rules and the global ones only.
LEMMA DeviceRoute ==
    ASSUME NEW set \in Known, ValidatePolicySet(set), NEW s \in Settings, NEW r, r = Rendered(set, s),
           NEW memory, NEW facts \in Facts, NEW d \in ToSet(activeDevices(set, s.sameLAN))
    PROVE  Route(r, memory, d.ipv4, facts) = Asked(r, memory, compileDevice(set, d), s.global, d.ipv4, facts)
<1>1. \A kind \in Kinds : \A otherwise :
        Leads(r, memory, FlattenSeq(Blocks(set, s.sameLAN, kind)), d.ipv4, facts, otherwise)
          = Leads(r, memory, Block(compileDevice(set, d), kind), d.ipv4, facts, otherwise)
    BY KindLeads
<1>2. {"local", "overrides", "dedicated", "legacy_fallback"} = Kinds
    BY DEF Kinds
<1> QED BY <1>1, <1>2, RouteUnfolds DEF Asked

\* A stranger's packets are asked about by the global rules only.
LEMMA StrangerRoute ==
    ASSUME NEW set \in Known, ValidatePolicySet(set), NEW s \in Settings, NEW r, r = Rendered(set, s),
           NEW memory, NEW facts \in Facts, NEW src,
           \A d \in ToSet(activeDevices(set, s.sameLAN)) : d.ipv4 # src
    PROVE  Route(r, memory, src, facts) = AskedGlobal(r, memory, s.global, src, facts)
<1>1. \A kind \in Kinds : \A otherwise :
        Leads(r, memory, FlattenSeq(Blocks(set, s.sameLAN, kind)), src, facts, otherwise) = otherwise
    BY KindLeads
<1>2. {"local", "overrides", "dedicated", "legacy_fallback"} = Kinds
    BY DEF Kinds
<1> QED BY <1>1, <1>2, RouteUnfolds DEF AskedGlobal

-----------------------------------------------------------------------------
(* Routes as the document declares them *)

\* No rules send a packet nowhere.
LEMMA EmptyLeads ==
    ASSUME NEW r, NEW memory, NEW src, NEW facts, NEW otherwise
    PROVE  Leads(r, memory, << >>, src, facts, otherwise) = otherwise
<1>1. << >> \in Seq(AnyLine) /\ Len(<< >>) = 0
    OBVIOUS
<1>2. Avoids(<< >>, Takers(r, memory, src, facts))
    BY <1>1 DEF Avoids
<1> QED BY <1>1, <1>2, LeadsFirst

LEMMA OneAtMost ==
    ASSUME NEW n \in Nat, n <= 1 PROVE n = 0 \/ n = 1
OBVIOUS

\* The MATCH at the end of the global rules does what Ending says.
LEMMA TerminalLeads ==
    ASSUME NEW s \in Settings, NEW r, (Builtins \cup s.global.targets) \cap GroupNames(r) = {},
           NEW memory, NEW src, NEW facts
    PROVE  Leads(r, memory, s.global.terminal, src, facts, "DIRECT") = Ending(s.global, facts)
<1> DEFINE t == s.global.terminal
           P == Takers(r, memory, src, facts)
<1>1. /\ t \in Seq(AnyLine) /\ Len(t) \in Nat /\ Len(t) <= 1
      /\ \A i \in 1..Len(t) : t[i].when = {} /\ t[i].to \in Builtins \cup s.global.targets
  <2>1. t \in Seq(AnyLine)
      BY SettingParts
  <2>2. \A x \in ToSet(t) : x.when = {} /\ x.to \in Builtins \cup s.global.targets
      BY FixedNative, SettingsAssumption DEF SettingsAssumption
  <2>3. Len(t) <= 1 /\ Len(t) \in Nat
      BY <2>1, SettingsAssumption DEF SettingsAssumption
  <2>4. \A i \in 1..Len(t) : t[i] \in ToSet(t)
      BY <2>1 DEF ToSet
  <2> HIDE DEF t
  <2> QED BY <2>1, <2>2, <2>3, <2>4
<1>0. Len(t) = 0 \/ Len(t) = 1
  <2>1. Len(t) \in Nat /\ Len(t) <= 1
      BY <1>1
  <2> QED BY <2>1, OneAtMost
<1>2. Ending(s.global, facts) = IF t # << >> /\ Carries(t[1].to, facts) THEN t[1].to ELSE "DIRECT"
    BY DEF Ending
<1>3. /\ Avoids(t, P) => Leads(r, memory, t, src, facts, "DIRECT") = "DIRECT"
      /\ \A x : IsFirst(t, P, x) => Leads(r, memory, t, src, facts, "DIRECT") = Picked(r, memory, x.to)
    BY <1>1, LeadsFirst
<1> HIDE DEF t
<1>4. CASE t = << >>
  <2>1. Avoids(t, P)
      BY <1>4 DEF Avoids
  <2> QED BY <2>1, <1>2, <1>3, <1>4 DEF t
<1>5. CASE t # << >>
  <2> DEFINE x == t[1]
  <2>1. Len(t) = 1
    <3>1. Len(t) # 0
        BY <1>1, <1>5, EmptySeq
    <3> QED BY <1>0, <3>1
  <2>2. x \in AnyLine /\ x.when = {} /\ x.to \in Builtins \cup s.global.targets
      BY <1>1, <2>1
  <2>3. Picked(r, memory, x.to) = x.to
    <3>1. x.to \notin GroupNames(r)
        BY <2>2
    <3> QED BY <3>1, OtherNamesStand
  <2>4. x \in P <=> Carries(x.to, facts)
      BY <2>2, <2>3 DEF Takers, Takes
  <2>5. CASE Carries(x.to, facts)
    <3>1. IsFirst(t, P, x)
        BY <2>1, <2>4, <2>5 DEF IsFirst
    <3> QED BY <3>1, <2>3, <2>5, <1>2, <1>3, <1>5 DEF t
  <2>6. CASE ~Carries(x.to, facts)
    <3>1. Avoids(t, P)
        BY <2>1, <2>4, <2>6 DEF Avoids
    <3> QED BY <3>1, <2>6, <1>2, <1>3, <1>5 DEF t
  <2> QED BY <2>5, <2>6
<1> QED BY <1>4, <1>5

\* A packet nobody is responsible for follows the global rules.
LEMMA StrangerDeclared ==
    ASSUME NEW set \in Known, ValidatePolicySet(set), NEW s \in Settings, Admitted(set, s),
           NEW memory, NEW facts \in Facts, NEW src,
           \A d \in ToSet(activeDevices(set, s.sameLAN)) : d.ipv4 # src
    PROVE  Route(Rendered(set, s), memory, src, facts)
             = Declared(Rendered(set, s), set, s, memory, src, facts)
<1> DEFINE r == Rendered(set, s)
           owners == {d \in ToSet(set.devices) : d.ipv4 = src /\ (s.sameLAN \/ d.mac # "")}
<1>1. owners = {}
  <2>1. ToSet(activeDevices(set, s.sameLAN)) = ToSet(set.devices) \cap MayServe(s.sameLAN)
      BY ActiveDevices
  <2>2. \A d \in ToSet(set.devices) : d \in ManagedDevice
      BY DocumentParts
  <2> QED BY <2>1, <2>2 DEF MayServe
<1>2. (Builtins \cup s.global.targets) \cap GroupNames(r) = {}
    BY RenderedUnique
<1>3. Route(r, memory, src, facts) = AskedGlobal(r, memory, s.global, src, facts)
    BY StrangerRoute
<1> HIDE DEF r
<1>4. Leads(r, memory, s.global.terminal, src, facts, "DIRECT") = Ending(s.global, facts)
    BY <1>2, TerminalLeads
<1>5. Declared(r, set, s, memory, src, facts)
        = Leads(r, memory, s.global.before, src, facts, Ending(s.global, facts))
    BY <1>1 DEF Declared
<1> QED BY <1>3, <1>4, <1>5 DEF AskedGlobal, r

\* A device's packets go where its mode, its rules and its default policy say.
LEMMA DeviceDeclared ==
    ASSUME NEW set \in Known, ValidatePolicySet(set), NEW s \in Settings, Admitted(set, s),
           NEW memory, NEW facts \in Facts, NEW d \in ToSet(activeDevices(set, s.sameLAN))
    PROVE  Route(Rendered(set, s), memory, d.ipv4, facts)
             = Declared(Rendered(set, s), set, s, memory, d.ipv4, facts)
<1> DEFINE r == Rendered(set, s)
           p == deviceProfile(set, d)
           cd == compileDevice(set, d)
           owners == {e \in ToSet(set.devices) : e.ipv4 = d.ipv4 /\ (s.sameLAN \/ e.mac # "")}
           Lead(lines, w) == Leads(r, memory, lines, d.ipv4, facts, w)
           ByDefault(w) == DefaultOutcome(memory, d, p, facts, w)
           Own(w) == Ruled(set, p, d, memory, facts, w)
           end == Ending(s.global, facts)
           Global(w) == Lead(s.global.before, w)
<1>1. d \in ToSet(set.devices) /\ d \in ManagedDevice /\ d.id \in DeviceIds /\ ProfileOK(set, p)
    BY ActiveParts
<1>2. owners = {d}
  <2>1. \A e \in ToSet(set.devices) : e.ipv4 = d.ipv4 => e = d
      BY <1>1, ActiveDevices
  <2>2. d \in MayServe(s.sameLAN)
      BY ActiveDevices
  <2> QED BY <1>1, <2>1, <2>2 DEF MayServe
<1>3. Declared(r, set, s, memory, d.ipv4, facts)
        = CASE d.egress_mode = "dedicated" ->
                 IF Local \in facts THEN "DIRECT" ELSE Own(ByDefault(Global(end)))
            [] d.egress_mode = "inherit_global" -> Own(Global(end))
            [] OTHER -> Own(Global(ByDefault(end)))
  <2>1. owners # {} /\ (CHOOSE e \in owners : TRUE) = d
      BY <1>2
  <2> QED BY <2>1 DEF Declared, deviceProfile, DefaultOutcome
<1>4. Hosts(r, memory, set, d, p) /\ Standing(r)
    BY Hosting DEF Hosts
<1>5. (Builtins \cup s.global.targets) \cap GroupNames(r) = {}
    BY RenderedUnique
<1>6. Route(r, memory, d.ipv4, facts) = Asked(r, memory, cd, s.global, d.ipv4, facts)
    BY DeviceRoute
<1>7. /\ cd.ipv4 = d.ipv4 /\ cd.mode = EffectiveEgressMode(d.egress_mode)
      /\ cd.overrides = Overrides(d, p) /\ cd.defaults = defaultLines(d, p)
    BY CompiledFields
<1> HIDE DEF r, p, cd, owners
<1>8. \A w : Lead(Overrides(d, p), w) = Own(w)
    BY <1>1, <1>4, OverridesLead
<1>9. HasDefault(d) => \A w : Lead(defaultLines(d, p), w) = ByDefault(w)
    BY <1>1, <1>4, DefaultsLead
<1>10. \A w : Lead(<< LocalLine(d) >>, w) = IF Local \in facts THEN "DIRECT" ELSE w
    BY <1>1, <1>4, LocalLead
<1>11. \A w : Lead(<< >>, w) = w
    BY EmptyLeads
<1>12. Lead(s.global.terminal, "DIRECT") = end
    BY <1>5, TerminalLeads
<1>13. LocalLine(cd) = LocalLine(d)
    BY <1>7 DEF LocalLine
<1>14. Asked(r, memory, cd, s.global, d.ipv4, facts)
         = Lead(Block(cd, "local"), Lead(Block(cd, "overrides"), Lead(Block(cd, "dedicated"),
             Global(Lead(Block(cd, "legacy_fallback"), Lead(s.global.terminal, "DIRECT"))))))
    BY DEF Asked
<1>15. Block(cd, "overrides") = Overrides(d, p)
    BY <1>7 DEF Block
<1> HIDE DEF Lead, ByDefault, Own, end
<1>16. Asked(r, memory, cd, s.global, d.ipv4, facts)
         = Lead(Block(cd, "local"), Own(Lead(Block(cd, "dedicated"), Global(Lead(Block(cd, "legacy_fallback"), end)))))
    BY <1>8, <1>12, <1>14, <1>15
<1>17. CASE d.egress_mode = "dedicated"
  <2>1. cd.mode = "dedicated" /\ HasDefault(d)
      BY <1>7, <1>17 DEF EffectiveEgressMode, HasDefault
  <2>2. /\ Block(cd, "local") = << LocalLine(d) >> /\ Block(cd, "dedicated") = defaultLines(d, p)
        /\ Block(cd, "legacy_fallback") = << >>
      BY <2>1, <1>7, <1>13 DEF Block, EndedBy
  <2>3. Asked(r, memory, cd, s.global, d.ipv4, facts)
          = IF Local \in facts THEN "DIRECT" ELSE Own(ByDefault(Global(end)))
      BY <2>1, <2>2, <1>9, <1>10, <1>11, <1>16
  <2> QED BY <2>3, <1>3, <1>6, <1>17 DEF r
<1>18. CASE d.egress_mode = "inherit_global"
  <2>1. cd.mode = "inherit_global"
      BY <1>7, <1>18 DEF EffectiveEgressMode
  <2>2. Block(cd, "local") = << >> /\ Block(cd, "dedicated") = << >> /\ Block(cd, "legacy_fallback") = << >>
      BY <2>1 DEF Block, EndedBy
  <2>3. Asked(r, memory, cd, s.global, d.ipv4, facts) = Own(Global(end))
      BY <2>2, <1>11, <1>16
  <2> QED BY <2>3, <1>3, <1>6, <1>18 DEF r
<1>19. CASE d.egress_mode = ""
  <2>1. cd.mode = "legacy_fallback" /\ HasDefault(d)
      BY <1>7, <1>19 DEF EffectiveEgressMode, HasDefault
  <2>2. /\ Block(cd, "local") = << >> /\ Block(cd, "dedicated") = << >>
        /\ Block(cd, "legacy_fallback") = defaultLines(d, p)
      BY <2>1, <1>7 DEF Block, EndedBy
  <2>3. Asked(r, memory, cd, s.global, d.ipv4, facts) = Own(Global(ByDefault(end)))
      BY <2>1, <2>2, <1>9, <1>11, <1>16
  <2> QED BY <2>3, <1>3, <1>6, <1>19 DEF r
<1> QED BY <1>1, <1>17, <1>18, <1>19 DEF ManagedDevice

\* The rules rendered for a document do to a packet what the document says.
LEMMA DeclaredRoute ==
    ASSUME NEW set \in Known, ValidatePolicySet(set), NEW s \in Settings, Admitted(set, s),
           NEW memory, NEW facts \in Facts, NEW src
    PROVE  Route(Rendered(set, s), memory, src, facts)
             = Declared(Rendered(set, s), set, s, memory, src, facts)
<1>1. CASE \E d \in ToSet(activeDevices(set, s.sameLAN)) : d.ipv4 = src
  <2>1. PICK d \in ToSet(activeDevices(set, s.sameLAN)) : d.ipv4 = src
    BY <1>1
  <2>2. Route(Rendered(set, s), memory, d.ipv4, facts)
          = Declared(Rendered(set, s), set, s, memory, d.ipv4, facts)
    BY DeviceDeclared
  <2> QED BY <2>1, <2>2
<1>2. CASE \A d \in ToSet(activeDevices(set, s.sameLAN)) : d.ipv4 # src
  BY <1>2, StrangerDeclared
<1> QED BY <1>1, <1>2

-----------------------------------------------------------------------------
(* Devices that did not change *)

\* What compileDevice and the providers need of a document is its profiles, templates and
\* rule sets.
LEMMA SameLibrary ==
    ASSUME NEW set, NEW one, NEW d,
           one.profiles = set.profiles, one.templates = set.templates, one.rule_sets = set.rule_sets
    PROVE  /\ deviceProfile(one, d) = deviceProfile(set, d)
           /\ compileDevice(one, d) = compileDevice(set, d)
           /\ \A id : ProviderOf(one, id) = ProviderOf(set, id)
<1>1. deviceProfile(one, d) = deviceProfile(set, d)
    BY DEF deviceProfile, resolveProfile
<1>2. compileDevice(one, d) = compileDevice(set, d)
    BY <1>1 DEF compileDevice
<1> QED BY <1>1, <1>2 DEF ProviderOf

\* The device a document holds alone is the one that is compiled.
LEMMA OnlyDevice ==
    ASSUME NEW set \in Known, ValidatePolicySet(set), NEW d \in ToSet(set.devices)
    PROVE  LET one == [set EXCEPT !.devices = Where(@, LAMBDA x : x.id = d.id)] IN
           /\ one.profiles = set.profiles /\ one.templates = set.templates /\ one.rule_sets = set.rule_sets
           /\ ToSet(activeDevices(one, TRUE)) = {d}
<1> DEFINE s == set.devices
           S == {x \in ManagedDevice : x.id = d.id}
           own == KeepIn(s, S)
           one == [set EXCEPT !.devices = Where(@, LAMBDA x : x.id = d.id)]
<1>1. set \in PolicySet /\ s \in Seq(ManagedDevice) /\ d \in ManagedDevice
    BY DocumentParts DEF PolicySet
<1>2. DOMAIN s = 1..Len(s) /\ \A i \in 1..Len(s) : s[i] \in ManagedDevice
    BY <1>1
<1>3. Where(s, LAMBDA x : x.id = d.id) = own
  <2>1. \A i \in DOMAIN s : s[i] \in S <=> s[i].id = d.id
      BY <1>2
  <2>2. [i \in DOMAIN s |-> IF s[i] \in S THEN <<s[i]>> ELSE << >>]
          = [i \in DOMAIN s |-> IF s[i].id = d.id THEN <<s[i]>> ELSE << >>]
      BY <2>1
  <2>3. Where(s, LAMBDA x : x.id = d.id)
          = FlattenSeq([i \in DOMAIN s |-> IF s[i].id = d.id THEN <<s[i]>> ELSE << >>])
      BY DEF Where, Concat
  <2> QED BY <2>2, <2>3 DEF KeepIn
<1>4. /\ one.devices = own /\ one.profiles = set.profiles
      /\ one.templates = set.templates /\ one.rule_sets = set.rule_sets
    BY <1>1, <1>3 DEF PolicySet
<1>5. \A e \in ToSet(s) : e.id = d.id => e = d
    BY ActiveDevices
<1>6. own \in Seq(ManagedDevice) /\ ToSet(own) = {d}
  <2>1. own \in Seq(ManagedDevice) /\ ToSet(own) = ToSet(s) \cap S
      BY <1>1, WhereIn
  <2>2. ToSet(s) \cap S = {d}
      BY <1>1, <1>5
  <2> QED BY <2>1, <2>2
<1> HIDE DEF one, own
<1>7. activeDevices(one, TRUE) = KeepIn(own, ManagedDevice)
  <2>1. DOMAIN own = 1..Len(own) /\ \A i \in 1..Len(own) : own[i] \in ManagedDevice
      BY <1>6
  <2>2. [i \in DOMAIN own |-> IF own[i] \in ManagedDevice THEN <<own[i]>> ELSE << >>]
          = [i \in DOMAIN own |-> IF TRUE \/ own[i].mac # "" THEN <<own[i]>> ELSE << >>]
      BY <2>1
  <2>3. activeDevices(one, TRUE)
          = FlattenSeq([i \in DOMAIN own |-> IF TRUE \/ own[i].mac # "" THEN <<own[i]>> ELSE << >>])
      BY <1>4 DEF activeDevices, Where, Concat
  <2> QED BY <2>2, <2>3 DEF KeepIn
<1>8. ToSet(KeepIn(own, ManagedDevice)) = {d}
  <2>1. ToSet(KeepIn(own, ManagedDevice)) = ToSet(own) \cap ManagedDevice
      BY <1>6, WhereIn
  <2> QED BY <2>1, <1>1, <1>6
<1> QED BY <1>4, <1>7, <1>8 DEF one

LEMMA AloneParts ==
    ASSUME NEW set \in Known, ValidatePolicySet(set), NEW d \in ToSet(set.devices)
    PROVE  /\ ToSet(Alone(set, d.id).devices) = {compileDevice(set, d)}
           /\ Alone(set, d.id).providers = ProvidersOf(set, deviceProfile(set, d))
<1> DEFINE one == [set EXCEPT !.devices = Where(@, LAMBDA x : x.id = d.id)]
           active == activeDevices(one, TRUE)
           built == [i \in DOMAIN active |-> compileDevice(one, active[i])]
           used == UNION {x.referenced : x \in ToSet(built)}
<1>1. /\ one.profiles = set.profiles /\ one.templates = set.templates /\ one.rule_sets = set.rule_sets
      /\ ToSet(active) = {d}
    BY OnlyDevice
<1>2. Alone(set, d.id) = CompilePolicySet(one, TRUE)
    BY DEF Alone
<1> HIDE DEF one
<1>3. /\ CompilePolicySet(one, TRUE).devices = built
      /\ CompilePolicySet(one, TRUE).providers = {ProviderOf(one, id) : id \in used}
    BY DEF CompilePolicySet, ProviderOf
<1> HIDE DEF active
<1>4. ToSet(built) = {compileDevice(one, x) : x \in ToSet(active)}
    BY DEF ToSet
<1>5. /\ compileDevice(one, d) = compileDevice(set, d)
      /\ \A id : ProviderOf(one, id) = ProviderOf(set, id)
    BY <1>1, SameLibrary
<1> HIDE DEF built
<1>6. ToSet(built) = {compileDevice(set, d)}
    BY <1>1, <1>4, <1>5
<1>7. used = Referenced(deviceProfile(set, d))
  <2>1. used = compileDevice(set, d).referenced
      BY <1>6
  <2> QED BY <2>1, CompiledFields DEF Referenced
<1> HIDE DEF used
<1>8. {ProviderOf(one, id) : id \in used} = ProvidersOf(set, deviceProfile(set, d))
    BY <1>5, <1>7 DEF ProvidersOf
<1> QED BY <1>2, <1>3, <1>6, <1>8

\* mihomo knows these names; every line can be resolved with them.
Knows(r, names, groups, providers) ==
    /\ Unique(r) /\ names \cap GroupNames(r) = {}
    /\ groups \subseteq ToSet(r.groups) /\ providers \subseteq r.providers
Within(lines, names, groups, providers) ==
    lines \in Seq(AnyLine) /\ \A x \in ToSet(lines) : Resolved(x, names, groups, providers)

\* Lines whose names mean the same in two configurations of mihomo lead to the same.
LEMMA ResolvedLeadAlike ==
    ASSUME NEW r, NEW q, NEW names, NEW groups, NEW providers,
           Knows(r, names, groups, providers), Knows(q, names, groups, providers),
           NEW lines, Within(lines, names, groups, providers),
           NEW memory, NEW src, NEW facts, NEW otherwise
    PROVE  Leads(r, memory, lines, src, facts, otherwise) = Leads(q, memory, lines, src, facts, otherwise)
<1>1. /\ Unique(r) /\ names \cap GroupNames(r) = {}
      /\ groups \subseteq ToSet(r.groups) /\ providers \subseteq r.providers
    BY DEF Knows
<1>2. /\ Unique(q) /\ names \cap GroupNames(q) = {}
      /\ groups \subseteq ToSet(q.groups) /\ providers \subseteq q.providers
    BY DEF Knows
<1>3. lines \in Seq(AnyLine) /\ \A x \in ToSet(lines) : Resolved(x, names, groups, providers)
    BY DEF Within
<1>4. ASSUME NEW x \in ToSet(lines)
      PROVE  /\ Takes(r, memory, x, src, facts) <=> Takes(q, memory, x, src, facts)
             /\ Picked(r, memory, x.to) = Picked(q, memory, x.to)
  <2>1. Resolved(x, names, groups, providers)
      BY <1>3
  <2> QED BY <2>1, <1>1, <1>2, ResolvedAlike
<1> QED BY <1>3, <1>4, LeadsAlike

\* A device both documents compile alike is served alike, a paused one like a stranger.
LEMMA AliveAlike ==
    ASSUME NEW set \in Known, ValidatePolicySet(set), NEW now \in Known, ValidatePolicySet(now),
           NEW s \in Settings, Admitted(set, s), Admitted(now, s),
           NEW d \in ToSet(activeDevices(set, s.sameLAN)), NEW e \in ToSet(activeDevices(now, s.sameLAN)),
           compileDevice(set, d) = compileDevice(now, e),
           ProvidersOf(set, deviceProfile(set, d)) = ProvidersOf(now, deviceProfile(now, e)),
           NEW memory, NEW facts \in Facts
    PROVE  Route(Rendered(now, s), memory, d.ipv4, facts) = Route(Rendered(set, s), memory, d.ipv4, facts)
<1> DEFINE r == Rendered(now, s)
           q == Rendered(set, s)
           cd == compileDevice(now, e)
           names == Builtins \cup s.global.targets
           groups == ToSet(deviceGroups(e, deviceProfile(now, e)))
           provided == ProvidersOf(now, deviceProfile(now, e))
           global == s.global
           src == d.ipv4
<1>1. e.ipv4 = src /\ deviceGroups(e, deviceProfile(now, e)) = deviceGroups(d, deviceProfile(set, d))
    BY CompiledFields
<1>2. Knows(r, names, groups, provided) /\ Knows(r, names, {}, global.providers)
    BY RenderedUnique DEF Knows
<1>3. Knows(q, names, groups, provided) /\ Knows(q, names, {}, global.providers)
    BY <1>1, RenderedUnique DEF Knows
<1>4. /\ Route(r, memory, src, facts) = Asked(r, memory, cd, global, src, facts)
      /\ Route(q, memory, src, facts) = Asked(q, memory, cd, global, src, facts)
  <2>1. Route(r, memory, e.ipv4, facts) = Asked(r, memory, cd, global, e.ipv4, facts)
      BY DeviceRoute, ZenonT(30)
  <2>2. Route(q, memory, d.ipv4, facts) = Asked(q, memory, compileDevice(set, d), global, d.ipv4, facts)
      BY DeviceRoute, ZenonT(30)
  <2> QED BY <1>1, <2>1, <2>2
<1>5. ASSUME NEW kind \in Kinds
      PROVE  Within(Block(cd, kind), names, groups, provided)
  <2>1. /\ Block(cd, kind) \in Seq(AnyLine)
        /\ \A x \in ToSet(Block(cd, kind)) :
             Resolved(x, Fixed \cup Actions(deviceProfile(now, e)), groups, provided)
      BY BlockShape
  <2>2. Fixed \cup Actions(deviceProfile(now, e)) \subseteq names
      BY SectionsCover
  <2> QED BY <2>1, <2>2 DEF Resolved, Within
<1> HIDE DEF r, q, cd, groups, provided
<1>6. ASSUME NEW kind \in Kinds
      PROVE  \A w : Leads(r, memory, Block(cd, kind), src, facts, w) = Leads(q, memory, Block(cd, kind), src, facts, w)
    BY <1>2, <1>3, <1>5, ResolvedLeadAlike
<1>7. /\ \A w : Leads(r, memory, global.before, src, facts, w) = Leads(q, memory, global.before, src, facts, w)
      /\ \A w : Leads(r, memory, global.terminal, src, facts, w) = Leads(q, memory, global.terminal, src, facts, w)
  <2>1. Within(global.before, names, {}, global.providers) /\ Within(global.terminal, names, {}, global.providers)
      BY SettingParts, FixedNative DEF Within, Resolved
  <2> QED BY <2>1, <1>2, <1>3, ResolvedLeadAlike
<1>8. {"local", "overrides", "dedicated", "legacy_fallback"} = Kinds
    BY DEF Kinds
<1>9. Asked(r, memory, cd, global, src, facts) = Asked(q, memory, cd, global, src, facts)
    BY <1>6, <1>7, <1>8 DEF Asked
<1> QED BY <1>4, <1>9 DEF r, q

LEMMA PausedAlike ==
    ASSUME NEW set \in Known, ValidatePolicySet(set), NEW now \in Known, ValidatePolicySet(now),
           NEW s \in Settings, Admitted(set, s), Admitted(now, s), NEW src,
           \A d \in ToSet(activeDevices(set, s.sameLAN)) : d.ipv4 # src,
           \A d \in ToSet(activeDevices(now, s.sameLAN)) : d.ipv4 # src,
           NEW memory, NEW facts \in Facts
    PROVE  Route(Rendered(now, s), memory, src, facts) = Route(Rendered(set, s), memory, src, facts)
<1> DEFINE r == Rendered(now, s)
           q == Rendered(set, s)
           names == Builtins \cup s.global.targets
           global == s.global
<1>1. Knows(r, names, {}, global.providers)
    BY RenderedUnique DEF Knows
<1>2. Knows(q, names, {}, global.providers)
    BY RenderedUnique DEF Knows
<1>3. Route(r, memory, src, facts) = AskedGlobal(r, memory, global, src, facts)
    BY StrangerRoute
<1>4. Route(q, memory, src, facts) = AskedGlobal(q, memory, global, src, facts)
    BY StrangerRoute
<1> HIDE DEF r, q
<1>5. /\ \A w : Leads(r, memory, global.before, src, facts, w) = Leads(q, memory, global.before, src, facts, w)
      /\ \A w : Leads(r, memory, global.terminal, src, facts, w) = Leads(q, memory, global.terminal, src, facts, w)
  <2>1. Within(global.before, names, {}, global.providers) /\ Within(global.terminal, names, {}, global.providers)
      BY SettingParts, FixedNative DEF Within, Resolved
  <2> QED BY <2>1, <1>1, <1>2, ResolvedLeadAlike
<1> QED BY <1>3, <1>4, <1>5 DEF AskedGlobal, r, q

\* A device that the panel does not list as changed.
LEMMA UnchangedAlike ==
    ASSUME NEW set \in Known, ValidatePolicySet(set), NEW now \in Known, ValidatePolicySet(now),
           NEW s \in Settings, Admitted(set, s), Admitted(now, s),
           NEW d \in ToSet(set.devices), d.id \in ToSet(Ids(now.devices)),
           d.id \notin changedDeviceIDs(set, now),
           NEW memory, NEW facts \in Facts
    PROVE  Route(Rendered(now, s), memory, d.ipv4, facts) = Route(Rendered(set, s), memory, d.ipv4, facts)
<1>1. PICK e \in ToSet(now.devices) : e.id = d.id
  <2>1. now.devices \in Seq(ManagedDevice)
      BY DocumentParts DEF PolicySet
  <2> QED BY <2>1, ByIdFinds
<1>2. d.id \in ToSet(Ids(set.devices))
  <2>1. set.devices \in Seq(ManagedDevice)
      BY DocumentParts DEF PolicySet
  <2> QED BY <2>1, SequenceParts
<1>3. Alone(set, d.id) = Alone(now, e.id)
    BY <1>1, <1>2 DEF changedDeviceIDs
<1>4. /\ compileDevice(set, d) = compileDevice(now, e)
      /\ ProvidersOf(set, deviceProfile(set, d)) = ProvidersOf(now, deviceProfile(now, e))
  <2>1. /\ ToSet(Alone(set, d.id).devices) = {compileDevice(set, d)}
        /\ Alone(set, d.id).providers = ProvidersOf(set, deviceProfile(set, d))
      BY AloneParts
  <2>2. /\ ToSet(Alone(now, e.id).devices) = {compileDevice(now, e)}
        /\ Alone(now, e.id).providers = ProvidersOf(now, deviceProfile(now, e))
      BY AloneParts
  <2> QED BY <1>3, <2>1, <2>2
<1>5. d.ipv4 = e.ipv4 /\ d.mac = e.mac /\ d \in ManagedDevice /\ e \in ManagedDevice
    BY <1>4, CompiledFields, DocumentParts
<1>6. d \in MayServe(s.sameLAN) <=> e \in MayServe(s.sameLAN)
    BY <1>5 DEF MayServe
<1>7. /\ ToSet(activeDevices(set, s.sameLAN)) = ToSet(set.devices) \cap MayServe(s.sameLAN)
      /\ ToSet(activeDevices(now, s.sameLAN)) = ToSet(now.devices) \cap MayServe(s.sameLAN)
    BY ActiveDevices
<1>8. CASE d \in MayServe(s.sameLAN)
  <2>1. d \in ToSet(activeDevices(set, s.sameLAN)) /\ e \in ToSet(activeDevices(now, s.sameLAN))
      BY <1>6, <1>7, <1>8
  <2> QED BY <2>1, <1>4, AliveAlike
<1>9. CASE d \notin MayServe(s.sameLAN)
  <2>1. \A a \in ToSet(activeDevices(set, s.sameLAN)) : a.ipv4 # d.ipv4
    <3>1. \A a \in ToSet(set.devices) : a.ipv4 = d.ipv4 => a = d
        BY ActiveDevices
    <3> QED BY <3>1, <1>7, <1>9
  <2>2. \A a \in ToSet(activeDevices(now, s.sameLAN)) : a.ipv4 # d.ipv4
    <3>1. \A a \in ToSet(now.devices) : a.ipv4 = e.ipv4 => a = e
        BY ActiveDevices
    <3> QED BY <3>1, <1>5, <1>6, <1>7, <1>9
  <2> QED BY <2>1, <2>2, PausedAlike
<1> QED BY <1>8, <1>9

-----------------------------------------------------------------------------
(* A selection *)

\* mihomo's memory once a group stands for another of its options.
Switched(memory, group, option) ==
    [g \in DOMAIN memory \cup {group} |-> IF g = group THEN option ELSE memory[g]]

\* Lines that do not go through the group lead to what they led to.
LEMMA SwitchAlike ==
    ASSUME NEW r, NEW memory, NEW group, NEW option, NEW src, NEW facts, NEW otherwise,
           NEW lines \in Seq(AnyLine), \A x \in ToSet(lines) : x.to # group
    PROVE  Leads(r, memory, lines, src, facts, otherwise)
             = Leads(r, Switched(memory, group, option), lines, src, facts, otherwise)
<1> DEFINE after == Switched(memory, group, option)
<1>1. ASSUME NEW name, name # group PROVE Picked(r, memory, name) = Picked(r, after, name)
  <2>1. name \in DOMAIN memory <=> name \in DOMAIN after
      BY <1>1 DEF Switched
  <2>2. name \in DOMAIN memory => memory[name] = after[name]
      BY <1>1 DEF Switched
  <2> QED BY <2>1, <2>2 DEF Picked
<1> HIDE DEF after
<1>2. \A x \in ToSet(lines) : /\ Takes(r, memory, x, src, facts) <=> Takes(r, after, x, src, facts)
                              /\ Picked(r, memory, x.to) = Picked(r, after, x.to)
    BY <1>1 DEF Takes
<1>3. Leads(r, memory, lines, src, facts, otherwise) = Leads(r, after, lines, src, facts, otherwise)
    BY <1>2, LeadsAlike
<1> QED BY <1>3 DEF after

\* The lines of a device go to policies and through its own groups.
LEMMA OwnGroups ==
    ASSUME NEW set \in Known, ValidatePolicySet(set), NEW s \in Settings, Admitted(set, s),
           NEW d \in ToSet(activeDevices(set, s.sameLAN)), NEW kind \in Kinds,
           NEW device \in DeviceIds, device # d.id, NEW slot \in Slots,
           DeviceGroupName(device, slot) \in GroupNames(Rendered(set, s))
    PROVE  /\ Block(compileDevice(set, d), kind) \in Seq(AnyLine)
           /\ \A x \in ToSet(Block(compileDevice(set, d), kind)) : x.to # DeviceGroupName(device, slot)
<1> DEFINE p == deviceProfile(set, d)
           block == Block(compileDevice(set, d), kind)
           groups == ToSet(deviceGroups(d, p))
           names == Builtins \cup s.global.targets
<1>1. d \in ManagedDevice /\ d.id \in DeviceIds /\ ProfileOK(set, p)
    BY ActiveParts
<1>2. /\ block \in Seq(AnyLine)
      /\ \A x \in ToSet(block) : Resolved(x, Fixed \cup Actions(p), groups, ProvidersOf(set, p))
    BY BlockShape
<1>3. Fixed \cup Actions(p) \subseteq names
    BY SectionsCover
<1>4. groups = {GroupOfRule(d, r) : r \in Choosing(p)}
               \cup (IF HasDefault(d) THEN {Group(d, "default", p.default_policies)} ELSE {})
    BY <1>1, GroupsOfDevice
<1>5. DeviceGroupName(device, slot) \notin names
    BY RenderedUnique
<1> HIDE DEF p, block, groups, names
<1>6. \A own \in Slots : DeviceGroupName(d.id, own) # DeviceGroupName(device, slot)
    BY <1>1, GroupNamesApart
<1>7. \A r \in Choosing(p) : r.id \in Slots
    BY <1>1 DEF ProfileOK, Choosing
<1>8. \A g \in groups : g.name # DeviceGroupName(device, slot)
  <2>1. \A r \in Choosing(p) : GroupOfRule(d, r).name # DeviceGroupName(device, slot)
      BY <1>6, <1>7 DEF GroupOfRule, Group
  <2>2. Group(d, "default", p.default_policies).name # DeviceGroupName(device, slot)
      BY <1>6 DEF Group, Slots
  <2> QED BY <2>1, <2>2, <1>4
<1>9. \A x \in ToSet(block) : x.to # DeviceGroupName(device, slot)
    BY <1>2, <1>3, <1>5, <1>8 DEF Resolved
<1> QED BY <1>2, <1>9 DEF block

\* A packet whose sender is not the device that is switched goes where it went.
LEMMA OthersStay ==
    ASSUME NEW set \in Known, ValidatePolicySet(set), NEW s \in Settings, Admitted(set, s),
           NEW memory, NEW device \in DeviceIds, NEW slot \in Slots, NEW option,
           DeviceGroupName(device, slot) \in GroupNames(Rendered(set, s)), NEW src, NEW facts \in Facts,
           \A d \in ToSet(set.devices) : ~(d.id = device /\ d.ipv4 = src)
    PROVE  Route(Rendered(set, s), memory, src, facts)
             = Route(Rendered(set, s), Switched(memory, DeviceGroupName(device, slot), option), src, facts)
<1> DEFINE r == Rendered(set, s)
           group == DeviceGroupName(device, slot)
           after == Switched(memory, group, option)
           active == activeDevices(set, s.sameLAN)
           global == s.global
<1>1. /\ \A w : Leads(r, memory, global.before, src, facts, w) = Leads(r, after, global.before, src, facts, w)
      /\ \A w : Leads(r, memory, global.terminal, src, facts, w) = Leads(r, after, global.terminal, src, facts, w)
  <2>1. /\ global.before \in Seq(AnyLine) /\ global.terminal \in Seq(AnyLine)
        /\ \A x \in ToSet(global.before) \cup ToSet(global.terminal) : x.to \in Builtins \cup global.targets
      BY SettingParts, FixedNative DEF Resolved
  <2>2. group \notin Builtins \cup global.targets
      BY RenderedUnique
  <2>3. \A x \in ToSet(global.before) : x.to # group
      BY <2>1, <2>2
  <2>4. \A x \in ToSet(global.terminal) : x.to # group
      BY <2>1, <2>2
  <2> HIDE DEF r, group
  <2> QED BY <2>1, <2>3, <2>4, SwitchAlike
<1>2. ASSUME NEW d \in ToSet(active), d.ipv4 = src
      PROVE  Route(r, memory, src, facts) = Route(r, after, src, facts)
  <2> DEFINE cd == compileDevice(set, d)
  <2>1. d \in ToSet(set.devices)
      BY ActiveDevices
  <2>2. device # d.id
      BY <1>2, <2>1
  <2>3. \A m : Route(r, m, d.ipv4, facts) = Asked(r, m, cd, global, d.ipv4, facts)
      BY DeviceRoute
  <2>4. \A kind \in Kinds : Block(cd, kind) \in Seq(AnyLine) /\ \A x \in ToSet(Block(cd, kind)) : x.to # group
      BY <2>2, OwnGroups
  <2> HIDE DEF r, cd, group
  <2>5. \A kind \in Kinds : \A w :
          Leads(r, memory, Block(cd, kind), src, facts, w) = Leads(r, after, Block(cd, kind), src, facts, w)
      BY <2>4, SwitchAlike
  <2>6. {"local", "overrides", "dedicated", "legacy_fallback"} = Kinds
      BY DEF Kinds
  <2> HIDE DEF after
  <2>7. Asked(r, memory, cd, global, src, facts) = Asked(r, after, cd, global, src, facts)
      BY <1>1, <2>5, <2>6 DEF Asked
  <2> QED BY <1>2, <2>3, <2>7
<1>3. ASSUME \A d \in ToSet(active) : d.ipv4 # src
      PROVE  Route(r, memory, src, facts) = Route(r, after, src, facts)
  <2>1. /\ Route(r, memory, src, facts) = AskedGlobal(r, memory, global, src, facts)
        /\ Route(r, after, src, facts) = AskedGlobal(r, after, global, src, facts)
      BY <1>3, StrangerRoute
  <2> HIDE DEF r, after
  <2> QED BY <1>1, <2>1 DEF AskedGlobal
<1> QED BY <1>2, <1>3

-----------------------------------------------------------------------------
(* What mihomo can resolve *)

\* Every rule mihomo is given names a policy, a group and a provider it has.
LEMMA RulesResolved ==
    ASSUME NEW set \in Known, ValidatePolicySet(set), NEW s \in Settings, Admitted(set, s),
           CompilePolicySet(set, s.sameLAN).targets \subseteq Native \cup s.global.targets
    PROVE  LET r == Rendered(set, s) IN
           \A x \in ToSet(r.rules) : Resolved(x, Native \cup s.global.targets, ToSet(r.groups), r.providers)
<1> DEFINE r == Rendered(set, s)
           names == Native \cup s.global.targets
           active == activeDevices(set, s.sameLAN)
           Fine(x) == Resolved(x, names, ToSet(r.groups), r.providers)
           a == FlattenSeq(Blocks(set, s.sameLAN, "local"))
           b == FlattenSeq(Blocks(set, s.sameLAN, "overrides"))
           c == FlattenSeq(Blocks(set, s.sameLAN, "dedicated"))
           e == s.global.before
           f == FlattenSeq(Blocks(set, s.sameLAN, "legacy_fallback"))
           t == s.global.terminal
           Good(lines) == lines \in Seq(AnyLine) /\ \A x \in ToSet(lines) : Fine(x)
<1>1. r.rules = ((((a \o b) \o c) \o e) \o f) \o t
    BY CompiledBlocks DEF Rendered, composeSections, orderedDevicePreRules
<1>2. /\ s.global.providers \subseteq r.providers
      /\ \A d \in ToSet(active) : /\ ToSet(deviceGroups(d, deviceProfile(set, d))) \subseteq ToSet(r.groups)
                                  /\ ProvidersOf(set, deviceProfile(set, d)) \subseteq r.providers
    BY RenderedUnique
<1>3. ASSUME NEW kind \in Kinds, NEW d \in ToSet(active), NEW x \in ToSet(Block(compileDevice(set, d), kind))
      PROVE  Fine(x)
  <2>1. Resolved(x, Fixed \cup Actions(deviceProfile(set, d)),
                 ToSet(deviceGroups(d, deviceProfile(set, d))), ProvidersOf(set, deviceProfile(set, d)))
      BY BlockShape
  <2>2. Fixed \cup Actions(deviceProfile(set, d)) \subseteq names
      BY TargetsCover, FixedNative
  <2> QED BY <2>1, <2>2, <1>2 DEF Resolved
<1> HIDE DEF r, Fine
<1>4. ASSUME NEW kind \in Kinds PROVE Good(FlattenSeq(Blocks(set, s.sameLAN, kind)))
  <2> DEFINE ss == Blocks(set, s.sameLAN, kind)
  <2>1. /\ ss \in Seq(Seq(AnyLine))
        /\ \A k \in 1..Len(ss) : ss[k] = Block(compileDevice(set, active[k]), kind) /\ active[k] \in ToSet(active)
      BY BlocksShape
  <2>2. \A k \in 1..Len(ss) : \A x \in ToSet(ss[k]) : Fine(x)
      BY <2>1, <1>3
  <2> HIDE DEF ss
  <2>3. FlattenSeq(ss) \in Seq(AnyLine) /\ ToSet(FlattenSeq(ss)) = UNION {ToSet(ss[k]) : k \in DOMAIN ss}
      BY <2>1, FlattenStep, FlattenElements
  <2>4. DOMAIN ss = 1..Len(ss)
      BY <2>1
  <2>5. \A x \in ToSet(FlattenSeq(ss)) : Fine(x)
      BY <2>2, <2>3, <2>4
  <2> QED BY <2>3, <2>5 DEF ss
<1>5. Good(a) /\ Good(b) /\ Good(c) /\ Good(f)
    BY <1>4 DEF Kinds
<1>6. Good(e) /\ Good(t)
  <2>1. /\ e \in Seq(AnyLine) /\ t \in Seq(AnyLine)
        /\ \A x \in ToSet(e) \cup ToSet(t) : Resolved(x, names, {}, s.global.providers)
      BY SettingParts
  <2>2. \A x : Resolved(x, names, {}, s.global.providers) => Fine(x)
      BY <1>2 DEF Resolved, Fine
  <2> QED BY <2>1, <2>2
<1> HIDE DEF a, b, c, e, f, t
<1>7. ASSUME NEW x, NEW y, Good(x), Good(y) PROVE Good(x \o y)
  <2>1. x \o y \in Seq(AnyLine) /\ ToSet(x \o y) = ToSet(x) \cup ToSet(y)
      BY <1>7, ConcatElements
  <2> QED BY <2>1, <1>7
<1> HIDE DEF Good
<1> DEFINE ab == a \o b
           abc == ab \o c
           abce == abc \o e
           abcef == abce \o f
<1>8. Good(ab)
    BY <1>5, <1>7
<1> HIDE DEF ab
<1>9. Good(abc)
    BY <1>5, <1>7, <1>8
<1> HIDE DEF abc
<1>10. Good(abce)
    BY <1>6, <1>7, <1>9
<1> HIDE DEF abce
<1>11. Good(abcef)
    BY <1>5, <1>7, <1>10
<1> HIDE DEF abcef
<1>12. Good(abcef \o t)
    BY <1>6, <1>7, <1>11
<1>13. r.rules = abcef \o t
    BY <1>1 DEF abcef, abce, abc, ab
<1>14. \A x \in ToSet(r.rules) : Fine(x)
    BY <1>12, <1>13 DEF Good
<1> QED BY <1>14 DEF r, Fine

\* mihomo accepts what names only policies it has and no name twice.
LEMMA RenderedLoads ==
    ASSUME NEW set \in Known, ValidatePolicySet(set), NEW s \in Settings, Admitted(set, s),
           CompilePolicySet(set, s.sameLAN).targets \subseteq Native \cup s.global.targets
    PROVE  Loads(Rendered(set, s))
<1> DEFINE r == Rendered(set, s)
           names == Native \cup s.global.targets
           active == activeDevices(set, s.sameLAN)
           compiled == CompilePolicySet(set, s.sameLAN)
<1>1. Unique(r) /\ r.targets = s.global.targets /\ NoNameTwice(r)
    BY RenderedUnique DEF Admitted
<1>2. r.groups = compiled.groups
    BY DEF Rendered, composeSections
<1>3. /\ r.groups \in Seq(AnyGroup) /\ Unlike(r.groups, NameIn)
      /\ ToSet(r.groups) = UNION {ToSet(deviceGroups(d, deviceProfile(set, d))) : d \in ToSet(active)}
    BY <1>2, CompiledGroups
<1>4. \A x \in ToSet(r.rules) : Resolved(x, names, ToSet(r.groups), r.providers)
    BY RulesResolved
<1>5. \A g \in ToSet(r.groups) : ToSet(g.policies) \subseteq names
  <2>1. \A d \in ToSet(active) : \A g \in ToSet(deviceGroups(d, deviceProfile(set, d))) : ToSet(g.policies) \subseteq names
      BY TargetsCover
  <2> QED BY <1>3, <2>1
<1> HIDE DEF r
<1>6. Distinct([i \in DOMAIN r.groups |-> r.groups[i].name])
  <2>1. DOMAIN r.groups = 1..Len(r.groups) /\ \A i \in 1..Len(r.groups) : r.groups[i] \in AnyGroup
      BY <1>3
  <2>2. \A i, j \in 1..Len(r.groups) : r.groups[i].name = r.groups[j].name => i = j
      BY <1>3, <2>1 DEF Unlike, NameIn
  <2> QED BY <2>1, <2>2 DEF Distinct, IsInjective
<1>7. ASSUME NEW x \in ToSet(r.rules)
      PROVE  /\ x.to \in Native \cup r.targets \cup GroupNames(r)
             /\ \A c \in x.when : c[1] = "rule_sets" => Cardinality({p \in r.providers : p.name = c[2]}) = 1
  <2>1. x.to \in Native \cup r.targets \cup GroupNames(r)
      BY <1>1, <1>4 DEF Resolved, GroupNames
  <2>2. ASSUME NEW c \in x.when, c[1] = "rule_sets" PROVE Cardinality({p \in r.providers : p.name = c[2]}) = 1
    <3>1. PICK q \in r.providers : q.name = c[2]
        BY <1>4, <2>2 DEF Resolved
    <3>2. {p \in r.providers : p.name = c[2]} = {q}
        BY <1>1, <3>1 DEF Unique
    <3> QED BY <3>2, FS_Singleton
  <2> QED BY <2>1, <2>2
<1> QED BY <1>1, <1>5, <1>6, <1>7 DEF r, Loads

\* The name space of the groups is refused to an imported profile, which has no policy of
\* mihomo's own either.
LEMMA ImportedApart ==
    ASSUME NEW set \in Known, ValidatePolicySet(set), NEW s \in Settings, Passes(set, s), s.global.imported
    PROVE  NoNameTwice(Rendered(set, s))
<1> DEFINE r == Rendered(set, s)
<1>1. r.groups = CompilePolicySet(set, s.sameLAN).groups /\ r.targets = s.global.targets
    BY DEF Rendered, composeSections
<1>2. CompilePolicySet(set, s.sameLAN).groups \in Seq(AnyGroup)
    BY CompiledGroups
<1> HIDE DEF r
<1>3. GroupNames(r) \subseteq ReservedGroups
  <2>1. ToSet(r.groups) \subseteq AnyGroup
      BY <1>1, <1>2, SequenceParts
  <2> QED BY <2>1 DEF GroupNames, AnyGroup
<1>4. \A name \in ReservedGroups : HasPrefix(name, "device/")
    BY IdentifiersAssumption DEF IdentifiersAssumption
<1>5. \A name \in s.global.targets : ~HasPrefix(name, "device/")
    BY DEF Passes, validatePolicySections, ReservedNamesFree
<1>6. Native \cap s.global.targets = {}
    BY SettingsAssumption DEF SettingsAssumption
<1> QED BY <1>1, <1>3, <1>4, <1>5, <1>6 DEF NoNameTwice, r

-----------------------------------------------------------------------------
(* The inductive invariant *)

\* The documents in use are valid, what mihomo runs was rendered from the applied one after
\* it had been accepted, and a selection that is under way is of a device's group.
PolicyInv ==
    /\ policy \in Known /\ setting \in Settings /\ ValidForLAN(policy, setting.sameLAN)
    /\ applied.policy \in Known /\ applied.setting \in Settings
    /\ ValidForLAN(applied.policy, applied.setting.sameLAN)
    /\ Up => /\ running = Rendered(applied.policy, applied.setting)
             /\ Accepted(applied.policy, applied.setting)
    /\ switching = Idle \/ \E device \in DeviceIds, slot \in Slots :
                             switching.device = device /\ switching.group = DeviceGroupName(device, slot)
    /\ selections \in 0..MaxSelections

LEMMA PolicyInvInit == PolicyInit => PolicyInv
<1> SUFFICES ASSUME PolicyInit PROVE PolicyInv
    OBVIOUS
<1>1. policy = EmptySet /\ setting \in Settings /\ applied = [policy |-> EmptySet, setting |-> setting]
    BY DEF PolicyInit
<1>2. applied.policy = EmptySet /\ applied.setting = setting /\ EmptySet \in Known
    BY <1>1 DEF Known
<1>3. ValidForLAN(EmptySet, setting.sameLAN)
    BY NobodyActive
<1>4. ~Up /\ switching = Idle
    BY DEF PolicyInit, Up
<1>5. selections \in 0..MaxSelections
    BY BoundAssumption DEF PolicyInit, BoundAssumption
<1> QED BY <1>1, <1>2, <1>3, <1>4, <1>5 DEF PolicyInv

\* The slot of a device that is compiled names one of its groups.
LEMMA SelectedSlot ==
    ASSUME NEW set \in Known, ValidatePolicySet(set), NEW sameLAN,
           NEW cd \in ToSet(CompilePolicySet(set, sameLAN).devices)
    PROVE  cd.id \in DeviceIds /\ cd.slots \subseteq Slots
<1> DEFINE active == activeDevices(set, sameLAN)
           built == [i \in DOMAIN active |-> compileDevice(set, active[i])]
<1>1. CompilePolicySet(set, sameLAN).devices = built
    BY DEF CompilePolicySet
<1>2. ToSet(built) = {compileDevice(set, d) : d \in ToSet(active)}
    BY DEF ToSet
<1>3. PICK d \in ToSet(active) : cd = compileDevice(set, d)
    BY <1>1, <1>2
<1>4. d.id \in DeviceIds /\ ProfileOK(set, deviceProfile(set, d))
    BY ActiveParts
<1>5. /\ cd.id = d.id
      /\ cd.slots = {r.id : r \in Choosing(deviceProfile(set, d))} \cup (IF HasDefault(d) THEN {"default"} ELSE {})
    BY <1>3, CompiledFields
<1>6. \A r \in Choosing(deviceProfile(set, d)) : r.id \in Slots
    BY <1>4 DEF ProfileOK, Choosing
<1> QED BY <1>4, <1>5, <1>6 DEF Slots

LEMMA PolicyInvStep == PolicyInv /\ [PolicyNext]_policyVars => PolicyInv'
<1> SUFFICES ASSUME PolicyInv, [PolicyNext]_policyVars PROVE PolicyInv'
    OBVIOUS
<1> USE DEF PolicyInv
<1>1. ASSUME NEW set \in Documents, PutPolicy(set) PROVE PolicyInv'
  <2>1. set \in Known
      BY DEF Known
  <2> QED BY <1>1, <2>1 DEF PutPolicy, Up
<1>2. ASSUME NEW s \in Settings, Configure(s) PROVE PolicyInv'
    BY <1>2 DEF Configure, Up
<1>3. CASE Apply
  <2>1. /\ Accepted(policy, setting)
        /\ running' = Rendered(policy, setting)
        /\ applied' = [policy |-> policy, setting |-> setting]
        /\ UNCHANGED <<policy, setting, chosen, switching, selections>>
      BY <1>3 DEF Apply, Rendered
  <2>2. applied'.policy = policy /\ applied'.setting = setting
      BY <2>1
  <2> QED BY <2>1, <2>2 DEF Up
<1>4. CASE Stop
  <2>1. ~Up'
      BY <1>4 DEF Stop, Up
  <2> QED BY <1>4, <2>1 DEF Stop
<1>5. ASSUME NEW device \in DeviceIds, NEW slot \in Slots, NEW option \in Policies, Selects(device, slot, option)
      PROVE  PolicyInv'
  <2>1. switching'.device = device /\ switching'.group = DeviceGroupName(device, slot)
      BY <1>5 DEF Selects
  <2>2. selections' \in 0..MaxSelections
      BY <1>5, BoundAssumption DEF Selects, BoundAssumption
  <2>3. UNCHANGED <<policy, setting, applied, running, chosen>>
      BY <1>5 DEF Selects
  <2> QED BY <2>1, <2>2, <2>3 DEF Up
<1>6. CASE Selected
    BY <1>6 DEF Selected, Up
<1>7. CASE UNCHANGED policyVars
    BY <1>7 DEF policyVars, Up
<1> QED BY <1>1, <1>2, <1>3, <1>4, <1>5, <1>6, <1>7 DEF PolicyNext

\* PolicyInv holds of every state.
THEOREM PolicyInvariant == PolicySpec => []PolicyInv
<1>1. PolicyInit => PolicyInv
    BY PolicyInvInit
<1>2. PolicyInv /\ [PolicyNext]_policyVars => PolicyInv'
    BY PolicyInvStep
<1> QED BY <1>1, <1>2, PTL DEF PolicySpec

\* Every variable holds a value of its kind, the document fits the configured LAN, and
\* mihomo runs what the gateway was last started with (PutPolicy, Configure, Apply).
THEOREM PolicyTypeCorrect == PolicySpec => []PolicyTypeOK
<1>1. PolicyInv => PolicyTypeOK
  <2> SUFFICES ASSUME PolicyInv PROVE PolicyTypeOK
      OBVIOUS
  <2>1. switching.device \in DeviceIds \cup {"-"}
    <3>1. CASE switching = Idle
      <4>1. switching.device = "-"
          BY <3>1 DEF Idle
      <4> QED BY <4>1
    <3>2. CASE \E device \in DeviceIds, slot \in Slots :
                 switching.device = device /\ switching.group = DeviceGroupName(device, slot)
        BY <3>2
    <3> QED BY <3>1, <3>2 DEF PolicyInv
  <2> QED BY <2>1 DEF PolicyInv, PolicyTypeOK, Known
<1> QED BY <1>1, PolicyInvariant, PTL

\* Whatever the documents and the global rules, the rules mihomo runs do to every packet what
\* the applied document says of the device it comes from (CompilePolicySet,
\* composeManagedPolicySections, composeImportedPolicySections).
THEOREM RoutesCorrect == PolicySpec => []RoutesAsDeclared
<1>1. PolicyInv => RoutesAsDeclared
  <2> SUFFICES ASSUME PolicyInv, Up, NEW src \in Senders, NEW facts \in Facts
               PROVE  Route(running, chosen, src, facts)
                        = Declared(running, applied.policy, applied.setting, chosen, src, facts)
      BY DEF RoutesAsDeclared
  <2>1. /\ applied.policy \in Known /\ ValidatePolicySet(applied.policy) /\ applied.setting \in Settings
        /\ Admitted(applied.policy, applied.setting)
        /\ running = Rendered(applied.policy, applied.setting)
      BY AcceptedAdmitted DEF PolicyInv, ValidForLAN, ValidSets
  <2> QED BY <2>1, DeclaredRoute
<1> QED BY <1>1, PolicyInvariant, PTL

\* A configuration whose names OpenSurge lets pass is refused by mihomo for two reasons only: a
\* name that only OpenSurge takes for a built-in policy's, or an upstream proxy of the managed
\* profile with a name that is taken (validateManagedPolicySections, validateImportedPolicySections).
THEOREM NamesCorrect == PolicySpec => []NamesResolve
<1>1. PolicyInv => NamesResolve
  <2> DEFINE r == Rendered(policy, setting)
             targets == CompilePolicySet(policy, setting.sameLAN).targets
             misread == Builtins \ (Native \cup setting.global.targets)
  <2> SUFFICES ASSUME PolicyInv, Passes(policy, setting), targets \cap misread = {},
                      setting.global.imported \/ NoNameTwice(r)
               PROVE  Loads(r)
      BY DEF NamesResolve
  <2>1. policy \in Known /\ ValidatePolicySet(policy) /\ setting \in Settings
      BY DEF PolicyInv, ValidForLAN, ValidSets
  <2>2. targets \subseteq Builtins \cup setting.global.targets
      BY DEF Passes, validatePolicySections
  <2>3. targets \subseteq Native \cup setting.global.targets
      BY <2>2
  <2>4. NoNameTwice(r)
      BY <2>1, ImportedApart
  <2> QED BY <2>1, <2>3, <2>4, RenderedLoads DEF Admitted
<1> QED BY <1>1, PolicyInvariant, PTL

\* A device of both documents that changedDeviceIDs does not list is served by a reload that is
\* accepted as it is now, whatever else the reload brings.
THEOREM UnchangedCorrect == PolicySpec => []UnchangedRoutesAlike
<1>1. PolicyInv => UnchangedRoutesAlike
  <2> SUFFICES ASSUME PolicyInv, Up, setting = applied.setting, Accepted(policy, setting),
                      NEW d \in ToSet(policy.devices),
                      d.id \in ToSet(Ids(applied.policy.devices)), d.id \notin changedDeviceIDs(policy, applied.policy),
                      NEW facts \in Facts
               PROVE  Route(running, chosen, d.ipv4, facts) = Route(Rendered(policy, setting), chosen, d.ipv4, facts)
      BY DEF UnchangedRoutesAlike
  <2>1. /\ policy \in Known /\ ValidatePolicySet(policy) /\ setting \in Settings
        /\ applied.policy \in Known /\ ValidatePolicySet(applied.policy)
        /\ Admitted(policy, setting) /\ Admitted(applied.policy, setting)
        /\ running = Rendered(applied.policy, setting)
      BY AcceptedAdmitted DEF PolicyInv, ValidForLAN, ValidSets
  <2> QED BY <2>1, UnchangedAlike
<1> QED BY <1>1, PolicyInvariant, PTL

\* Switching a device's policy moves no other device's packets, whatever was applied between
\* the lookup of the group and the switch (handleDeviceSelection).
THEOREM SelectionCorrect == PolicySpec => SelectionMovesOneDevice
<1> DEFINE A == chosen' # chosen /\ Up =>
                  \A src \in Senders, facts \in Facts :
                    Route(running, chosen, src, facts) # Route(running, chosen', src, facts)
                      => \E d \in ToSet(applied.policy.devices) : d.id = switching.device /\ d.ipv4 = src
<1>1. PolicyInv /\ [PolicyNext]_policyVars => [A]_policyVars
  <2> SUFFICES ASSUME PolicyInv, PolicyNext, chosen' # chosen, Up, NEW src \in Senders, NEW facts \in Facts,
                      \A d \in ToSet(applied.policy.devices) : ~(d.id = switching.device /\ d.ipv4 = src)
               PROVE  Route(running, chosen, src, facts) = Route(running, chosen', src, facts)
      OBVIOUS
  <2>1. Selected
      BY DEF PolicyNext, PutPolicy, Configure, Apply, Stop, Selects
  <2>2. /\ switching # Idle /\ chosen' = Switched(chosen, switching.group, switching.policy)
        /\ switching.group \in GroupNames(running)
    <3>1. /\ switching # Idle /\ switching.policy \in Options(running, switching.group)
          /\ chosen' = Switched(chosen, switching.group, switching.policy)
        BY <2>1 DEF Selected, Switched
    <3>2. {h \in ToSet(running.groups) : h.name = switching.group} # {}
        BY <3>1 DEF Options
    <3> QED BY <3>1, <3>2 DEF GroupNames
  <2>3. /\ applied.policy \in Known /\ ValidatePolicySet(applied.policy) /\ applied.setting \in Settings
        /\ Admitted(applied.policy, applied.setting)
        /\ running = Rendered(applied.policy, applied.setting)
      BY AcceptedAdmitted DEF PolicyInv, ValidForLAN, ValidSets
  <2>4. \E device \in DeviceIds : \E slot \in Slots :
          switching.device = device /\ switching.group = DeviceGroupName(device, slot)
      BY <2>2 DEF PolicyInv
  <2>5. PICK device \in DeviceIds : \E slot \in Slots :
          switching.device = device /\ switching.group = DeviceGroupName(device, slot)
      BY <2>4
  <2>6. PICK slot \in Slots : switching.device = device /\ switching.group = DeviceGroupName(device, slot)
      BY <2>5
  <2>7. \A d \in ToSet(applied.policy.devices) : ~(d.id = device /\ d.ipv4 = src)
      BY <2>6
  <2>8. Route(Rendered(applied.policy, applied.setting), chosen, src, facts)
          = Route(Rendered(applied.policy, applied.setting),
                  Switched(chosen, DeviceGroupName(device, slot), switching.policy), src, facts)
      BY <2>2, <2>3, <2>6, <2>7, OthersStay
  <2> QED BY <2>2, <2>3, <2>6, <2>8
<1> QED BY <1>1, PolicyInvariant, PTL DEF PolicySpec, SelectionMovesOneDevice

=============================================================================
