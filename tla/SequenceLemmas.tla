---------------------------- MODULE SequenceLemmas ----------------------------
(***************************************************************************)
(* What the helpers on sequences return: ToSet the elements, ElementsAt    *)
(* those at the positions given, each once and in their order.             *)
(***************************************************************************)
EXTENDS Selection, Naturals, Sequences, SequencesExt, FiniteSets, FiniteSetTheorems,
        SequenceTheorems, WellFoundedInduction, TLAPS

-------------------------------------------------------------------------------
(* Elements *)

\* The elements of a sequence, by its positions.
LEMMA ElementsOf ==
  ASSUME NEW S, NEW s \in Seq(S)
  PROVE  ToSet(s) \subseteq S /\ ToSet(s) = {s[i] : i \in 1 .. Len(s)}
BY DEF ToSet

LEMMA ElementsOfConcat ==
  ASSUME NEW S, NEW s \in Seq(S), NEW t \in Seq(S)
  PROVE  ToSet(s \o t) = ToSet(s) \cup ToSet(t)
<1>1. /\ s \o t \in Seq(S) /\ Len(s \o t) = Len(s) + Len(t)
      /\ \A i \in 1 .. Len(s) + Len(t) :
           (s \o t)[i] = IF i <= Len(s) THEN s[i] ELSE t[i - Len(s)]
  BY ConcatProperties
<1>2. Len(s) \in Nat /\ Len(t) \in Nat /\ DOMAIN s = 1 .. Len(s) /\ DOMAIN t = 1 .. Len(t)
  BY LenProperties
<1>3. DOMAIN (s \o t) = 1 .. Len(s) + Len(t)
  BY <1>1, LenProperties
<1>4. ASSUME NEW x \in ToSet(s \o t)
      PROVE  x \in ToSet(s) \cup ToSet(t)
  <2>1. PICK i \in 1 .. Len(s) + Len(t) : x = (s \o t)[i]
    BY <1>3, <1>4 DEF ToSet
  <2>2. CASE i <= Len(s)
    BY <1>1, <1>2, <2>1, <2>2 DEF ToSet
  <2>3. CASE ~ i <= Len(s)
    <3>1. i - Len(s) \in DOMAIN t
      BY <1>2, <2>1, <2>3
    <3>2. x = t[i - Len(s)]
      BY <1>1, <2>1, <2>3
    <3> QED
      BY <3>1, <3>2 DEF ToSet
  <2> QED
    BY <2>2, <2>3
<1>5. ASSUME NEW x \in ToSet(s)
      PROVE  x \in ToSet(s \o t)
  <2>1. PICK i \in 1 .. Len(s) : x = s[i]
    BY <1>2, <1>5 DEF ToSet
  <2>2. i \in 1 .. Len(s) + Len(t) /\ (s \o t)[i] = s[i]
    BY <1>1, <1>2
  <2> QED
    BY <1>3, <2>1, <2>2 DEF ToSet
<1>6. ASSUME NEW x \in ToSet(t)
      PROVE  x \in ToSet(s \o t)
  <2>1. PICK i \in 1 .. Len(t) : x = t[i]
    BY <1>2, <1>6 DEF ToSet
  <2>2. i + Len(s) \in 1 .. Len(s) + Len(t) /\ (s \o t)[i + Len(s)] = t[i]
    BY <1>1, <1>2
  <2> QED
    BY <1>3, <2>1, <2>2 DEF ToSet
<1> QED
  BY <1>4, <1>5, <1>6

LEMMA ElementsOfAppend ==
  ASSUME NEW S, NEW s \in Seq(S), NEW x \in S
  PROVE  ToSet(Append(s, x)) = ToSet(s) \cup {x}
<1>1. Append(s, x) = s \o << x >>
  BY AppendIsConcat
<1>3. << x >> \in Seq(S)
  OBVIOUS
<1>2. ToSet(<< x >>) = {x}
  BY DEF ToSet
<1>4. ToSet(s \o << x >>) = ToSet(s) \cup ToSet(<< x >>)
  BY <1>3, ElementsOfConcat
<1> QED
  BY <1>1, <1>2, <1>4

LEMMA ElementsOfTail ==
  ASSUME NEW S, NEW s \in Seq(S), s # << >>
  PROVE  Head(s) \in S /\ ToSet(s) = {Head(s)} \cup ToSet(Tail(s))
<1>1. /\ Head(s) \in S /\ Tail(s) \in Seq(S) /\ << Head(s) >> \in Seq(S)
      /\ s = << Head(s) >> \o Tail(s)
  OBVIOUS
<1>2. ToSet(<< Head(s) >> \o Tail(s)) = ToSet(<< Head(s) >>) \cup ToSet(Tail(s))
  BY <1>1, ElementsOfConcat
<1>3. ToSet(<< Head(s) >>) = {Head(s)}
  BY DEF ToSet
<1> QED
  BY <1>1, <1>2, <1>3

-------------------------------------------------------------------------------
(* Selections *)

Rank(at, i) == Cardinality({j \in at : j <= i})

\* The later of two positions has the greater rank.
LEMMA RankIncreases ==
  ASSUME NEW at \in SUBSET Nat, IsFiniteSet(at)
  PROVE  /\ Cardinality(at) \in Nat
         /\ \A i \in at : Rank(at, i) \in 1 .. Cardinality(at)
         /\ \A i, j \in at : i < j => Rank(at, i) < Rank(at, j)
<1>1. Cardinality(at) \in Nat
  BY FS_CardinalityType
<1>2. \A low \in SUBSET at : IsFiniteSet(low) /\ Cardinality(low) \in Nat
                               /\ Cardinality(low) <= Cardinality(at)
  BY FS_Subset, FS_CardinalityType
<1>3. \A i, j \in at : i < j => Rank(at, i) < Rank(at, j)
  <2> SUFFICES ASSUME NEW i \in at, NEW j \in at, i < j
               PROVE  Rank(at, i) < Rank(at, j)
    OBVIOUS
  <2> DEFINE low == {x \in at : x <= i}
             high == {x \in at : x <= j}
  <2>1. low \subseteq high /\ low # high /\ high \subseteq at
    <3>1. i \in Nat /\ j \in Nat /\ \A x \in at : x \in Nat
      OBVIOUS
    <3>2. j \in high /\ j \notin low
      BY <3>1
    <3>3. \A x \in low : x \in high
      BY <3>1
    <3> QED
      BY <3>2, <3>3
  <2>2. IsFiniteSet(high) /\ Cardinality(low) \in Nat /\ Cardinality(high) \in Nat
    BY <1>2, <2>1
  <2>3. Cardinality(low) < Cardinality(high)
    BY <2>1, <2>2, FS_Subset
  <2> QED
    BY <2>3 DEF Rank
<1>4. \A i \in at : Rank(at, i) \in 1 .. Cardinality(at)
  <2> SUFFICES ASSUME NEW i \in at
               PROVE  Rank(at, i) \in 1 .. Cardinality(at)
    OBVIOUS
  <2> DEFINE low == {x \in at : x <= i}
  <2>1. i \in low /\ low \subseteq at
    OBVIOUS
  <2>2. IsFiniteSet(low) /\ Cardinality(low) \in Nat /\ Cardinality(low) <= Cardinality(at)
    BY <1>2, <2>1
  <2>3. Cardinality(low) # 0
    BY <2>1, <2>2, FS_EmptySet
  <2> QED
    BY <1>2, <2>2, <2>3 DEF Rank
<1> QED
  BY <1>1, <1>2, <1>3, <1>4

\* Nth enumerates the positions: from the first on, each once.
LEMMA NthEnumerates ==
  ASSUME NEW at \in SUBSET Nat, IsFiniteSet(at)
  PROVE  /\ Cardinality(at) \in Nat
         /\ \A k \in 1 .. Cardinality(at) : Nth(at, k) \in at
         /\ \A k, l \in 1 .. Cardinality(at) : k < l => Nth(at, k) < Nth(at, l)
         /\ \A i \in at : \E k \in 1 .. Cardinality(at) : Nth(at, k) = i
<1> DEFINE rank == [i \in at |-> Rank(at, i)]
           ranks == 1 .. Cardinality(at)
<1>1. IsFiniteSet(at) /\ Cardinality(at) \in Nat
  BY RankIncreases
<1>2. rank \in [at -> ranks]
  BY RankIncreases
<1>3. rank \in Injection(at, ranks)
  <2>1. \A i, j \in at : i # j => rank[i] # rank[j]
    <3> SUFFICES ASSUME NEW i \in at, NEW j \in at, i # j
                 PROVE  rank[i] # rank[j]
      OBVIOUS
    <3>1. i < j \/ j < i
      OBVIOUS
    <3>2. rank[i] \in Nat /\ rank[j] \in Nat
      BY <1>1, <1>2
    <3>3. rank[i] < rank[j] \/ rank[j] < rank[i]
      <4>1. Rank(at, i) < Rank(at, j) \/ Rank(at, j) < Rank(at, i)
        BY <3>1, RankIncreases
      <4> QED
        BY <4>1
    <3> QED
      BY <3>2, <3>3
  <2> QED
    BY <1>2, <2>1 DEF Injection, IsInjective
<1>4. IsFiniteSet(ranks) /\ Cardinality(ranks) = Cardinality(at)
  BY <1>1, FS_Interval
<1>5. rank \in Surjection(at, ranks)
  BY <1>1, <1>3, <1>4, FS_Injection
<1>6. \A k \in ranks : \E i \in at : rank[i] = k
  BY <1>5 DEF Surjection
<1>7. \A k \in ranks : Nth(at, k) \in at /\ Rank(at, Nth(at, k)) = k
  BY <1>6 DEF Nth, Rank
<1>8. \A i \in at : Nth(at, Rank(at, i)) = i
  <2> SUFFICES ASSUME NEW i \in at
               PROVE  Nth(at, Rank(at, i)) = i
    OBVIOUS
  <2>1. rank[i] \in ranks
    BY <1>2
  <2>2. Nth(at, rank[i]) \in at /\ rank[Nth(at, rank[i])] = rank[i]
    BY <1>7, <2>1
  <2> QED
    BY <1>3, <2>2 DEF Injection, IsInjective
<1>9. ASSUME NEW k \in ranks, NEW l \in ranks, k < l
      PROVE  Nth(at, k) < Nth(at, l)
  <2>1. Nth(at, k) \in Nat /\ Nth(at, l) \in Nat
    BY <1>7
  <2>2. CASE Nth(at, k) = Nth(at, l)
    BY <1>1, <1>7, <1>9, <2>2
  <2>3. CASE Nth(at, l) < Nth(at, k)
    <3>1. Rank(at, Nth(at, l)) < Rank(at, Nth(at, k))
      BY <1>7, <2>3, RankIncreases
    <3> QED
      BY <1>1, <1>7, <1>9, <3>1
  <2> QED
    BY <2>1, <2>2, <2>3
<1>10. \A i \in at : Rank(at, i) \in ranks
  BY <1>2
<1> QED
  BY <1>1, <1>7, <1>8, <1>9, <1>10

\* The elements kept are those at the positions, and a sequence of the same type.
LEMMA ElementsAtProperties ==
  ASSUME NEW S, NEW s \in Seq(S), NEW at \in SUBSET DOMAIN s
  PROVE  /\ Cardinality(at) \in Nat
         /\ ElementsAt(s, at) \in Seq(S)
         /\ Len(ElementsAt(s, at)) = Cardinality(at)
         /\ \A k \in 1 .. Cardinality(at) : Nth(at, k) \in at /\ ElementsAt(s, at)[k] = s[Nth(at, k)]
         /\ \A k, l \in 1 .. Cardinality(at) : k < l => Nth(at, k) < Nth(at, l)
         /\ \A i \in at : \E k \in 1 .. Cardinality(at) : ElementsAt(s, at)[k] = s[i]
<1>1. Len(s) \in Nat /\ DOMAIN s = 1 .. Len(s) /\ \A i \in DOMAIN s : s[i] \in S
  OBVIOUS
<1> DEFINE size == Cardinality(at)
           kept == ElementsAt(s, at)
<1>6. at \in SUBSET Nat /\ IsFiniteSet(at)
  <2>1. PICK n \in Nat : n = Len(s)
    BY <1>1
  <2>2. IsFiniteSet(1 .. n)
    BY FS_Interval
  <2> QED
    BY <1>1, <2>1, <2>2, FS_Subset
<1>2. /\ size \in Nat
      /\ \A k \in 1 .. size : Nth(at, k) \in at
      /\ \A k, l \in 1 .. size : k < l => Nth(at, k) < Nth(at, l)
      /\ \A i \in at : \E k \in 1 .. size : Nth(at, k) = i
  BY <1>6, NthEnumerates
<1>3. kept = [k \in 1 .. size |-> s[Nth(at, k)]]
  BY DEF ElementsAt
<1>4. \A k \in 1 .. size : s[Nth(at, k)] \in S
  BY <1>1, <1>2
<1>5. kept \in Seq(S) /\ Len(kept) = size
  <2> HIDE DEF size, kept
  <2> QED BY <1>2, <1>3, <1>4
<1> QED
  BY <1>2, <1>3, <1>5

-------------------------------------------------------------------------------
(* Lists of sets *)

\* The list of a finite set has its elements.
LEMMA ListedElements ==
  ASSUME NEW S, IsFiniteSet(S)
  PROVE  SetToSeq(S) \in Seq(S) /\ ToSet(SetToSeq(S)) = S
<1>1. PICK n \in Nat : n = Cardinality(S)
  BY FS_CardinalityType
<1>2. IsFiniteSet(1 .. n) /\ Cardinality(1 .. n) = n
  BY FS_Interval
<1>3. \E f \in [1 .. n -> S] : IsInjective(f)
  <2>1. ExistsBijection(1 .. n, S)
    BY <1>1, FS_CardinalityType
  <2> QED
    BY <2>1 DEF ExistsBijection, Bijection, Injection
<1>4. PICK list : list = SetToSeq(S)
  OBVIOUS
<1>5. list \in [1 .. n -> S] /\ IsInjective(list)
  BY <1>1, <1>3, <1>4 DEF SetToSeq
<1>6. list \in Injection(1 .. n, S)
  BY <1>5 DEF Injection
<1>7. list \in Surjection(1 .. n, S)
  BY <1>1, <1>2, <1>6, FS_Injection
<1>8. \A x \in S : \E i \in 1 .. n : list[i] = x
  BY <1>7 DEF Surjection
<1> QED
  BY <1>4, <1>5, <1>8 DEF ToSet

\* splice(indexOf(x), 1) takes nothing but x away, and all of it where s has no duplicates.
LEMMA SplicedProperties ==
  ASSUME NEW S, NEW s \in Seq(S), NEW x
  PROVE  /\ Spliced(s, x) \in Seq(S) /\ Len(Spliced(s, x)) <= Len(s)
         /\ ToSet(Spliced(s, x)) \subseteq ToSet(s)
         /\ \A y \in ToSet(s) : y # x => y \in ToSet(Spliced(s, x))
         /\ IsInjective(s) =>
              IsInjective(Spliced(s, x)) /\ ToSet(Spliced(s, x)) = ToSet(s) \ {x}
<1>1. PICK at : at = {i \in DOMAIN s : s[i] = x => \E j \in 1 .. i - 1 : s[j] = x}
  OBVIOUS
<1>2. PICK out : out = ElementsAt(s, at)
  OBVIOUS
<1>3. at \in SUBSET DOMAIN s /\ out = Spliced(s, x)
  BY <1>1, <1>2 DEF Spliced
<1>4. PICK size \in Nat : size = Cardinality(at)
  BY <1>3, ElementsAtProperties
<1>5. /\ out \in Seq(S) /\ Len(out) = size
      /\ \A k \in 1 .. size : Nth(at, k) \in at /\ out[k] = s[Nth(at, k)]
      /\ \A k, l \in 1 .. size : k < l => Nth(at, k) < Nth(at, l)
      /\ \A i \in at : \E k \in 1 .. size : out[k] = s[i]
  <2>1. /\ ElementsAt(s, at) \in Seq(S) /\ Len(ElementsAt(s, at)) = Cardinality(at)
        /\ \A k \in 1 .. Cardinality(at) : Nth(at, k) \in at /\ ElementsAt(s, at)[k] = s[Nth(at, k)]
        /\ \A k, l \in 1 .. Cardinality(at) : k < l => Nth(at, k) < Nth(at, l)
        /\ \A i \in at : \E k \in 1 .. Cardinality(at) : ElementsAt(s, at)[k] = s[i]
    BY <1>3, ElementsAtProperties
  <2> QED
    BY <1>2, <1>4, <2>1
<1>6. DOMAIN out = 1 .. size /\ DOMAIN s = 1 .. Len(s) /\ Len(s) \in Nat
  BY <1>5, LenProperties
<1>7. size <= Len(s)
  <2>1. PICK n \in Nat : n = Len(s)
    BY <1>6
  <2>2. IsFiniteSet(1 .. n) /\ Cardinality(1 .. n) = n
    BY FS_Interval
  <2> QED
    BY <1>3, <1>4, <1>6, <2>1, <2>2, FS_Subset
<1>8. ToSet(out) = {s[i] : i \in at}
  <2>1. \A k \in 1 .. size : out[k] \in {s[i] : i \in at}
    BY <1>5
  <2>2. \A i \in at : s[i] \in {out[k] : k \in 1 .. size}
    <3> SUFFICES ASSUME NEW i \in at PROVE s[i] \in {out[k] : k \in 1 .. size}
      OBVIOUS
    <3>1. PICK k \in 1 .. size : out[k] = s[i]
      BY <1>5
    <3> QED
      BY <3>1
  <2> QED
    BY <1>6, <2>1, <2>2 DEF ToSet
<1>9. \A y \in ToSet(s) : y # x => y \in ToSet(out)
  <2> SUFFICES ASSUME NEW i \in DOMAIN s, s[i] # x PROVE s[i] \in ToSet(out)
    BY DEF ToSet
  <2> QED
    BY <1>1, <1>8
<1>10. ASSUME IsInjective(s)
       PROVE  IsInjective(out) /\ ToSet(out) = ToSet(s) \ {x}
  <2>1. ASSUME NEW k \in DOMAIN out, NEW l \in DOMAIN out, out[k] = out[l] PROVE k = l
    <3>1. Nth(at, k) \in DOMAIN s /\ Nth(at, l) \in DOMAIN s /\ s[Nth(at, k)] = s[Nth(at, l)]
      BY <1>3, <1>5, <1>6, <2>1
    <3>2. Nth(at, k) = Nth(at, l)
      BY <1>10, <3>1 DEF IsInjective
    <3> QED
      BY <1>5, <1>6, <3>1, <3>2
  <2>2. \A i \in at : s[i] # x
    <3> SUFFICES ASSUME NEW i \in at, s[i] = x PROVE FALSE
      OBVIOUS
    <3>1. PICK j \in 1 .. i - 1 : s[j] = x
      BY <1>1
    <3>2. j \in DOMAIN s /\ i \in DOMAIN s /\ i # j
      BY <1>3, <1>6
    <3> QED
      BY <1>10, <3>1, <3>2 DEF IsInjective
  <2>3. ToSet(out) \subseteq ToSet(s)
    BY <1>3, <1>8 DEF ToSet
  <2> QED
    BY <1>8, <1>9, <2>1, <2>2, <2>3 DEF IsInjective
<1>11. ToSet(out) \subseteq ToSet(s)
  BY <1>3, <1>8 DEF ToSet
<1> QED
  BY <1>3, <1>5, <1>7, <1>9, <1>10, <1>11

-------------------------------------------------------------------------------
(* Natural numbers *)

\* A set of numbers has a least one: the intervals below its members are well-founded by
\* inclusion.
LEMMA LeastNatural ==
  ASSUME NEW T \in SUBSET Nat, T # {}
  PROVE  \E m \in T : \A n \in T : m <= n
<1>1. PICK order, fin : order = StrictSubsetOrdering(Nat) /\ fin = FiniteSubsetsOf(Nat)
  OBVIOUS
<1>2. IsWellFoundedOn(order, fin)
  BY <1>1, FS_StrictSubsetOrderingWellFounded
<1>3. PICK initials : initials = {1 .. n : n \in T}
  OBVIOUS
<1>4. initials \subseteq fin /\ initials # {}
  <2>1. \A n \in T : IsFiniteSet(1 .. n) /\ 1 .. n \in SUBSET Nat
    BY FS_Interval
  <2> QED
    BY <1>1, <1>3, <2>1 DEF FiniteSubsetsOf
<1>5. PICK x \in initials : \A y \in initials : ~ (<< y, x >> \in order)
  BY <1>2, <1>4, WFMin
<1>6. PICK m \in T : x = 1 .. m
  BY <1>3
<1>7. ASSUME NEW n \in T, n < m PROVE FALSE
  <2>1. 1 .. n \subseteq 1 .. m /\ m \in 1 .. m /\ m \notin 1 .. n
    BY <1>7
  <2>2. << 1 .. n, 1 .. m >> \in order
    BY <1>1, <2>1 DEF StrictSubsetOrdering
  <2> QED
    BY <1>3, <1>5, <1>6, <2>2
<1> QED
  BY <1>7

\* And so what 0 is and the successor of each that is, all are.
LEMMA Induction ==
  ASSUME NEW S \in SUBSET Nat, 0 \in S, \A n \in S : n + 1 \in S
  PROVE  S = Nat
<1>1. SUFFICES ASSUME Nat \ S # {} PROVE FALSE
  OBVIOUS
<1>2. PICK m \in Nat \ S : \A n \in Nat \ S : m <= n
  BY <1>1, LeastNatural
<1>3. m # 0 /\ m - 1 \in Nat
  BY <1>2
<1>4. m - 1 \in S
  BY <1>2, <1>3
<1> QED
  BY <1>2, <1>3, <1>4

\* What a sequence starts in and no step leaves, it stays in.
LEMMA StaysIn ==
  ASSUME NEW V, NEW n \in Nat, NEW m, m[0] \in V, \A i \in 1 .. n : m[i - 1] \in V => m[i] \in V
  PROVE  \A i \in 0 .. n : m[i] \in V
<1>1. PICK S \in SUBSET Nat : S = {k \in Nat : k <= n => m[k] \in V}
  OBVIOUS
<1>2. 0 \in S
  BY <1>1
<1>3. ASSUME NEW k \in S PROVE k + 1 \in S
  <2> SUFFICES ASSUME k + 1 <= n PROVE m[k + 1] \in V
    BY <1>1
  <2>1. k + 1 \in 1 .. n /\ (k + 1) - 1 = k /\ m[k] \in V
    BY <1>1
  <2> QED
    BY <2>1
<1>4. S = Nat
  BY <1>2, <1>3, Induction
<1> QED
  BY <1>1, <1>4

\* The recursive function f[0] == start, f[i] == step[i][f[i - 1]], and that it exists.
Steps(V, n) == [1 .. n -> [V -> V]]
Follows(f, V, start, n, step) ==
  f \in [0 .. n -> V] /\ f[0] = start /\ \A i \in 1 .. n : f[i] = step[i][f[i - 1]]

LEMMA RecursionExists ==
  ASSUME NEW V, NEW start \in V, NEW n \in Nat, NEW step \in Steps(V, n)
  PROVE  \E f : Follows(f, V, start, n, step)
<1> DEFINE Runs(f, k) == /\ f \in [0 .. k -> V] /\ f[0] = start
                         /\ \A i \in 1 .. k : f[i] = step[i][f[i - 1]]
<1> USE DEF Steps
<1>1. PICK S \in SUBSET Nat : S = {k \in Nat : k <= n => \E f : Runs(f, k)}
  OBVIOUS
<1>2. 0 \in S
  <2>1. Runs([i \in 0 .. 0 |-> start], 0)
    OBVIOUS
  <2> QED
    BY <1>1, <2>1
<1>3. ASSUME NEW k \in S PROVE k + 1 \in S
  <2> SUFFICES ASSUME k + 1 <= n PROVE \E f : Runs(f, k + 1)
    BY <1>1
  <2>1. PICK f : Runs(f, k)
    BY <1>1
  <2>2. PICK g : g = [i \in 0 .. k + 1 |-> IF i <= k THEN f[i] ELSE step[k + 1][f[k]]]
    OBVIOUS
  <2>3. k \in Nat /\ f[k] \in V /\ step[k + 1][f[k]] \in V
    <3>1. k \in Nat /\ k + 1 \in 1 .. n /\ k \in 0 .. k
      OBVIOUS
    <3>2. f[k] \in V
      BY <2>1, <3>1
    <3> QED
      BY <3>1, <3>2
  <2>4. g \in [0 .. k + 1 -> V] /\ g[0] = start
    BY <2>1, <2>2, <2>3
  <2>5. ASSUME NEW i \in 1 .. k + 1 PROVE g[i] = step[i][g[i - 1]]
    <3>1. i - 1 \in 0 .. k /\ g[i - 1] = f[i - 1]
      BY <2>2, <2>3
    <3>2. CASE i <= k
      BY <2>1, <2>2, <2>3, <3>1, <3>2
    <3>3. CASE ~ i <= k
      <4>1. i = k + 1 /\ i - 1 = k
        BY <2>3, <3>3
      <4>2. g[i] = step[k + 1][f[k]]
        BY <2>2, <2>3, <3>3
      <4> QED
        BY <3>1, <4>1, <4>2
    <3> QED
      BY <3>2, <3>3
  <2> QED
    BY <2>4, <2>5
<1>4. S = Nat
  <2> HIDE DEF Runs
  <2> QED BY <1>2, <1>3, Induction
<1>5. n \in S /\ n <= n
  BY <1>4
<1>6. PICK f : Runs(f, n)
  BY <1>1, <1>5
<1> QED
  BY <1>6 DEF Follows
=============================================================================
