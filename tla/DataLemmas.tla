----------------------------- MODULE DataLemmas -----------------------------
(***************************************************************************)
(* Facts about data that the proofs have in common: what sending, receiving*)
(* and removing an element change of a sequence, least elements, and the   *)
(* sums of MapThenSumSet.                                                  *)
(***************************************************************************)
EXTENDS Integers, SequencesExt, SequenceTheorems, FiniteSetTheorems, WellFoundedInduction, TLAPS
-----------------------------------------------------------------------------
(* Sequences *)

\* What is left after a receive was already in the channel, in the same order.
LEMMA TailFacts ==
  ASSUME NEW S, NEW s \in Seq(S), s # <<>>
  PROVE  /\ 1 \in DOMAIN s /\ Head(s) = s[1] /\ Head(s) \in S
         /\ Tail(s) \in Seq(S)
         /\ \A i \in DOMAIN Tail(s) :
              i \in Nat /\ i + 1 \in DOMAIN s /\ Tail(s)[i] = s[i + 1]
BY HeadTailProperties, LenProperties, EmptySeq

\* A send adds its message behind those that are already in the channel.
LEMMA AppendFacts ==
  ASSUME NEW S, NEW s \in Seq(S), NEW e \in S
  PROVE  /\ Append(s, e) \in Seq(S)
         /\ \A i \in DOMAIN Append(s, e) :
              i \in Nat /\ (\/ i \in DOMAIN s /\ Append(s, e)[i] = s[i]
                            \/ /\ i \notin DOMAIN s /\ Append(s, e)[i] = e
                               /\ \A j \in DOMAIN s : j < i)
BY AppendProperties, LenProperties

\* Every element but the first is still there after a receive.
LEMMA TailKeeps ==
  ASSUME NEW S, NEW s \in Seq(S), s # <<>>, NEW i \in DOMAIN s, i # 1
  PROVE  i - 1 \in DOMAIN Tail(s) /\ Tail(s)[i - 1] = s[i]
BY HeadTailProperties, LenProperties, EmptySeq

\* Every element is still there after a send, and so is the one that was sent.
LEMMA AppendKeeps ==
  ASSUME NEW S, NEW s \in Seq(S), NEW e \in S
  PROVE  /\ \A i \in DOMAIN s : i \in DOMAIN Append(s, e) /\ Append(s, e)[i] = s[i]
         /\ \E i \in DOMAIN Append(s, e) : Append(s, e)[i] = e
BY AppendProperties, LenProperties

\* Removing position k shifts what is behind it and leaves the rest alone.
LEMMA RemoveFacts ==
  ASSUME NEW S, NEW s \in Seq(S), NEW k \in DOMAIN s
  PROVE  /\ RemoveAt(s, k) \in Seq(S)
         /\ DOMAIN RemoveAt(s, k) = 1..(Len(s) - 1)
         /\ \A i \in DOMAIN RemoveAt(s, k) :
              RemoveAt(s, k)[i] = IF i < k THEN s[i] ELSE s[i + 1]
<1> DEFINE before == SubSeq(s, 1, k - 1)
           behind == SubSeq(s, k + 1, Len(s))
<1>1. k \in 1..Len(s) /\ Len(s) \in Nat /\ \A i \in 1..Len(s) : s[i] \in S
  BY LenProperties, ElementOfSeq
<1>2. /\ before \in Seq(S) /\ Len(before) = k - 1
      /\ \A i \in 1..(k - 1) : before[i] = s[i]
  BY <1>1, SubSeqProperties
<1>3. /\ behind \in Seq(S) /\ Len(behind) = Len(s) - k
      /\ \A i \in 1..(Len(s) - k) : behind[i] = s[k + i]
  BY <1>1, SubSeqProperties
<1>4. RemoveAt(s, k) = before \o behind
  BY DEF RemoveAt
<1> HIDE DEF before, behind
<1>5. /\ before \o behind \in Seq(S)
      /\ Len(before \o behind) = Len(s) - 1
      /\ \A i \in 1..(Len(s) - 1) :
           (before \o behind)[i] = IF i <= k - 1 THEN before[i] ELSE behind[i - (k - 1)]
  <2>1. /\ before \o behind \in Seq(S)
        /\ Len(before \o behind) = Len(before) + Len(behind)
        /\ \A i \in 1..(Len(before) + Len(behind)) :
             (before \o behind)[i] =
               IF i <= Len(before) THEN before[i] ELSE behind[i - Len(before)]
    BY <1>2, <1>3, ConcatProperties, Zenon
  <2>2. Len(before) + Len(behind) = Len(s) - 1
    BY <1>1, <1>2, <1>3
  <2> QED
    BY <2>1, <2>2, <1>2
<1>6. DOMAIN (before \o behind) = 1..(Len(s) - 1)
  BY <1>5, LenProperties
<1>7. ASSUME NEW i \in 1..(Len(s) - 1)
      PROVE  (before \o behind)[i] = IF i < k THEN s[i] ELSE s[i + 1]
  <2>1. CASE i < k
    BY <2>1, <1>1, <1>2, <1>5
  <2>2. CASE ~(i < k)
    <3>1. i - (k - 1) \in 1..(Len(s) - k) /\ k + (i - (k - 1)) = i + 1
      BY <2>2, <1>1
    <3> QED
      BY <3>1, <2>2, <1>1, <1>3, <1>5
  <2> QED
    BY <2>1, <2>2
<1> QED
  BY <1>4, <1>5, <1>6, <1>7

\* Every element but the one at k is still there after its removal.
LEMMA RemoveKeeps ==
  ASSUME NEW S, NEW s \in Seq(S), NEW k \in DOMAIN s, NEW i \in DOMAIN s, i # k
  PROVE  \E j \in DOMAIN RemoveAt(s, k) : RemoveAt(s, k)[j] = s[i]
<1>1. k \in 1..Len(s) /\ i \in 1..Len(s) /\ Len(s) \in Nat
  BY LenProperties
<1>2. CASE i < k
  BY <1>1, <1>2, RemoveFacts
<1>3. CASE i > k
  <2>1. i - 1 \in DOMAIN RemoveAt(s, k) /\ RemoveAt(s, k)[i - 1] = s[(i - 1) + 1]
    BY <1>1, <1>3, RemoveFacts
  <2> QED
    BY <2>1, <1>1
<1> QED
  BY <1>1, <1>2, <1>3

\* A sequence without repetitions stays so when a new element is sent.
LEMMA AppendInjects ==
  ASSUME NEW S, NEW s \in Seq(S), NEW e \in S,
         IsInjective(s), \A i \in DOMAIN s : s[i] # e
  PROVE  IsInjective(Append(s, e))
<1>1. /\ Len(s) \in Nat /\ DOMAIN s = 1..Len(s)
      /\ DOMAIN Append(s, e) = 1..(Len(s) + 1)
      /\ \A i \in 1..Len(s) : Append(s, e)[i] = s[i]
      /\ Append(s, e)[Len(s) + 1] = e
  BY AppendProperties, LenProperties
<1>2. \A i \in DOMAIN Append(s, e) : i \in DOMAIN s \/ i = Len(s) + 1
  BY <1>1
<1> QED
  BY <1>1, <1>2 DEF IsInjective

\* The same of a receive; what was received is not received again.
LEMMA TailInjects ==
  ASSUME NEW S, NEW s \in Seq(S), s # <<>>, IsInjective(s)
  PROVE  /\ IsInjective(Tail(s))
         /\ \A i \in DOMAIN Tail(s) : Tail(s)[i] # Head(s)
<1>1. /\ 1 \in DOMAIN s /\ Head(s) = s[1]
      /\ \A i \in DOMAIN Tail(s) : i + 1 \in DOMAIN s /\ Tail(s)[i] = s[i + 1]
  BY TailFacts
<1>2. \A i \in DOMAIN Tail(s) : i \in Nat /\ i > 0
  BY HeadTailProperties, LenProperties, EmptySeq
<1> QED
  BY <1>1, <1>2 DEF IsInjective

\* The same of a removal.
LEMMA RemoveInjects ==
  ASSUME NEW S, NEW s \in Seq(S), NEW k \in DOMAIN s, IsInjective(s)
  PROVE  IsInjective(RemoveAt(s, k))
<1> DEFINE at(i) == IF i < k THEN i ELSE i + 1
<1>1. k \in 1..Len(s) /\ DOMAIN s = 1..Len(s) /\ Len(s) \in Nat
  BY LenProperties
<1>2. ASSUME NEW i \in DOMAIN RemoveAt(s, k)
      PROVE  i \in Nat /\ at(i) \in DOMAIN s /\ RemoveAt(s, k)[i] = s[at(i)]
  BY <1>1, <1>2, RemoveFacts
<1>3. ASSUME NEW i \in Nat, NEW j \in Nat, at(i) = at(j) PROVE i = j
  BY <1>1, <1>3
<1> QED
  BY <1>2, <1>3 DEF IsInjective

\* What is in a sequence after a removal was in it before.
LEMMA RemoveOnlyDrops ==
  ASSUME NEW S, NEW s \in Seq(S), NEW k \in DOMAIN s, NEW i \in DOMAIN RemoveAt(s, k)
  PROVE  \E j \in DOMAIN s : s[j] = RemoveAt(s, k)[i]
<1>1. k \in 1..Len(s) /\ DOMAIN s = 1..Len(s) /\ Len(s) \in Nat
  BY LenProperties
<1>2. i \in 1..(Len(s) - 1)
  BY RemoveFacts
<1>3. RemoveAt(s, k)[i] = IF i < k THEN s[i] ELSE s[i + 1]
  BY RemoveFacts
<1> QED
  BY <1>1, <1>2, <1>3
-----------------------------------------------------------------------------
(* Least elements: what stands in for induction, by a least counterexample *)

\* Pairs of naturals in their order.
Smaller == {p \in Nat \X Nat : p[1] < p[2]}

\* A set of naturals has a least element.
LEMMA LeastNatural ==
  ASSUME NEW T, T \subseteq Nat, T # {}
  PROVE  \E n \in T : \A m \in T : n <= m
<1>1. IsWellFoundedOn(Smaller, Nat)
  BY NatLessThanWellFounded DEF OpToRel, Smaller
<1>2. \E x \in T : \A y \in T : <<y, x>> \notin Smaller
  BY <1>1, WFMin
<1>3. ASSUME NEW n \in Nat, NEW m \in Nat, n < m PROVE <<n, m>> \in Smaller
  <2>1. <<n, m>> \in Nat \X Nat
    OBVIOUS
  <2>2. <<n, m>>[1] < <<n, m>>[2]
    BY <1>3
  <2> HIDE <1>3
  <2> QED
    BY <2>1, <2>2, Zenon DEF Smaller
<1>4. ASSUME NEW n \in T, NEW m \in T, <<m, n>> \notin Smaller PROVE n <= m
  BY <1>3, <1>4
<1> QED
  BY <1>2, <1>4

\* The same of the operator Min.
LEMMA MinFacts ==
  ASSUME NEW T, T \subseteq Nat, T # {}
  PROVE  Min(T) \in T /\ \A m \in T : Min(T) <= m
BY LeastNatural DEF Min

\* Subsets of a finite set are finite, and smaller.
LEMMA SubsetSizes ==
  ASSUME NEW S, IsFiniteSet(S), NEW t \in SUBSET S
  PROVE  /\ IsFiniteSet(t) /\ Cardinality(t) \in Nat /\ Cardinality(t) <= Cardinality(S)
         /\ Cardinality(t) = 0 <=> t = {}
BY FS_Subset, FS_CardinalityType, FS_EmptySet

\* A set of subsets of a finite set has a minimal one.
LEMMA LeastSubset ==
  ASSUME NEW S, IsFiniteSet(S), NEW B, B \subseteq SUBSET S, B # {}
  PROVE  \E t \in B : \A u \in B : u \subseteq t => u = t
<1>1. \A t \in B : Cardinality(t) \in Nat /\ IsFiniteSet(t)
  BY SubsetSizes
<1> DEFINE sizes == {Cardinality(t) : t \in B}
<1>2. sizes \subseteq Nat /\ sizes # {}
  BY <1>1
<1>3. \A t \in B : Cardinality(t) \in sizes
  OBVIOUS
<1>4. \A n \in sizes : \E t \in B : Cardinality(t) = n
  OBVIOUS
<1> HIDE DEF sizes
<1>5. PICK n \in sizes : \A m \in sizes : n <= m
  BY <1>2, LeastNatural
<1>6. PICK t \in B : Cardinality(t) = n
  BY <1>4
<1>7. ASSUME NEW u \in B, u \subseteq t PROVE u = t
  <2>1. Cardinality(u) <= Cardinality(t) /\ (Cardinality(u) = Cardinality(t) => u = t)
    BY <1>1, <1>7, FS_Subset
  <2>2. Cardinality(t) <= Cardinality(u)
    BY <1>3, <1>5, <1>6
  <2> QED
    BY <1>1, <2>1, <2>2
<1> QED
  BY <1>7
-----------------------------------------------------------------------------
(* Sums *)

\* The sum of f over S, and the element that is added first.
SumOver(f, S) == MapThenSumSet(LAMBDA s : f[s], S)
First(S) == CHOOSE x \in S : TRUE

\* g is what MapThenFoldSet computes on the sets of D.
Accumulates(g, f, D) ==
  g = [s \in D |-> IF s = {} THEN 0 ELSE f[First(s)] + g[s \ {First(s)}]]

\* First is an element, and the rest a smaller set.
LEMMA FirstFacts ==
  ASSUME NEW s, s # {}
  PROVE  First(s) \in s /\ s \ {First(s)} \subseteq s /\ s \ {First(s)} # s
<1>1. First(s) \in s
  BY DEF First
<1> QED
  BY <1>1

\* The recursion of MapThenFoldSet has a solution: by induction on the size of
\* the sets it is asked for.
LEMMA SumExists ==
  ASSUME NEW f, NEW S, IsFiniteSet(S)
  PROVE  \E g : Accumulates(g, f, SUBSET S)
<1> DEFINE Upto(n) == {t \in SUBSET S : Cardinality(t) <= n}
           Good(n) == \E g : Accumulates(g, f, Upto(n))
           Bad == {n \in Nat : ~Good(n)}
<1>1. Good(0)
  <2>1. Accumulates([s \in Upto(0) |-> 0], f, Upto(0))
    BY SubsetSizes DEF Accumulates
  <2> QED
    BY <2>1
<1>2. ASSUME NEW n \in Nat, Good(n) PROVE Good(n + 1)
  <2> PICK g : Accumulates(g, f, Upto(n))
    BY <1>2
  <2> DEFINE h == [s \in Upto(n + 1) |-> IF s = {} THEN 0 ELSE f[First(s)] + g[s \ {First(s)}]]
  <2>1. ASSUME NEW s \in Upto(n + 1), s # {}
        PROVE  s \ {First(s)} \in Upto(n)
    BY <2>1, SubsetSizes, FirstFacts, FS_RemoveElement
  <2>2. \A s \in Upto(n) : s \in Upto(n + 1)
    BY SubsetSizes
  <2> HIDE DEF Upto
  <2>3. ASSUME NEW s \in Upto(n) PROVE h[s] = g[s]
    BY <2>2 DEF Accumulates
  <2>4. h = [s \in Upto(n + 1) |-> IF s = {} THEN 0 ELSE f[First(s)] + h[s \ {First(s)}]]
    BY <2>1, <2>3
  <2> QED
    BY <2>4 DEF Accumulates
<1> HIDE DEF Good
<1>3. ASSUME Bad # {} PROVE FALSE
  <2>1. PICK n \in Bad : \A m \in Bad : n <= m
    BY <1>3, LeastNatural
  <2>2. n # 0 /\ n \in Nat
    BY <2>1, <1>1
  <2>3. Good(n - 1)
    BY <2>1, <2>2
  <2> QED
    BY <1>2, <2>1, <2>2, <2>3
<1>4. Upto(Cardinality(S)) = SUBSET S /\ Cardinality(S) \in Nat
  BY SubsetSizes
<1> QED
  BY <1>3, <1>4 DEF Good

\* And one only, whatever larger set it was computed for.
LEMMA SumUnique ==
  ASSUME NEW f, NEW S, IsFiniteSet(S), NEW T \in SUBSET S, NEW g, NEW h,
         Accumulates(g, f, SUBSET S), Accumulates(h, f, SUBSET T)
  PROVE  g[T] = h[T]
<1> DEFINE B == {s \in SUBSET T : g[s] # h[s]}
<1>1. B \subseteq SUBSET S
  OBVIOUS
<1>2. ASSUME B # {} PROVE FALSE
  <2> HIDE DEF B
  <2>1. PICK s \in B : \A u \in B : u \subseteq s => u = s
    BY <1>1, <1>2, LeastSubset
  <2> USE DEF B
  <2>2. s # {}
    BY <2>1 DEF Accumulates
  <2>3. First(s) \in s /\ s \ {First(s)} \in SUBSET T /\ s \ {First(s)} # s
    BY <2>1, <2>2, FirstFacts
  <2>4. g[s \ {First(s)}] = h[s \ {First(s)}]
    BY <2>1, <2>3
  <2>5. /\ g[s] = f[First(s)] + g[s \ {First(s)}]
        /\ h[s] = f[First(s)] + h[s \ {First(s)}]
    BY <2>1, <2>2 DEF Accumulates
  <2> QED
    BY <2>1, <2>4, <2>5
<1> QED
  BY <1>2

\* A sum, unfolded once.
LEMMA SumUnfolds ==
  ASSUME NEW f, NEW S, IsFiniteSet(S)
  PROVE  SumOver(f, S) = IF S = {} THEN 0 ELSE f[First(S)] + SumOver(f, S \ {First(S)})
<1> DEFINE sum(T) == CHOOSE g : Accumulates(g, f, SUBSET T)
           rest == S \ {First(S)}
<1>1. ASSUME NEW T, IsFiniteSet(T)
      PROVE  Accumulates(sum(T), f, SUBSET T) /\ SumOver(f, T) = sum(T)[T]
  <2>1. Accumulates(sum(T), f, SUBSET T)
    BY <1>1, SumExists
  <2>2. SumOver(f, T) = sum(T)[T]
    BY DEF SumOver, MapThenSumSet, MapThenFoldSet, Accumulates, First
  <2> QED
    BY <2>1, <2>2
<1>2. IsFiniteSet(rest) /\ rest \in SUBSET S
  BY SubsetSizes
<1> HIDE DEF rest
<1>3. sum(S)[rest] = sum(rest)[rest]
  <2> DEFINE g == sum(S)
             h == sum(rest)
  <2>1. Accumulates(g, f, SUBSET S) /\ Accumulates(h, f, SUBSET rest)
    BY <1>1, <1>2
  <2> HIDE DEF g, h
  <2>2. g[rest] = h[rest]
    BY <1>2, <2>1, SumUnique
  <2> QED
    BY <2>2 DEF g, h
<1> HIDE DEF sum
<1>4. sum(S)[S] = IF S = {} THEN 0 ELSE f[First(S)] + sum(S)[rest]
  BY <1>1 DEF Accumulates, rest
<1> QED
  BY <1>1, <1>2, <1>3, <1>4 DEF rest

\* Sums of naturals are naturals, and any element may be added last.
LEMMA SumRemoves ==
  ASSUME NEW S, IsFiniteSet(S), NEW f, \A s \in S : f[s] \in Nat
  PROVE  /\ SumOver(f, S) \in Nat
         /\ \A x \in S : SumOver(f, S) = f[x] + SumOver(f, S \ {x})
<1> DEFINE Right(t) == /\ SumOver(f, t) \in Nat
                       /\ \A x \in t : SumOver(f, t) = f[x] + SumOver(f, t \ {x})
           B == {t \in SUBSET S : ~Right(t)}
<1>1. B \subseteq SUBSET S
  OBVIOUS
<1>2. ASSUME B # {} PROVE FALSE
  <2> HIDE DEF B
  <2>1. PICK t \in B : \A u \in B : u \subseteq t => u = t
    BY <1>1, <1>2, LeastSubset
  <2>2. t \in SUBSET S /\ ~Right(t) /\ \A u \in SUBSET t : u # t => Right(u)
    BY <2>1 DEF B
  <2>3. \A u \in SUBSET t : IsFiniteSet(u)
    BY <2>2, SubsetSizes
  <2>4. t # {}
    <3>1. SumOver(f, {}) = 0
      BY SumUnfolds, FS_EmptySet
    <3>2. Right({})
      BY <3>1
    <3> HIDE DEF Right
    <3> QED
      BY <2>2, <3>2
  <2> DEFINE a == First(t)
  <2>5. a \in t /\ SumOver(f, t) = f[a] + SumOver(f, t \ {a})
    BY <2>3, <2>4, FirstFacts, SumUnfolds
  <2> HIDE DEF a
  <2>6. Right(t \ {a}) /\ f[a] \in Nat
    BY <2>2, <2>5
  <2>7. ASSUME NEW x \in t, x # a
        PROVE  SumOver(f, t) = f[x] + SumOver(f, t \ {x})
    <3>1. SumOver(f, t \ {a}) = f[x] + SumOver(f, (t \ {a}) \ {x})
      BY <2>6, <2>7
    <3>2. Right(t \ {x}) /\ a \in t \ {x} /\ f[x] \in Nat
      BY <2>2, <2>5, <2>7
    <3>3. SumOver(f, t \ {x}) = f[a] + SumOver(f, (t \ {x}) \ {a})
      BY <3>2
    <3>4. (t \ {a}) \ {x} = (t \ {x}) \ {a}
      OBVIOUS
    <3>5. Right((t \ {a}) \ {x})
      BY <2>2, <2>5
    <3> QED
      BY <2>5, <2>6, <3>1, <3>2, <3>3, <3>4, <3>5
  <2>8. SumOver(f, t) \in Nat
    BY <2>5, <2>6
  <2> QED
    BY <2>2, <2>5, <2>7, <2>8
<1>3. Right(S)
  BY <1>2
<1> QED
  BY <1>3

\* A sum of naturals over a smaller set is no larger.
LEMMA SumMonotone ==
  ASSUME NEW S, IsFiniteSet(S), NEW f, \A s \in S : f[s] \in Nat, NEW T \in SUBSET S
  PROVE  SumOver(f, T) <= SumOver(f, S)
<1> DEFINE B == {t \in SUBSET S : T \subseteq t /\ ~(SumOver(f, T) <= SumOver(f, t))}
<1>1. B \subseteq SUBSET S
  OBVIOUS
<1>2. ASSUME NEW t \in SUBSET S
      PROVE  /\ SumOver(f, t) \in Nat
             /\ \A x \in t : f[x] \in Nat /\ SumOver(f, t) = f[x] + SumOver(f, t \ {x})
  BY SubsetSizes, SumRemoves
<1>3. ASSUME B # {} PROVE FALSE
  <2> HIDE DEF B
  <2>1. PICK t \in B : \A u \in B : u \subseteq t => u = t
    BY <1>1, <1>3, LeastSubset
  <2> USE DEF B
  <2>2. t # T /\ t \in SUBSET S /\ T \subseteq t
    BY <1>2, <2>1
  <2>3. PICK x \in t : x \notin T
    BY <2>2
  <2>4. SumOver(f, T) <= SumOver(f, t \ {x})
    BY <2>1, <2>2, <2>3
  <2>5. /\ SumOver(f, t) = f[x] + SumOver(f, t \ {x}) /\ f[x] \in Nat
        /\ SumOver(f, t \ {x}) \in Nat /\ SumOver(f, T) \in Nat
    BY <1>2, <2>2
  <2> QED
    BY <2>1, <2>4, <2>5
<1> QED
  BY <1>3

\* Sums of functions that agree are the same.
LEMMA SumSame ==
  ASSUME NEW S, IsFiniteSet(S), NEW f, NEW g, \A s \in S : f[s] = g[s]
  PROVE  SumOver(f, S) = SumOver(g, S)
<1> DEFINE B == {t \in SUBSET S : SumOver(f, t) # SumOver(g, t)}
<1>1. B \subseteq SUBSET S
  OBVIOUS
<1>2. ASSUME B # {} PROVE FALSE
  <2> HIDE DEF B
  <2>1. PICK t \in B : \A u \in B : u \subseteq t => u = t
    BY <1>1, <1>2, LeastSubset
  <2> USE DEF B
  <2>2. IsFiniteSet(t) /\ t \in SUBSET S
    BY <2>1, SubsetSizes
  <2>3. t # {}
    BY <2>1, <2>2, SumUnfolds
  <2>4. First(t) \in t /\ t \ {First(t)} \notin B
    BY <2>1, <2>3, FirstFacts
  <2>5. SumOver(f, t \ {First(t)}) = SumOver(g, t \ {First(t)}) /\ f[First(t)] = g[First(t)]
    BY <2>2, <2>4
  <2> QED
    BY <2>1, <2>2, <2>3, <2>5, SumUnfolds
<1> QED
  BY <1>2
-----------------------------------------------------------------------------
(* Prefixes, and sequences given as functions *)

\* A bounded set of naturals has its maximum.
LEMMA MaxFacts ==
  ASSUME NEW n \in Nat, NEW T, T \subseteq 0..n, T # {}
  PROVE  Max(T) \in T
<1> DEFINE U == {n - x : x \in T}
<1>1. U \subseteq Nat /\ U # {}
  <2>1. \A x \in T : x \in 0..n /\ n - x \in Nat
    OBVIOUS
  <2> QED
    BY <2>1
<1>2. PICK u \in U : \A v \in U : u <= v
  BY <1>1, LeastNatural
<1>3. PICK x \in T : u = n - x
  BY <1>2
<1>4. \A y \in T : x >= y
  <2> TAKE y \in T
  <2>1. n - y \in U
    OBVIOUS
  <2> QED
    BY <1>2, <1>3, <2>1
<1> QED
  BY <1>3, <1>4 DEF Max

\* A function on an initial interval is a sequence of that length.
LEMMA FunctionIsSeq ==
  ASSUME NEW S, NEW n \in Nat, NEW f \in [1..n -> S]
  PROVE  f \in Seq(S) /\ Len(f) = n /\ DOMAIN f = 1..n
<1>1. f \in Seq(S)
  BY SeqDef
<1> QED
  BY <1>1, LenProperties

\* The first n elements.
LEMMA PrefixFacts ==
  ASSUME NEW S, NEW s \in Seq(S), NEW n \in 0..Len(s)
  PROVE  /\ SubSeq(s, 1, n) \in Seq(S) /\ Len(SubSeq(s, 1, n)) = n
         /\ DOMAIN SubSeq(s, 1, n) = 1..n
         /\ \A i \in 1..n : i \in DOMAIN s /\ SubSeq(s, 1, n)[i] = s[i]
<1>1. Len(s) \in Nat /\ DOMAIN s = 1..Len(s) /\ \A i \in 1..Len(s) : s[i] \in S
  BY LenProperties, ElementOfSeq
<1>2. \A i \in 1..n : s[i] \in S
  BY <1>1
<1>3. SubSeq(s, 1, n) \in Seq(S) /\ Len(SubSeq(s, 1, n)) = n
  BY <1>1, <1>2, SubSeqProperties
<1>4. \A i \in 1..n : SubSeq(s, 1, n)[i] = s[i]
  BY <1>1, <1>2, SubSeqProperties
<1> QED
  BY <1>1, <1>3, <1>4, LenProperties

\* Sequences that agree up to n have the same first n elements.
LEMMA SamePrefix ==
  ASSUME NEW S, NEW s \in Seq(S), NEW t \in Seq(S), NEW n \in Nat, n <= Len(s), n <= Len(t),
         \A i \in 1..n : s[i] = t[i]
  PROVE  SubSeq(s, 1, n) = SubSeq(t, 1, n)
<1>1. n \in 0..Len(s) /\ n \in 0..Len(t)
  BY LenProperties
<1>2. /\ SubSeq(s, 1, n) \in Seq(S) /\ Len(SubSeq(s, 1, n)) = n
      /\ \A i \in 1..n : SubSeq(s, 1, n)[i] = s[i]
  BY <1>1, PrefixFacts
<1>3. /\ SubSeq(t, 1, n) \in Seq(S) /\ Len(SubSeq(t, 1, n)) = n
      /\ \A i \in 1..n : SubSeq(t, 1, n)[i] = t[i]
  BY <1>1, PrefixFacts
<1> QED
  BY <1>2, <1>3, SeqEqual

\* The elements of a concatenation.
LEMMA JoinFacts ==
  ASSUME NEW S, NEW s \in Seq(S), NEW t \in Seq(S), NEW n, NEW k, n = Len(s), k = Len(t)
  PROVE  /\ s \o t \in Seq(S) /\ Len(s \o t) = n + k /\ DOMAIN (s \o t) = 1..(n + k)
         /\ n \in Nat /\ k \in Nat
         /\ \A i \in 1..n : (s \o t)[i] = s[i]
         /\ \A i \in 1..k : (s \o t)[n + i] = t[i]
<1>1. n \in Nat /\ k \in Nat
  BY LenProperties
<1>2. s \o t \in Seq(S) /\ Len(s \o t) = n + k
  BY ConcatProperties
<1>3. \A i \in 1..(n + k) : (s \o t)[i] = IF i <= n THEN s[i] ELSE t[i - n]
  BY ConcatProperties
<1>4. \A i \in 1..n : i \in 1..(n + k) /\ i <= n
  BY <1>1
<1>5. \A i \in 1..k : n + i \in 1..(n + k) /\ ~(n + i <= n) /\ (n + i) - n = i
  BY <1>1
<1>6. DOMAIN (s \o t) = 1..(n + k)
  BY <1>2, LenProperties
<1>7. \A i \in 1..n : (s \o t)[i] = s[i]
  BY <1>3, <1>4
<1>8. \A i \in 1..k : (s \o t)[n + i] = t[i]
  BY <1>3, <1>5
<1> QED
  BY <1>1, <1>2, <1>6, <1>7, <1>8

\* Removing an element by its value removes one position, if any.
LEMMA RemoveFirstFacts ==
  ASSUME NEW S, NEW s \in Seq(S), NEW e
  PROVE  \/ RemoveFirst(s, e) = s
         \/ \E k \in DOMAIN s : s[k] = e /\ RemoveFirst(s, e) = RemoveAt(s, k)
<1> DEFINE I == {i \in 1..Len(s) : s[i] = e}
<1>1. DOMAIN s = 1..Len(s) /\ Len(s) \in Nat
  BY LenProperties
<1>2. CASE \E i \in 1..Len(s) : s[i] = e
  <2>1. I \subseteq Nat /\ I # {}
    BY <1>1, <1>2
  <2>2. Min(I) \in I
    BY <2>1, MinFacts
  <2>3. SelectInSeq(s, LAMBDA v : v = e) = Min(I)
    BY <2>1 DEF SelectInSeq
  <2>4. RemoveFirst(s, e) = RemoveAt(s, Min(I))
    BY <1>2, <2>3 DEF RemoveFirst
  <2> QED
    BY <1>1, <2>2, <2>4
<1>3. CASE ~\E i \in 1..Len(s) : s[i] = e
  BY <1>3 DEF RemoveFirst
<1> QED
  BY <1>2, <1>3

\* What is left after a removal is in the order it was in.
LEMMA RemoveOrders ==
  ASSUME NEW S, NEW s \in Seq(S), NEW k \in DOMAIN s,
         NEW i \in DOMAIN RemoveAt(s, k), NEW j \in DOMAIN RemoveAt(s, k), i < j
  PROVE  \E a, b \in DOMAIN s : /\ s[a] = RemoveAt(s, k)[i]
                                /\ s[b] = RemoveAt(s, k)[j]
                                /\ a < b
<1>1. k \in 1..Len(s) /\ DOMAIN s = 1..Len(s) /\ Len(s) \in Nat
  BY LenProperties
<1>2. /\ i \in 1..(Len(s) - 1) /\ j \in 1..(Len(s) - 1)
      /\ RemoveAt(s, k)[i] = IF i < k THEN s[i] ELSE s[i + 1]
      /\ RemoveAt(s, k)[j] = IF j < k THEN s[j] ELSE s[j + 1]
  BY RemoveFacts
<1> DEFINE a == IF i < k THEN i ELSE i + 1
           b == IF j < k THEN j ELSE j + 1
<1>3. a \in DOMAIN s /\ b \in DOMAIN s /\ a < b
  BY <1>1, <1>2
<1>4. s[a] = RemoveAt(s, k)[i] /\ s[b] = RemoveAt(s, k)[j]
  BY <1>2
<1> QED
  BY <1>3, <1>4
=============================================================================
