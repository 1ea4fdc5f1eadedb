-------------------------- MODULE MixinTable_proofs --------------------------
(***************************************************************************)
(* What the mixin tables of MixinTable keep, for any devices, plugins,     *)
(* lists of mixins and bounds.                                             *)
(***************************************************************************)
EXTENDS MixinTable, DataLemmas

(* Tables *)

TableType == [table : Seq(Nat), built : Seq(EntryType)]

\* The layers of a table wrap each other (ChainIntact, of one table).
Chained(h) ==
  \A i \in DOMAIN h.table :
    /\ h.table[i] \in DOMAIN h.built
    /\ h.built[h.table[i]].below = SubSeq(h.table, 1, i - 1)
    /\ (h.built[h.table[i]].of = Base) = (i = 1)

\* What the releases of one entry are, in a table or out of it.
Drops(e, live) == IF live THEN e.drops = 0 ELSE e.drops <= 1 /\ (e.of \in devices => e.drops = 1)

\* What left the table was released once (ReleasedOnce, of one table).
Released(h) ==
  \A i \in DOMAIN h.built : h.built[i].of # Base => Drops(h.built[i], i \in ToSet(h.table))

Sane(h) == h \in TableType /\ Chained(h) /\ Released(h)

\* Whatever is in g's table is pending, or was in h's and is as it was there.
Descends(h, g) ==
  \A i \in ToSet(g.table) :
    \/ g.built[i].is = "pending"
    \/ i \in ToSet(h.table) /\ g.built[i] = h.built[i]

\* A table that did not change descends from itself.
LEMMA DescendsSelf == ASSUME NEW h PROVE Descends(h, h)
BY DEF Descends

\* Descent is transitive: one operation after another makes nothing settled.
LEMMA DescendsTwice ==
  ASSUME NEW f, NEW g, NEW h, Descends(f, g), Descends(g, h)
  PROVE  Descends(f, h)
BY DEF Descends

\* The empty table, in the forms the provers ask for.
LEMMA EmptyTable ==
  ASSUME NEW S
  PROVE  ToSet(<<>>) = {} /\ DOMAIN <<>> = {} /\ <<>> \in Seq(S) /\ Len(<<>>) = 0
BY EmptySeq DEF ToSet

\* What a sane table is made of.
LEMMA TableTypes ==
  ASSUME NEW h, Sane(h)
  PROVE  /\ h = [table |-> h.table, built |-> h.built]
         /\ h.table \in Seq(Nat) /\ Len(h.table) \in Nat /\ DOMAIN h.table = 1..Len(h.table)
         /\ h.built \in Seq(EntryType) /\ Len(h.built) \in Nat /\ DOMAIN h.built = 1..Len(h.built)
         /\ \A i \in DOMAIN h.table : h.table[i] \in DOMAIN h.built
         /\ \A i \in DOMAIN h.built : h.built[i] \in EntryType
BY LenProperties, ElementOfSeq DEF Sane, TableType, Chained

\* No entry is twice in a table: what lies below tells its position.
LEMMA TableOnce ==
  ASSUME NEW h, Sane(h)
  PROVE  IsInjective(h.table)
<1>1. ASSUME NEW i \in DOMAIN h.table PROVE Len(h.built[h.table[i]].below) = i - 1
  <2>1. h.built[h.table[i]].below = SubSeq(h.table, 1, i - 1)
    BY DEF Sane, Chained
  <2>2. i \in 1..Len(h.table) /\ i - 1 \in 0..Len(h.table)
    BY TableTypes
  <2> QED
    BY <2>1, <2>2, TableTypes, PrefixFacts
<1>2. \A i \in DOMAIN h.table : i \in Int
  BY TableTypes
<1> QED
  BY <1>1, <1>2 DEF IsInjective

\* invalidateEntry leaves the entry where it was in the stack.
LEMMA LeaveFacts ==
  ASSUME NEW e \in EntryType
  PROVE  /\ Leave(e) \in EntryType /\ Leave(e).of = e.of /\ Leave(e).below = e.below
         /\ Leave(e).drops = IF e.of \in devices THEN e.drops + 1 ELSE e.drops
<1> DEFINE is == IF e.is = "pending" THEN e.is ELSE "gone"
           drops == IF e.of \in devices THEN e.drops + 1 ELSE e.drops
<1>1. Leave(e) = [e EXCEPT !.inst = 0, !.is = is, !.drops = drops]
  BY DEF Leave
<1>2. is \in {"pending", "layer", "through", "failed", "gone"} /\ drops \in Nat
  BY DEF EntryType
<1>3. drops = IF e.of \in devices THEN e.drops + 1 ELSE e.drops
  OBVIOUS
<1> HIDE DEF is, drops
<1>4. [e EXCEPT !.inst = 0, !.is = is, !.drops = drops] \in EntryType
  BY <1>2 DEF EntryType
<1>5. /\ Leave(e).of = e.of /\ Leave(e).below = e.below /\ Leave(e).drops = drops
  BY <1>1 DEF EntryType
<1> QED
  BY <1>1, <1>3, <1>4, <1>5

\* Taking the upper entries off a table releases them, and nothing else.
LEMMA KeepSane ==
  ASSUME NEW h, Sane(h), NEW n \in 0..Len(h.table)
  PROVE  /\ Sane(Keep(h, n)) /\ Descends(h, Keep(h, n))
         /\ Keep(h, n).table = SubSeq(h.table, 1, n)
         /\ \A i \in 1..n : Keep(h, n).built[h.table[i]] = h.built[h.table[i]]
<1> DEFINE gone == {h.table[i] : i \in (n + 1)..Len(h.table)}
           t == SubSeq(h.table, 1, n)
           b == [i \in DOMAIN h.built |-> IF i \in gone THEN Leave(h.built[i]) ELSE h.built[i]]
           g == [table |-> t, built |-> b]
<1>1. Keep(h, n) = g /\ g.table = t /\ g.built = b
  BY DEF Keep
<1>2. /\ h.table \in Seq(Nat) /\ Len(h.table) \in Nat /\ DOMAIN h.table = 1..Len(h.table)
      /\ h.built \in Seq(EntryType) /\ Len(h.built) \in Nat /\ DOMAIN h.built = 1..Len(h.built)
      /\ \A i \in DOMAIN h.table : h.table[i] \in DOMAIN h.built
      /\ \A i \in DOMAIN h.built : h.built[i] \in EntryType
  BY TableTypes
<1>3. t \in Seq(Nat) /\ DOMAIN t = 1..n /\ \A i \in 1..n : i \in DOMAIN h.table /\ t[i] = h.table[i]
  BY <1>2, PrefixFacts
<1>4. b \in Seq(EntryType) /\ DOMAIN b = DOMAIN h.built
  <2>1. b \in [1..Len(h.built) -> EntryType]
    BY <1>2, LeaveFacts
  <2> QED
    BY <1>2, <2>1, FunctionIsSeq
<1>5. \A i \in 1..n : h.table[i] \notin gone
  BY <1>2, TableOnce DEF IsInjective
<1>6. \A i \in 1..n : b[h.table[i]] = h.built[h.table[i]]
  BY <1>2, <1>3, <1>5
<1>7. ASSUME NEW i \in DOMAIN h.built
      PROVE  /\ b[i].of = h.built[i].of
             /\ i \in gone => b[i].drops = IF b[i].of \in devices THEN h.built[i].drops + 1
                                                               ELSE h.built[i].drops
             /\ i \notin gone => b[i].drops = h.built[i].drops
  BY <1>2, LeaveFacts
<1>8. \A i \in gone : i \in ToSet(h.table) /\ i \notin ToSet(t)
  <2>1. \A i \in gone : i \in ToSet(h.table)
    BY <1>2 DEF ToSet
  <2> QED
    BY <2>1, <1>3, <1>5 DEF ToSet
<1>9. \A i : i \notin gone => (i \in ToSet(t) <=> i \in ToSet(h.table))
  <2>1. \A i \in ToSet(t) : i \in ToSet(h.table)
    BY <1>3 DEF ToSet
  <2>2. ASSUME NEW i \in ToSet(h.table), i \notin gone PROVE i \in ToSet(t)
    <3>1. PICK k \in DOMAIN h.table : h.table[k] = i
      BY DEF ToSet
    <3>2. k \in 1..n
      BY <1>2, <2>2, <3>1
    <3> QED
      BY <1>3, <3>1, <3>2 DEF ToSet
  <2> QED
    BY <2>1, <2>2
<1>10. Chained(g)
  <2> SUFFICES ASSUME NEW i \in 1..n
               PROVE  /\ t[i] \in DOMAIN b
                      /\ b[t[i]].below = SubSeq(t, 1, i - 1)
                      /\ (b[t[i]].of = Base) = (i = 1)
    BY <1>1, <1>3 DEF Chained
  <2>1. i \in DOMAIN h.table /\ t[i] = h.table[i] /\ b[t[i]] = h.built[h.table[i]]
    BY <1>3, <1>6
  <2>2. /\ h.built[h.table[i]].below = SubSeq(h.table, 1, i - 1)
        /\ (h.built[h.table[i]].of = Base) = (i = 1)
    BY <2>1 DEF Sane, Chained
  <2>3. SubSeq(t, 1, i - 1) = SubSeq(h.table, 1, i - 1)
    <3>1. i - 1 \in Nat /\ i - 1 <= Len(t) /\ i - 1 <= Len(h.table)
      BY <1>2, <1>3, PrefixFacts
    <3>2. \A j \in 1..(i - 1) : t[j] = h.table[j]
      BY <1>3
    <3> QED
      BY <1>2, <1>3, <3>1, <3>2, SamePrefix
  <2> QED
    BY <1>2, <1>4, <2>1, <2>2, <2>3
<1>11. Released(g)
  <2> HIDE DEF t, b
  <2> SUFFICES ASSUME NEW i \in DOMAIN h.built, b[i].of # Base
               PROVE  Drops(b[i], i \in ToSet(t))
    BY <1>1, <1>4 DEF Released
  <2>1. Drops(h.built[i], i \in ToSet(h.table))
    BY <1>7 DEF Sane, Released
  <2>2. CASE i \in gone
    BY <1>7, <1>8, <2>1, <2>2 DEF Drops
  <2>3. CASE i \notin gone
    BY <1>7, <1>9, <2>1, <2>3 DEF Drops
  <2> QED
    BY <2>2, <2>3
<1>12. Descends(h, g)
  <2> SUFFICES ASSUME NEW i \in ToSet(t) PROVE i \in ToSet(h.table) /\ b[i] = h.built[i]
    BY <1>1 DEF Descends
  <2>1. PICK k \in 1..n : t[k] = i
    BY <1>3 DEF ToSet
  <2> QED
    BY <1>3, <1>6, <2>1 DEF ToSet
<1>13. g \in TableType
  <2> HIDE DEF t, b
  <2> QED
    BY <1>3, <1>4 DEF TableType
<1> HIDE DEF g, t, b
<1>14. Sane(g)
  BY <1>10, <1>11, <1>13 DEF Sane
<1> QED
  BY <1>1, <1>6, <1>12, <1>14 DEF t, b

\* A new entry is pending and was never released.
LEMMA EntryFacts ==
  ASSUME NEW m \in Devices \cup {Base}, NEW below \in Seq(Nat)
  PROVE  /\ Entry(m, below) \in EntryType
         /\ Entry(m, below).of = m /\ Entry(m, below).below = below
         /\ Entry(m, below).is = "pending" /\ Entry(m, below).drops = 0
BY DEF Entry, EntryType

\* What is stacked on a table by numbering the entries from n + 1 on.
LEMMA StackFacts ==
  ASSUME NEW s \in Seq(Nat), NEW n \in Nat, NEW k \in Nat
  PROVE  LET new == [j \in 1..k |-> n + j] IN
         /\ s \o new \in Seq(Nat) /\ Len(s \o new) = Len(s) + k
         /\ DOMAIN (s \o new) = 1..(Len(s) + k)
         /\ \A i \in 1..Len(s) : (s \o new)[i] = s[i]
         /\ \A j \in 1..k : (s \o new)[Len(s) + j] = n + j
<1> DEFINE new == [j \in 1..k |-> n + j]
<1>1. new \in [1..k -> Nat] /\ \A j \in 1..k : new[j] = n + j
  OBVIOUS
<1> HIDE DEF new
<1>2. new \in Seq(Nat) /\ Len(new) = k
  BY <1>1, FunctionIsSeq
<1>3. s \o new \in Seq(Nat) /\ Len(s \o new) = Len(s) + k
  BY <1>2, JoinFacts
<1>4. DOMAIN (s \o new) = 1..(Len(s) + k)
  BY <1>2, JoinFacts
<1>5. \A i \in 1..Len(s) : (s \o new)[i] = s[i]
  BY <1>2, JoinFacts
<1>6. \A j \in 1..k : (s \o new)[Len(s) + j] = new[j]
  BY <1>2, JoinFacts
<1>7. /\ s \o new \in Seq(Nat) /\ Len(s \o new) = Len(s) + k
      /\ DOMAIN (s \o new) = 1..(Len(s) + k)
      /\ \A i \in 1..Len(s) : (s \o new)[i] = s[i]
      /\ \A j \in 1..k : (s \o new)[Len(s) + j] = n + j
  BY <1>1, <1>3, <1>4, <1>5, <1>6
<1> QED
  BY <1>7 DEF new

\* Building on a table puts one pending entry per mixin on top of it, each on
\* what lies beneath it.
LEMMA BuildSane ==
  ASSUME NEW h, Sane(h), NEW ms \in Seq(Devices \cup {Base}),
         \A j \in 1..Len(ms) : (ms[j] = Base) = (Len(h.table) + j = 1)
  PROVE  /\ Sane(Build(h, ms)) /\ Descends(h, Build(h, ms))
         /\ Len(Build(h, ms).table) = Len(h.table) + Len(ms)
         /\ \A i \in 1..Len(h.table) :
              /\ Build(h, ms).table[i] = h.table[i]
              /\ Build(h, ms).built[h.table[i]] = h.built[h.table[i]]
         /\ \A j \in 1..Len(ms) :
              Build(h, ms).built[Build(h, ms).table[Len(h.table) + j]].of = ms[j]
<1> DEFINE N == Len(h.built)
           L == Len(h.table)
           K == Len(ms)
           new(n) == [j \in 1..n |-> N + j]
           over(j) == h.table \o new(j)
           more == [j \in 1..K |-> Entry(ms[j], over(j - 1))]
           t == over(K)
           b == h.built \o more
           g == [table |-> t, built |-> b]
<1>1. Build(h, ms) = g /\ g.table = t /\ g.built = b
  BY DEF Build
<1>2. /\ h.table \in Seq(Nat) /\ L \in Nat /\ DOMAIN h.table = 1..L
      /\ h.built \in Seq(EntryType) /\ N \in Nat /\ DOMAIN h.built = 1..N
      /\ \A i \in 1..L : h.table[i] \in 1..N
      /\ K \in Nat /\ \A j \in 1..K : ms[j] \in Devices \cup {Base}
  BY TableTypes, LenProperties, ElementOfSeq
<1>a. L = Len(h.table) /\ N = Len(h.built) /\ K = Len(ms)
  OBVIOUS
<1> HIDE DEF N, L, K
<1>3. ASSUME NEW n \in Nat
      PROVE  /\ over(n) \in Seq(Nat) /\ Len(over(n)) = L + n /\ DOMAIN over(n) = 1..(L + n)
             /\ \A i \in 1..L : over(n)[i] = h.table[i]
             /\ \A j \in 1..n : over(n)[L + j] = N + j
  BY <1>2, <1>a, StackFacts
<1> HIDE DEF new
<1>8. t \in Seq(Nat) /\ Len(t) = L + K /\ DOMAIN t = 1..(L + K)
  BY <1>2, <1>3
<1>9. \A i \in 1..L : t[i] = h.table[i]
  BY <1>2, <1>3
<1>b. \A j \in 1..K : t[L + j] = N + j
  BY <1>2, <1>3
<1> HIDE DEF over, t
<1>4. \A j \in 1..K : j - 1 \in Nat /\ over(j - 1) \in Seq(Nat)
  BY <1>2, <1>3
<1>5. \A j \in 1..K : /\ more[j] \in EntryType /\ more[j].of = ms[j] /\ more[j].below = over(j - 1)
                      /\ more[j].is = "pending" /\ more[j].drops = 0
  <2> SUFFICES ASSUME NEW j \in 1..K
               PROVE  /\ more[j] \in EntryType /\ more[j].of = ms[j] /\ more[j].below = over(j - 1)
                      /\ more[j].is = "pending" /\ more[j].drops = 0
    OBVIOUS
  <2> DEFINE m == ms[j]
             o == over(j - 1)
  <2>1. more[j] = Entry(m, o)
    OBVIOUS
  <2>2. m \in Devices \cup {Base} /\ o \in Seq(Nat)
    BY <1>2, <1>4
  <2> HIDE DEF more, m, o
  <2>3. /\ more[j] \in EntryType /\ more[j].of = m /\ more[j].below = o
        /\ more[j].is = "pending" /\ more[j].drops = 0
    BY <2>1, <2>2, EntryFacts
  <2> QED
    BY <2>3 DEF m, o
<1>6. more \in Seq(EntryType) /\ K = Len(more)
  <2>1. more \in [1..K -> EntryType]
    BY <1>5
  <2> HIDE DEF more
  <2> QED
    BY <1>2, <2>1, FunctionIsSeq
<1> HIDE DEF more
<1>7. /\ b \in Seq(EntryType) /\ DOMAIN b = 1..(N + K)
      /\ \A i \in 1..N : b[i] = h.built[i]
      /\ \A j \in 1..K : b[N + j] = more[j]
  BY <1>2, <1>a, <1>6, JoinFacts
<1> HIDE DEF b
<1>10. /\ \A i \in 1..L : i \in 1..(L + K) /\ t[i] \in 1..(N + K) /\ b[t[i]] = h.built[h.table[i]]
       /\ \A j \in 1..K : L + j \in 1..(L + K) /\ t[L + j] \in 1..(N + K) /\ b[t[L + j]] = more[j]
  <2>1. ASSUME NEW i \in 1..L
        PROVE  i \in 1..(L + K) /\ t[i] \in 1..(N + K) /\ b[t[i]] = h.built[h.table[i]]
    <3>1. t[i] = h.table[i] /\ t[i] \in 1..N
      BY <1>2, <1>9
    <3>2. b[t[i]] = h.built[h.table[i]]
      BY <1>7, <3>1
    <3> QED
      BY <1>2, <3>1, <3>2
  <2>2. ASSUME NEW j \in 1..K
        PROVE  L + j \in 1..(L + K) /\ t[L + j] \in 1..(N + K) /\ b[t[L + j]] = more[j]
    <3>1. t[L + j] = N + j
      BY <1>b
    <3>2. b[t[L + j]] = more[j]
      BY <1>7, <3>1
    <3> QED
      BY <1>2, <3>1, <3>2
  <2> QED
    BY <2>1, <2>2
<1>11. \A i \in 1..(L + K) : i \in 1..L \/ (i - L \in 1..K /\ i = L + (i - L))
  BY <1>2
<1>12. Chained(g)
  <2> SUFFICES ASSUME NEW i \in 1..(L + K)
               PROVE  /\ t[i] \in DOMAIN b
                      /\ b[t[i]].below = SubSeq(t, 1, i - 1)
                      /\ (b[t[i]].of = Base) = (i = 1)
    BY <1>1, <1>8 DEF Chained
  <2>1. CASE i \in 1..L
    <3>1. /\ h.built[h.table[i]].below = SubSeq(h.table, 1, i - 1)
          /\ (h.built[h.table[i]].of = Base) = (i = 1)
      BY <1>2, <2>1 DEF Sane, Chained
    <3>2. i - 1 \in Nat /\ i - 1 <= Len(t) /\ i - 1 <= Len(h.table)
      BY <1>2, <1>a, <1>8, <2>1
    <3>3. \A k \in 1..(i - 1) : t[k] = h.table[k]
      BY <1>2, <1>9, <2>1
    <3>4. SubSeq(t, 1, i - 1) = SubSeq(h.table, 1, i - 1)
      BY <1>2, <1>8, <3>2, <3>3, SamePrefix
    <3>5. t[i] \in DOMAIN b /\ b[t[i]] = h.built[h.table[i]]
      BY <1>7, <1>10, <2>1
    <3> QED
      BY <3>1, <3>4, <3>5
  <2>2. CASE i - L \in 1..K
    <3> DEFINE j == i - L
    <3>1. j \in 1..K /\ i = L + j
      BY <1>2, <2>2
    <3> HIDE DEF j
    <3>2. t[i] \in DOMAIN b /\ b[t[i]] = more[j]
      BY <1>7, <1>10, <3>1
    <3>3. more[j].below = over(j - 1) /\ more[j].of = ms[j]
      BY <1>5, <3>1
    <3>a. j - 1 \in Nat /\ L + (j - 1) = i - 1
      BY <1>2, <3>1
    <3>4. /\ over(j - 1) \in Seq(Nat) /\ Len(over(j - 1)) = i - 1
          /\ \A k \in 1..L : over(j - 1)[k] = h.table[k]
          /\ \A k \in 1..(j - 1) : over(j - 1)[L + k] = N + k
      BY <1>3, <3>a
    <3>5. \A k \in 1..(i - 1) : k \in 1..L \/ (k - L \in 1..(j - 1) /\ k - L \in 1..K /\ k = L + (k - L))
      BY <1>2, <3>1
    <3>6. \A k \in 1..(i - 1) : over(j - 1)[k] = t[k]
      BY <1>9, <1>b, <3>4, <3>5
    <3>7. SubSeq(over(j - 1), 1, i - 1) = SubSeq(t, 1, i - 1)
      <4>1. i - 1 \in Nat /\ i - 1 <= Len(t) /\ i - 1 <= Len(over(j - 1))
        BY <1>2, <1>8, <3>1, <3>4
      <4> QED
        BY <1>8, <3>4, <3>6, <4>1, SamePrefix
    <3>8. SubSeq(over(j - 1), 1, i - 1) = over(j - 1)
      BY <3>4, SubSeqFull
    <3>9. (ms[j] = Base) = (i = 1)
      BY <1>a, <3>1
    <3> QED
      BY <3>2, <3>3, <3>7, <3>8, <3>9
  <2> QED
    BY <1>11, <2>1, <2>2
<1>13. Released(g)
  <2> SUFFICES ASSUME NEW i \in 1..(N + K), b[i].of # Base
               PROVE  Drops(b[i], i \in ToSet(t))
    BY <1>1, <1>7 DEF Released
  <2>1. CASE i <= N
    <3>1. i \in DOMAIN h.built /\ b[i] = h.built[i]
      BY <1>2, <1>7, <2>1
    <3>2. Drops(h.built[i], i \in ToSet(h.table))
      BY <3>1 DEF Sane, Released
    <3>3. ASSUME i \in ToSet(h.table) PROVE i \in ToSet(t)
      <4>1. PICK k \in 1..L : h.table[k] = i
        BY <1>2, <3>3 DEF ToSet
      <4>2. k \in DOMAIN t /\ t[k] = i
        BY <1>8, <1>9, <1>10, <4>1
      <4> QED
        BY <4>2 DEF ToSet
    <3>4. ASSUME i \in ToSet(t) PROVE i \in ToSet(h.table)
      <4>1. PICK k \in 1..(L + K) : t[k] = i
        BY <1>8, <3>4 DEF ToSet
      <4>2. k \in 1..L
        <5>1. ASSUME k - L \in 1..K, k = L + (k - L) PROVE FALSE
          <6>1. i = N + (k - L)
            BY <1>b, <4>1, <5>1
          <6> QED
            BY <1>2, <2>1, <5>1, <6>1
        <5> QED
          BY <1>11, <5>1
      <4> QED
        BY <1>2, <1>9, <4>1, <4>2 DEF ToSet
    <3> QED
      BY <3>1, <3>2, <3>3, <3>4 DEF Drops
  <2>2. CASE ~(i <= N)
    <3>1. i - N \in 1..K /\ i = N + (i - N)
      BY <1>2, <2>2
    <3>2. b[i].drops = 0
      BY <1>5, <1>7, <3>1
    <3>3. t[L + (i - N)] = i /\ L + (i - N) \in DOMAIN t
      BY <1>b, <1>8, <1>10, <3>1
    <3> QED
      BY <3>2, <3>3 DEF ToSet, Drops
  <2> QED
    BY <2>1, <2>2
<1>14. Descends(h, g)
  <2> SUFFICES ASSUME NEW i \in 1..(L + K)
               PROVE  \/ b[t[i]].is = "pending"
                      \/ t[i] \in ToSet(h.table) /\ b[t[i]] = h.built[t[i]]
    BY <1>1, <1>8 DEF Descends, ToSet
  <2>1. CASE i \in 1..L
    <3>1. t[i] = h.table[i] /\ i \in DOMAIN h.table /\ b[t[i]] = h.built[h.table[i]]
      BY <1>2, <1>9, <1>10, <2>1
    <3> QED
      BY <3>1 DEF ToSet
  <2>2. CASE i - L \in 1..K /\ i = L + (i - L)
    BY <1>5, <1>10, <2>2
  <2> QED
    BY <1>11, <2>1, <2>2
<1>15. g \in TableType
  BY <1>7, <1>8 DEF TableType
<1>16. Sane(g)
  BY <1>12, <1>13, <1>15 DEF Sane
<1> HIDE DEF g
<1>17. \A j \in 1..K : b[t[L + j]].of = ms[j]
  BY <1>5, <1>10
<1>18. \A i \in 1..L : t[i] = h.table[i] /\ b[h.table[i]] = h.built[h.table[i]]
  BY <1>9, <1>10
<1> QED
  BY <1>1, <1>a, <1>8, <1>14, <1>16, <1>17, <1>18
-----------------------------------------------------------------------------
(* The operations of a table *)

\* The layers are the entries above the base.
LEMMA LayerFacts ==
  ASSUME NEW h, Sane(h)
  PROVE  /\ Layers(h) \in Seq(Devices)
         /\ Len(Layers(h)) = IF h.table = <<>> THEN 0 ELSE Len(h.table) - 1
         /\ \A i \in 1..Len(Layers(h)) : Layers(h)[i] = h.built[h.table[i + 1]].of
<1> DEFINE n == Len(h.table) - 1
           f == [i \in 1..n |-> h.built[h.table[i + 1]].of]
<1>1. /\ Len(h.table) \in Nat /\ DOMAIN h.table = 1..Len(h.table)
      /\ h.table = <<>> <=> Len(h.table) = 0
      /\ \A i \in DOMAIN h.table : h.table[i] \in DOMAIN h.built
      /\ \A i \in DOMAIN h.built : h.built[i] \in EntryType
  BY TableTypes, EmptySeq
<1>2. ASSUME NEW i \in 1..n PROVE h.built[h.table[i + 1]].of \in Devices
  <2>1. i + 1 \in DOMAIN h.table /\ i + 1 # 1
    BY <1>1
  <2>2. h.built[h.table[i + 1]].of # Base
    BY <2>1 DEF Sane, Chained
  <2>3. h.built[h.table[i + 1]] \in EntryType
    BY <1>1, <2>1
  <2>4. h.built[h.table[i + 1]].of \in Devices \cup {Base}
    BY <2>3 DEF EntryType
  <2> QED
    BY <2>2, <2>4
<1>3. f \in [1..n -> Devices] /\ \A i \in 1..n : f[i] = h.built[h.table[i + 1]].of
  BY <1>2
<1>4. Layers(h) = f
  BY DEF Layers
<1> HIDE DEF f
<1>5. CASE h.table = <<>>
  <2>1. n = -1 /\ 1..n = 1..0
    BY <1>1, <1>5
  <2>2. f \in Seq(Devices) /\ Len(f) = 0
    BY <1>3, <2>1, FunctionIsSeq
  <2>3. 1..0 = {}
    OBVIOUS
  <2> QED
    BY <1>4, <1>5, <2>2, <2>3
<1>6. CASE h.table # <<>>
  <2>1. n \in Nat
    BY <1>1, <1>6
  <2> HIDE DEF n
  <2>2. f \in Seq(Devices) /\ Len(f) = n
    BY <1>3, <2>1, FunctionIsSeq
  <2> QED
    BY <1>3, <1>4, <1>6, <2>2 DEF n
<1> QED
  BY <1>5, <1>6

\* Lists have no Base in them.
LEMMA ListFacts ==
  ASSUME NEW ms \in Lists
  PROVE  /\ ms \in Seq(Devices) /\ IsInjective(ms) /\ Len(ms) \in Nat /\ DOMAIN ms = 1..Len(ms)
         /\ ms \in Seq(Devices \cup {Base})
         /\ \A i \in 1..Len(ms) : ms[i] \in Devices /\ ms[i] # Base
<1>1. ms \in Seq(Devices) /\ IsInjective(ms)
  BY DEF Lists
<1>2. /\ Len(ms) \in Nat /\ DOMAIN ms = 1..Len(ms) /\ ms \in [1..Len(ms) -> Devices]
      /\ \A i \in 1..Len(ms) : ms[i] \in Devices
  BY <1>1, LenProperties, ElementOfSeq
<1>3. ms \in [1..Len(ms) -> Devices \cup {Base}]
  BY <1>2
<1>4. ms \in Seq(Devices \cup {Base})
  BY <1>2, <1>3, FunctionIsSeq
<1> QED
  BY <1>1, <1>2, <1>4, MixinAssumption

\* A table whose layers are those of the list.
LEMMA LayersAre ==
  ASSUME NEW h, Sane(h), NEW ms \in Seq(Devices), Len(h.table) = Len(ms) + 1,
         \A i \in 1..Len(ms) : h.built[h.table[i + 1]].of = ms[i]
  PROVE  h.table # <<>> /\ Layers(h) = ms
<1>1. Len(ms) \in Nat
  BY LenProperties
<1>2. h.table # <<>>
  BY <1>1, EmptySeq
<1>3. Layers(h) \in Seq(Devices) /\ Len(Layers(h)) = Len(ms)
  BY <1>1, <1>2, LayerFacts
<1>4. \A i \in 1..Len(ms) : Layers(h)[i] = ms[i]
  BY <1>3, LayerFacts
<1> QED
  BY <1>2, <1>3, <1>4, SeqEqual

\* A table that is built from nothing has a base and the listed layers.
LEMMA EnsureSane ==
  ASSUME NEW h, Sane(h), NEW ms \in Lists
  PROVE  /\ Sane(EnsureProxy(h, ms)) /\ Descends(h, EnsureProxy(h, ms))
         /\ EnsureProxy(h, ms).table # <<>>
         /\ h.table # <<>> => EnsureProxy(h, ms) = h
         /\ h.table = <<>> => Layers(EnsureProxy(h, ms)) = ms
<1>1. CASE h.table # <<>>
  BY <1>1, DescendsSelf DEF EnsureProxy
<1>2. CASE h.table = <<>>
  <2> DEFINE all == <<Base>> \o ms
             g == Build(h, all)
  <2>1. EnsureProxy(h, ms) = g
    BY <1>2 DEF EnsureProxy
  <2>2. /\ ms \in Seq(Devices) /\ ms \in Seq(Devices \cup {Base}) /\ Len(ms) \in Nat
        /\ \A i \in 1..Len(ms) : ms[i] # Base
    BY ListFacts
  <2>3. <<Base>> \in Seq(Devices \cup {Base}) /\ Len(<<Base>>) = 1 /\ <<Base>>[1] = Base
    OBVIOUS
  <2>4. /\ all \in Seq(Devices \cup {Base}) /\ Len(all) = 1 + Len(ms)
        /\ \A i \in 1..1 : all[i] = <<Base>>[i]
        /\ \A i \in 1..Len(ms) : all[1 + i] = ms[i]
    BY <2>2, <2>3, JoinFacts
  <2> HIDE DEF all
  <2>5. Len(h.table) = 0
    BY <1>2, EmptySeq
  <2>6. \A j \in 1..Len(all) : (all[j] = Base) = (Len(h.table) + j = 1)
    <3> SUFFICES ASSUME NEW j \in 1..Len(all) PROVE (all[j] = Base) = (j = 1)
      BY <2>5
    <3>1. CASE j = 1
      BY <2>3, <2>4, <3>1
    <3>2. CASE j # 1
      <4>1. j - 1 \in 1..Len(ms) /\ j = 1 + (j - 1)
        BY <2>2, <2>4, <3>2
      <4> DEFINE k == j - 1
      <4>2. k \in 1..Len(ms) /\ j = 1 + k
        BY <4>1
      <4> HIDE DEF k
      <4>3. all[1 + k] = ms[k]
        BY <2>4, <4>2
      <4>4. all[j] = ms[k] /\ ms[k] # Base
        BY <2>2, <4>2, <4>3
      <4> QED
        BY <3>2, <4>4
    <3> QED
      BY <3>1, <3>2
  <2>7. Sane(g) /\ Descends(h, g)
    BY <2>4, <2>6, BuildSane
  <2>8. Len(g.table) = Len(h.table) + Len(all)
    BY <2>4, <2>6, BuildSane
  <2>9. \A j \in 1..Len(all) : g.built[g.table[Len(h.table) + j]].of = all[j]
    BY <2>4, <2>6, BuildSane
  <2> HIDE DEF g
  <2>10. Len(g.table) = Len(ms) + 1
    BY <2>2, <2>4, <2>5, <2>8
  <2>11. ASSUME NEW i \in 1..Len(ms) PROVE g.built[g.table[i + 1]].of = ms[i]
    <3>1. 1 + i \in 1..Len(all) /\ Len(h.table) + (1 + i) = i + 1
      BY <2>2, <2>4, <2>5
    <3>2. all[1 + i] = ms[i]
      BY <2>4
    <3> QED
      BY <2>9, <3>1, <3>2
  <2>12. g.table # <<>> /\ Layers(g) = ms
    BY <2>2, <2>7, <2>10, <2>11, LayersAre
  <2> QED
    BY <1>2, <2>1, <2>7, <2>12
<1> QED
  BY <1>1, <1>2

\* The table of an invalidated device is empty.
LEMMA InvalidateSane ==
  ASSUME NEW h, Sane(h)
  PROVE  /\ Sane(Invalidate(h)) /\ Descends(h, Invalidate(h)) /\ Invalidate(h).table = <<>>
<1>1. 0 \in 0..Len(h.table) /\ h.table \in Seq(Nat)
  BY TableTypes
<1>2. /\ Sane(Invalidate(h)) /\ Descends(h, Invalidate(h))
      /\ Invalidate(h).table = SubSeq(h.table, 1, 0)
  BY <1>1, KeepSane DEF Invalidate
<1>3. SubSeq(h.table, 1, 0) = <<>>
  BY <1>1, SubSeqEmpty
<1> QED
  BY <1>2, <1>3

\* Common is the length of a common prefix.
LEMMA CommonFacts ==
  ASSUME NEW s \in Seq(Devices), NEW t \in Seq(Devices)
  PROVE  /\ Common(s, t) \in Nat /\ Common(s, t) <= Len(s) /\ Common(s, t) <= Len(t)
         /\ \A i \in 1..Common(s, t) : s[i] = t[i]
<1> DEFINE P == {n \in 0..Len(s) : n <= Len(t) /\ SubSeq(s, 1, n) = SubSeq(t, 1, n)}
<1>1. Len(s) \in Nat /\ Len(t) \in Nat
  BY LenProperties
<1>2. SubSeq(s, 1, 0) = SubSeq(t, 1, 0)
  BY SubSeqEmpty
<1>3. 0 \in P /\ P \subseteq 0..Len(s)
  BY <1>1, <1>2
<1>4. Max(P) \in P
  BY <1>1, <1>3, MaxFacts
<1>5. Common(s, t) = Max(P)
  BY DEF Common
<1> DEFINE n == Common(s, t)
<1>6. n \in 0..Len(s) /\ n <= Len(t) /\ SubSeq(s, 1, n) = SubSeq(t, 1, n)
  BY <1>4, <1>5
<1> HIDE DEF n
<1>7. n \in 0..Len(t) /\ n \in Nat /\ n <= Len(s)
  BY <1>1, <1>6
<1>8. \A i \in 1..n : SubSeq(s, 1, n)[i] = s[i]
  BY <1>6, PrefixFacts
<1>9. \A i \in 1..n : SubSeq(t, 1, n)[i] = t[i]
  BY <1>7, PrefixFacts
<1> QED
  BY <1>6, <1>7, <1>8, <1>9 DEF n

\* What becomes of a table that is brought in line with the list ms: it is
\* as it was, or empty, or has the layers that are listed.
Renews(h, g, ms) ==
  /\ Sane(g) /\ Descends(h, g)
  /\ g = h \/ g.table = <<>> \/ Layers(g) = ms

\* An operation that does nothing renews.
LEMMA RenewsSelf == ASSUME NEW h, Sane(h), NEW ms PROVE Renews(h, h, ms)
BY DescendsSelf DEF Renews

\* Operations that renew do so one after another.
LEMMA RenewsTwice ==
  ASSUME NEW f, NEW g, NEW h, NEW ms, Renews(f, g, ms), Renews(g, h, ms)
  PROVE  Renews(f, h, ms)
<1>1. Descends(f, h)
  BY DescendsTwice DEF Renews
<1> QED
  BY <1>1 DEF Renews

\* invalidate() renews: nothing is left.
LEMMA InvalidateRenews ==
  ASSUME NEW h, Sane(h), NEW ms PROVE Renews(h, Invalidate(h), ms)
BY InvalidateSane DEF Renews

\* ensureProxy() renews: what it builds is pending, and is the list.
LEMMA EnsureRenews ==
  ASSUME NEW h, Sane(h), NEW ms \in Lists PROVE Renews(h, EnsureProxy(h, ms), ms)
BY EnsureSane DEF Renews

\* A rebuilt table is empty or has the layers that are listed.
LEMMA RebuildSane ==
  ASSUME NEW h, Sane(h), NEW ms \in Lists
  PROVE  /\ Sane(Rebuild(h, ms)) /\ Descends(h, Rebuild(h, ms))
         /\ Rebuild(h, ms).table = <<>> \/ Layers(Rebuild(h, ms)) = ms
<1> DEFINE n == Common(Layers(h), ms)
           rest == SubSeq(ms, n + 1, Len(ms))
           k == Keep(h, n + 1)
           g == Build(k, rest)
<1>1. /\ ms \in Seq(Devices) /\ Len(ms) \in Nat
      /\ \A i \in 1..Len(ms) : ms[i] \in Devices /\ ms[i] # Base
  BY ListFacts
<1>2. /\ Layers(h) \in Seq(Devices)
      /\ Len(Layers(h)) = IF h.table = <<>> THEN 0 ELSE Len(h.table) - 1
      /\ \A i \in 1..Len(Layers(h)) : Layers(h)[i] = h.built[h.table[i + 1]].of
  BY LayerFacts
<1>3. /\ n \in Nat /\ n <= Len(Layers(h)) /\ n <= Len(ms)
      /\ \A i \in 1..n : Layers(h)[i] = ms[i]
  BY <1>1, <1>2, CommonFacts
<1>4. Rebuild(h, ms) = IF n = 0 THEN Invalidate(h) ELSE g
  BY DEF Rebuild
<1>5. CASE n = 0
  BY <1>4, <1>5, InvalidateSane
<1>6. CASE n # 0
  <2> HIDE DEF n
  <2>1. Len(h.table) \in Nat /\ n + 1 \in 0..Len(h.table) /\ n + 1 >= 2
    BY <1>2, <1>3, <1>6, TableTypes
  <2>2. /\ Sane(k) /\ Descends(h, k) /\ k.table = SubSeq(h.table, 1, n + 1)
        /\ \A i \in 1..(n + 1) : k.built[h.table[i]] = h.built[h.table[i]]
    BY <2>1, KeepSane
  <2>3. /\ h.table \in Seq(Nat)
        /\ Len(k.table) = n + 1 /\ \A i \in 1..(n + 1) : k.table[i] = h.table[i]
    BY <2>1, <2>2, TableTypes, PrefixFacts
  <2> HIDE DEF k
  <2>4. \A i \in (n + 1)..Len(ms) : ms[i] \in Devices \cup {Base}
    BY <1>1, <1>3
  <2>5. /\ rest \in Seq(Devices \cup {Base}) /\ Len(rest) = Len(ms) - n
        /\ \A i \in 1..(Len(ms) - n) : rest[i] = ms[n + i]
    <3>1. n + 1 \in Int /\ Len(ms) \in Int
      BY <1>1, <1>3
    <3>2. /\ rest \in Seq(Devices \cup {Base})
          /\ Len(rest) = IF n + 1 <= Len(ms) THEN Len(ms) - (n + 1) + 1 ELSE 0
          /\ \A i \in 1..(Len(ms) - (n + 1) + 1) : rest[i] = ms[(n + 1) + i - 1]
      BY <2>4, <3>1, SubSeqProperties
    <3> HIDE DEF rest
    <3>3. Len(rest) = Len(ms) - n
      BY <1>1, <1>3, <3>2
    <3>4. ASSUME NEW i \in 1..(Len(ms) - n) PROVE rest[i] = ms[n + i]
      <4>1. i \in 1..(Len(ms) - (n + 1) + 1) /\ (n + 1) + i - 1 = n + i
        BY <1>1, <1>3
      <4> QED
        BY <3>2, <4>1
    <3> QED
      BY <3>2, <3>3, <3>4
  <2> HIDE DEF rest
  <2>6. \A j \in 1..Len(rest) : (rest[j] = Base) = (Len(k.table) + j = 1)
    <3> SUFFICES ASSUME NEW j \in 1..Len(rest) PROVE rest[j] # Base /\ Len(k.table) + j # 1
      OBVIOUS
    <3>1. n + j \in 1..Len(ms) /\ rest[j] = ms[n + j]
      BY <1>1, <1>3, <2>5
    <3>2. Len(k.table) + j # 1
      BY <1>1, <1>3, <2>3, <2>5
    <3> QED
      BY <1>1, <3>1, <3>2
  <2>7. Sane(g) /\ Descends(k, g)
    BY <2>2, <2>5, <2>6, BuildSane
  <2>8. Len(g.table) = Len(k.table) + Len(rest)
    BY <2>2, <2>5, <2>6, BuildSane
  <2>9. /\ \A i \in 1..Len(k.table) :
              g.table[i] = k.table[i] /\ g.built[k.table[i]] = k.built[k.table[i]]
        /\ \A j \in 1..Len(rest) : g.built[g.table[Len(k.table) + j]].of = rest[j]
    BY <2>2, <2>5, <2>6, BuildSane
  <2> HIDE DEF g
  <2>10. Len(g.table) = Len(ms) + 1
    BY <1>1, <1>3, <2>3, <2>5, <2>8
  <2>11. ASSUME NEW i \in 1..Len(ms) PROVE g.built[g.table[i + 1]].of = ms[i]
    <3>1. CASE i <= n
      <4>1. i \in 1..n /\ i + 1 \in 1..(n + 1) /\ i \in 1..Len(Layers(h))
        BY <1>1, <1>2, <1>3, <3>1, LenProperties
      <4>2. g.built[g.table[i + 1]] = h.built[h.table[i + 1]]
        BY <2>2, <2>3, <2>9, <4>1
      <4> QED
        BY <1>2, <1>3, <4>1, <4>2
    <3>2. CASE ~(i <= n)
      <4> DEFINE j == i - n
      <4>1. j \in 1..Len(rest) /\ j \in 1..(Len(ms) - n) /\ n + j = i /\ Len(k.table) + j = i + 1
        BY <1>1, <1>3, <2>3, <2>5, <3>2
      <4> HIDE DEF j
      <4>2. g.built[g.table[Len(k.table) + j]].of = rest[j] /\ rest[j] = ms[n + j]
        BY <2>5, <2>9, <4>1
      <4> QED
        BY <4>1, <4>2
    <3> QED
      BY <3>1, <3>2
  <2>12. Layers(g) = ms
    BY <1>1, <2>7, <2>10, <2>11, LayersAre
  <2> QED
    BY <1>4, <1>6, <2>2, <2>7, <2>12, DescendsTwice
<1> QED
  BY <1>5, <1>6

\* rebuildMixinTable() renews: what it keeps was there, the rest is pending.
LEMMA RebuildRenews ==
  ASSUME NEW h, Sane(h), NEW ms \in Lists PROVE Renews(h, Rebuild(h, ms), ms)
BY RebuildSane DEF Renews

\* No layer of one of the providers is left.
LEMMA CutSane ==
  ASSUME NEW h, Sane(h), NEW ids
  PROVE  /\ Sane(Cut(h, ids)) /\ Descends(h, Cut(h, ids))
         /\ \A i \in ToSet(Cut(h, ids).table) : Cut(h, ids).built[i].of \notin ids
<1> DEFINE found == {i \in DOMAIN h.table : h.built[h.table[i]].of \in ids}
<1>1. /\ h.table \in Seq(Nat) /\ Len(h.table) \in Nat /\ DOMAIN h.table = 1..Len(h.table)
  BY TableTypes
<1>2. CASE found = {}
  <2>1. Cut(h, ids) = h
    BY <1>2 DEF Cut
  <2>2. \A i \in ToSet(h.table) : h.built[i].of \notin ids
    BY <1>2 DEF ToSet
  <2> QED
    BY <2>1, <2>2, DescendsSelf
<1>3. CASE found # {}
  <2> DEFINE n == Min(found) - 1
             g == Keep(h, n)
  <2>1. Cut(h, ids) = g
    BY <1>3 DEF Cut
  <2>2. found \subseteq 1..Len(h.table) /\ found \subseteq Nat
    BY <1>1
  <2>a. \A i \in DOMAIN h.table : i \in found <=> h.built[h.table[i]].of \in ids
    OBVIOUS
  <2> HIDE DEF found
  <2>3. Min(found) \in found /\ \A j \in found : Min(found) <= j
    BY <1>3, <2>2, MinFacts
  <2>4. n \in 0..Len(h.table) /\ \A i \in 1..n : i \in DOMAIN h.table /\ i \notin found
    <3> DEFINE m == Min(found)
    <3>1. m \in 1..Len(h.table) /\ n = m - 1 /\ \A j \in found : m <= j
      BY <2>2, <2>3
    <3> HIDE DEF m, n
    <3>2. n \in 0..Len(h.table)
      BY <1>1, <3>1
    <3>3. ASSUME NEW i \in 1..n PROVE i \in DOMAIN h.table /\ i \notin found
      <4>1. i \in 1..Len(h.table) /\ ~(m <= i)
        BY <1>1, <3>1
      <4> QED
        BY <1>1, <3>1, <4>1
    <3> QED
      BY <3>2, <3>3
  <2> HIDE DEF n
  <2>5. /\ Sane(g) /\ Descends(h, g) /\ g.table = SubSeq(h.table, 1, n)
        /\ \A i \in 1..n : g.built[h.table[i]] = h.built[h.table[i]]
    BY <2>4, KeepSane
  <2>6. DOMAIN g.table = 1..n /\ \A i \in 1..n : g.table[i] = h.table[i]
    BY <1>1, <2>4, <2>5, PrefixFacts
  <2> HIDE DEF g
  <2>7. \A i \in ToSet(g.table) : g.built[i].of \notin ids
    <3> SUFFICES ASSUME NEW i \in 1..n PROVE g.built[g.table[i]].of \notin ids
      BY <2>6 DEF ToSet
    <3>1. g.built[g.table[i]] = h.built[h.table[i]]
      BY <2>5, <2>6
    <3> QED
      BY <2>4, <2>a, <3>1
  <2> QED
    BY <2>1, <2>5, <2>7
<1> QED
  BY <1>2, <1>3
-----------------------------------------------------------------------------
(* The tables of all devices *)

Handlers == [Devices -> TableType]

AllSane(hs) == hs \in Handlers /\ \A d \in Devices : Sane(hs[d])

\* Each of the tables gs is what became of the one in hs.
AllRenew(hs, gs) ==
  AllSane(gs) /\ \A d \in Devices : Renews(hs[d], gs[d], mixins[d])

\* An operation that touches no table renews all.
LEMMA AllRenewSelf ==
  ASSUME NEW hs, AllSane(hs) PROVE AllRenew(hs, hs)
BY RenewsSelf DEF AllSane, AllRenew

\* Renewing all is transitive.
LEMMA AllRenewTwice ==
  ASSUME NEW fs, NEW gs, NEW hs, AllRenew(fs, gs), AllRenew(gs, hs)
  PROVE  AllRenew(fs, hs)
BY RenewsTwice DEF AllRenew

\* Tables that change one by one.
LEMMA AllRenewEach ==
  ASSUME NEW hs, NEW gs, gs = [d \in Devices |-> gs[d]],
         \A d \in Devices : Renews(hs[d], gs[d], mixins[d])
  PROVE  AllRenew(hs, gs)
<1>1. \A d \in Devices : Sane(gs[d]) /\ gs[d] \in TableType
  BY DEF Renews, Sane
<1>2. gs \in Handlers
  BY <1>1 DEF Handlers
<1> QED
  BY <1>1, <1>2 DEF AllRenew, AllSane

\* Renewing the table of one device renews all.
LEMMA AllRenewOne ==
  ASSUME NEW hs, AllSane(hs), NEW d \in Devices, NEW g, Renews(hs[d], g, mixins[d])
  PROVE  AllRenew(hs, [hs EXCEPT ![d] = g])
<1> DEFINE gs == [hs EXCEPT ![d] = g]
<1>1. hs \in Handlers /\ Sane(g) /\ g \in TableType
  BY DEF AllSane, Renews, Sane
<1>2. gs \in Handlers /\ gs[d] = g /\ \A c \in Devices : c # d => gs[c] = hs[c]
  BY <1>1 DEF Handlers
<1> HIDE DEF gs
<1>3. ASSUME NEW c \in Devices PROVE Sane(gs[c]) /\ Renews(hs[c], gs[c], mixins[c])
  <2>1. CASE c = d
    BY <1>1, <1>2, <2>1
  <2>2. CASE c # d
    BY <1>2, <2>2, RenewsSelf DEF AllSane
  <2> QED
    BY <2>1, <2>2
<1>4. AllRenew(hs, gs)
  BY <1>2, <1>3 DEF AllRenew, AllSane
<1> QED
  BY <1>4 DEF gs

\* invalidateMixins leaves no settled layer of the providers `ids` in the
\* table of a device that is there: what the first pass does not reach has
\* none, what it reaches is cut, and what is built again is pending.
LEMMA MixinsSane ==
  ASSUME NEW hs, AllSane(hs), NEW ids, mixins \in [Devices -> Lists],
         devices \subseteq Devices
  PROVE  /\ AllRenew(hs, InvalidateMixins(hs, ids))
         /\ \A d \in devices : \A i \in ToSet(InvalidateMixins(hs, ids)[d].table) :
              \/ InvalidateMixins(hs, ids)[d].built[i].is = "pending"
              \/ InvalidateMixins(hs, ids)[d].built[i].of \notin ids
<1> DEFINE T == Touched(hs, ids)
           c(d) == Cut(hs[d], ids \cup T)
           r(d) == Rebuild(c(d), mixins[d])
           g(d) == IF d \in T THEN r(d) ELSE hs[d]
           gs == [d \in Devices |-> g(d)]
<1>1. InvalidateMixins(hs, ids) = gs
  BY DEF InvalidateMixins
<1>2. \A d \in Devices : gs[d] = g(d)
  OBVIOUS
<1>3. ASSUME NEW d \in devices, d \notin T, NEW i \in ToSet(hs[d].table)
      PROVE  hs[d].built[i].of \notin ids
  <2> DEFINE acted(S) == {e \in devices : \E k \in DOMAIN hs[e].table :
                             hs[e].built[hs[e].table[k]].of \in S}
  <2>1. PICK S \in SUBSET devices : acted(ids \cup S) \subseteq S /\ d \notin S
    BY <1>3 DEF Touched
  <2>2. PICK k \in DOMAIN hs[d].table : hs[d].table[k] = i
    BY DEF ToSet
  <2>3. d \notin acted(ids \cup S)
    BY <2>1
  <2> QED
    BY <2>2, <2>3
<1>4. \A d \in Devices : mixins[d] \in Lists /\ Sane(hs[d])
  BY DEF AllSane
<1> HIDE DEF T
<1>5. \A d \in Devices : /\ Sane(c(d)) /\ Descends(hs[d], c(d))
                         /\ \A i \in ToSet(c(d).table) : c(d).built[i].of \notin ids \cup T
  BY <1>4, CutSane
<1> HIDE DEF c
<1>6. \A d \in Devices : /\ Sane(r(d)) /\ Descends(c(d), r(d))
                         /\ r(d).table = <<>> \/ Layers(r(d)) = mixins[d]
  BY <1>4, <1>5, RebuildSane
<1> HIDE DEF r
<1>7. \A d \in Devices : Renews(hs[d], r(d), mixins[d])
  BY <1>5, <1>6, DescendsTwice DEF Renews
<1>8. \A d \in Devices : Renews(hs[d], g(d), mixins[d])
  BY <1>4, <1>7, RenewsSelf
<1>9. AllRenew(hs, gs)
  <2>1. \A d \in Devices : Renews(hs[d], gs[d], mixins[d])
    BY <1>2, <1>8
  <2> HIDE DEF g
  <2>2. gs = [d \in Devices |-> gs[d]]
    OBVIOUS
  <2> HIDE DEF gs
  <2> QED
    BY <2>1, <2>2, AllRenewEach
<1>10. ASSUME NEW d \in devices, NEW i \in ToSet(g(d).table)
       PROVE  g(d).built[i].is = "pending" \/ g(d).built[i].of \notin ids
  <2>1. CASE d \in T
    <3>1. g(d) = r(d)
      BY <2>1
    <3>2. r(d).built[i].is = "pending" \/ (i \in ToSet(c(d).table) /\ r(d).built[i] = c(d).built[i])
      BY <1>6, <1>10, <3>1 DEF Descends
    <3>3. i \in ToSet(c(d).table) => c(d).built[i].of \notin ids
      BY <1>5
    <3> QED
      BY <3>1, <3>2, <3>3
  <2>2. CASE d \notin T
    BY <1>3, <1>10, <2>2
  <2> QED
    BY <2>1, <2>2
<1> HIDE DEF g, gs
<1>11. \A d \in devices : gs[d] = g(d)
  BY <1>2
<1> QED
  BY <1>1, <1>9, <1>10, <1>11
-----------------------------------------------------------------------------
(* The steps *)

Statuses == {"pending", "layer", "through", "failed", "gone"}

\* The types of what is not a table.
Rest ==
  /\ devices \subseteq Devices /\ removing \subseteq Devices \ devices
  /\ mixins \in [Devices -> Lists]
  /\ host \in [Plugins -> [inst : Nat, up : BOOLEAN]]
  /\ saving \in [Devices -> Nat]

\* The inductive invariant: every table is sane.
TableInv == Rest /\ AllSane(handler)

\* A settled promise: the entry stays where it is. The one that is live holds
\* what the present instance of its plugin answered.
Settled(hs, gs, d, i, is, error) ==
  /\ \A c \in Devices \ {d} : gs[c] = hs[c]
  /\ gs[d].table = hs[d].table
  /\ DOMAIN gs[d].built = DOMAIN hs[d].built
  /\ \A j \in DOMAIN hs[d].built \ {i} : gs[d].built[j] = hs[d].built[j]
  /\ gs[d].built[i] \in EntryType
  /\ gs[d].built[i].of = hs[d].built[i].of
  /\ gs[d].built[i].below = hs[d].built[i].below
  /\ gs[d].built[i].drops = hs[d].built[i].drops
  /\ i \in ToSet(hs[d].table) =>
       /\ gs[d].built[i].is = is
       /\ gs[d].built[i].inst =
            host[PluginOf[IF hs[d].built[i].of = Base THEN d ELSE hs[d].built[i].of]].inst

\* The promise of an entry that settles moves no layer and releases none.
LEMMA SettleSane ==
  ASSUME TableInv, NEW d \in Devices, NEW i \in DOMAIN handler[d].built,
         NEW is \in Statuses, NEW error \in BOOLEAN, Settle(d, i, is, error)
  PROVE  AllSane(handler') /\ Settled(handler, handler', d, i, is, error)
<1> DEFINE h == handler[d]
           e == h.built[i]
           o == IF e.of = Base THEN d ELSE e.of
           live == i \in ToSet(h.table)
           x == IF live THEN is ELSE "gone"
           y == IF live THEN host[PluginOf[o]].inst ELSE 0
           f == [e EXCEPT !.is = x, !.error = error, !.inst = y]
           b == [h.built EXCEPT ![i] = f]
           g == [h EXCEPT !.built = b]
<1>1. handler' = [handler EXCEPT ![d] = g]
  BY DEF Settle
<1>2. handler \in Handlers /\ Sane(h) /\ \A c \in Devices : Sane(handler[c])
  BY DEF TableInv, AllSane
<1> HIDE DEF h
<1>3. /\ h = [table |-> h.table, built |-> h.built]
      /\ h.table \in Seq(Nat)
      /\ h.built \in Seq(EntryType) /\ Len(h.built) \in Nat /\ DOMAIN h.built = 1..Len(h.built)
      /\ \A j \in DOMAIN h.built : h.built[j] \in EntryType
  BY <1>2, TableTypes
<1>4. i \in DOMAIN h.built /\ e \in EntryType
  BY <1>3 DEF h
<1>5. o \in Devices
  BY <1>4 DEF EntryType
<1>6. x \in Statuses
  BY DEF Statuses
<1>7. y \in Nat
  <2> HIDE DEF o, live
  <2>1. host[PluginOf[o]].inst \in Nat
    BY <1>5, MixinAssumption DEF TableInv, Rest
  <2> QED
    BY <2>1
<1>8. live => x = is /\ y = host[PluginOf[o]].inst
  OBVIOUS
<1> HIDE DEF x, y
<1>9. /\ f \in EntryType /\ f.of = e.of /\ f.below = e.below /\ f.drops = e.drops
      /\ f.is = x /\ f.inst = y
  <2> HIDE DEF e
  <2> QED
    BY <1>4, <1>6, <1>7 DEF EntryType, Statuses
<1> HIDE DEF f
<1>10. /\ DOMAIN b = DOMAIN h.built /\ b[i] = f
       /\ \A j \in DOMAIN h.built \ {i} : b[j] = h.built[j]
  BY <1>3, <1>4
<1> HIDE DEF b
<1>11. \A j \in DOMAIN h.built :
         /\ b[j] \in EntryType /\ b[j].of = h.built[j].of
         /\ b[j].below = h.built[j].below /\ b[j].drops = h.built[j].drops
  BY <1>3, <1>9, <1>10
<1>12. b \in Seq(EntryType)
  <2>1. b \in [1..Len(h.built) -> EntryType]
    <3>1. b = [j \in DOMAIN h.built |-> b[j]]
      BY <1>3, <1>10 DEF b
    <3> QED
      BY <1>3, <1>11, <3>1
  <2> QED
    BY <1>3, <2>1, FunctionIsSeq
<1>13. g.table = h.table /\ g.built = b /\ g = [table |-> h.table, built |-> b]
  BY <1>3
<1>14. g \in TableType
  BY <1>3, <1>12, <1>13 DEF TableType
<1> HIDE DEF g
<1>15. Sane(g)
  <2>1. Chained(g)
    <3> SUFFICES ASSUME NEW k \in DOMAIN h.table
                 PROVE  /\ h.table[k] \in DOMAIN b
                        /\ b[h.table[k]].below = SubSeq(h.table, 1, k - 1)
                        /\ (b[h.table[k]].of = Base) = (k = 1)
      BY <1>13 DEF Chained
    <3>1. /\ h.table[k] \in DOMAIN h.built
          /\ h.built[h.table[k]].below = SubSeq(h.table, 1, k - 1)
          /\ (h.built[h.table[k]].of = Base) = (k = 1)
      BY <1>2 DEF Sane, Chained
    <3> QED
      BY <1>10, <1>11, <3>1
  <2>2. Released(g)
    <3> SUFFICES ASSUME NEW k \in DOMAIN h.built, b[k].of # Base
                 PROVE  Drops(b[k], k \in ToSet(h.table))
      BY <1>10, <1>13 DEF Released
    <3>1. h.built[k].of # Base
      BY <1>11
    <3>2. Drops(h.built[k], k \in ToSet(h.table))
      BY <1>2, <3>1 DEF Sane, Released
    <3> QED
      BY <1>11, <3>2 DEF Drops
  <2> QED
    BY <1>14, <2>1, <2>2 DEF Sane
<1>16. /\ handler' \in Handlers /\ handler'[d] = g
       /\ \A c \in Devices \ {d} : handler'[c] = handler[c]
  BY <1>1, <1>2, <1>14 DEF Handlers
<1>17. AllSane(handler')
  <2>1. \A c \in Devices : Sane(handler'[c])
    BY <1>2, <1>15, <1>16
  <2> QED
    BY <1>16, <2>1 DEF AllSane
<1>18. Settled(handler, handler', d, i, is, error)
  <2>1. handler'[d].table = h.table /\ handler'[d].built = b
    BY <1>13, <1>16
  <2>2. /\ b[i] \in EntryType /\ b[i].of = e.of /\ b[i].below = e.below /\ b[i].drops = e.drops
        /\ b[i].is = x /\ b[i].inst = y
    BY <1>9, <1>10
  <2>3. \A j \in DOMAIN h.built \ {i} : b[j] = h.built[j]
    BY <1>10
  <2>4. handler'[d].table = handler[d].table /\ DOMAIN b = DOMAIN handler[d].built
    BY <1>10, <2>1 DEF h
  <2>5. \A j \in DOMAIN handler[d].built \ {i} : handler'[d].built[j] = handler[d].built[j]
    BY <2>1, <2>3 DEF h
  <2>6. i \in ToSet(handler[d].table) =>
          /\ handler'[d].built[i].is = is
          /\ handler'[d].built[i].inst =
               host[PluginOf[IF handler[d].built[i].of = Base THEN d ELSE handler[d].built[i].of]].inst
    BY <1>8, <2>1, <2>2 DEF h
  <2>7. /\ handler'[d].built[i] \in EntryType
        /\ handler'[d].built[i].of = handler[d].built[i].of
        /\ handler'[d].built[i].below = handler[d].built[i].below
        /\ handler'[d].built[i].drops = handler[d].built[i].drops
    BY <2>1, <2>2 DEF h
  <2> QED
    BY <1>16, <2>1, <2>4, <2>5, <2>6, <2>7 DEF Settled
<1> QED
  BY <1>17, <1>18

\* setMixins() once its write has ended: the device's table is the list, and no
\* other table changes.
LEMMA SavedRenews ==
  ASSUME TableInv, NEW d \in Devices, SavedMixins(d)
  PROVE  /\ AllRenew(handler, handler')
         /\ d \in devices => Layers(handler'[d]) = mixins[d]
         /\ \A c \in Devices \ {d} : handler'[c] = handler[c]
<1> DEFINE h == handler[d]
           r == Rebuild(h, mixins[d])
           g == EnsureProxy(r, mixins[d])
           x == IF d \in devices THEN g ELSE h
<1>1. handler' = [handler EXCEPT ![d] = x]
  BY DEF SavedMixins
<1>2. Sane(h) /\ mixins[d] \in Lists /\ AllSane(handler) /\ handler \in Handlers
  BY DEF TableInv, AllSane, Rest
<1>3. Renews(h, r, mixins[d]) /\ Sane(r) /\ (r.table = <<>> \/ Layers(r) = mixins[d])
  BY <1>2, RebuildSane DEF Renews
<1> HIDE DEF r
<1>4. Renews(r, g, mixins[d]) /\ Layers(g) = mixins[d]
  BY <1>2, <1>3, EnsureSane DEF Renews
<1> HIDE DEF g
<1>5. Renews(h, x, mixins[d])
  BY <1>2, <1>3, <1>4, RenewsTwice, RenewsSelf
<1>6. d \in devices => x = g
  OBVIOUS
<1> HIDE DEF x
<1>7. AllRenew(handler, handler')
  BY <1>1, <1>2, <1>5, AllRenewOne
<1>8. handler'[d] = x /\ \A c \in Devices \ {d} : handler'[c] = handler[c]
  BY <1>1, <1>2 DEF Handlers
<1> QED
  BY <1>4, <1>6, <1>7, <1>8

\* A call of a device builds at most its table.
LEMMA CallRenews ==
  ASSUME TableInv, NEW d \in Devices, Call(d)
  PROVE  AllRenew(handler, handler')
<1>1. handler' = [handler EXCEPT ![d] = EnsureProxy(handler[d], mixins[d])]
  BY DEF Call
<1>2. Sane(handler[d]) /\ mixins[d] \in Lists /\ AllSane(handler)
  BY DEF TableInv, AllSane, Rest
<1> QED
  BY <1>1, <1>2, EnsureRenews, AllRenewOne

\* A device that is set up anew or removed loses its table, others keep theirs.
LEMMA DropRenews ==
  ASSUME TableInv, NEW d \in Devices, Upserted(d) \/ RemoveDevice(d)
  PROVE  AllRenew(handler, handler')
<1>1. handler' = [handler EXCEPT ![d] = Invalidate(handler[d])]
  BY DEF Upserted, RemoveDevice
<1>2. Sane(handler[d]) /\ AllSane(handler)
  BY DEF TableInv, AllSane
<1> QED
  BY <1>1, <1>2, InvalidateRenews, AllRenewOne

\* Whatever is settled in a table was not given by one of `ids`.
Rid(hs, ids) ==
  \A d \in devices : \A i \in ToSet(hs[d].table) :
    hs[d].built[i].is = "pending" \/ hs[d].built[i].of \notin ids

\* invalidateMixins() renews all tables, and leaves no settled layer of ids.
LEMMA MixinsRenews ==
  ASSUME TableInv, NEW hs, AllSane(hs), NEW ids
  PROVE  /\ AllRenew(hs, InvalidateMixins(hs, ids))
         /\ Rid(InvalidateMixins(hs, ids), ids)
<1>1. mixins \in [Devices -> Lists] /\ devices \subseteq Devices
  BY DEF TableInv, Rest
<1> QED
  BY <1>1, MixinsSane DEF Rid

\* What is settled stays rid of `ids` when the tables are renewed.
LEMMA RidRenews ==
  ASSUME TableInv, NEW hs, NEW gs, AllRenew(hs, gs), NEW ids, Rid(hs, ids)
  PROVE  Rid(gs, ids)
<1> SUFFICES ASSUME NEW d \in devices, NEW i \in ToSet(gs[d].table)
             PROVE  gs[d].built[i].is = "pending" \/ gs[d].built[i].of \notin ids
  BY DEF Rid
<1>1. Descends(hs[d], gs[d])
  BY DEF AllRenew, Renews, TableInv, Rest
<1>2. CASE i \in ToSet(hs[d].table) /\ gs[d].built[i] = hs[d].built[i]
  BY <1>2 DEF Rid
<1> QED
  BY <1>1, <1>2 DEF Descends

\* A plugin that is killed invalidates tables and does nothing else to them.
LEMMA KillRenews ==
  ASSUME TableInv, NEW p, Kill(p) \/ KillAgain(p)
  PROVE  AllRenew(handler, handler')
<1>1. AllSane(handler) /\ handler' = InvalidateMixins(handler, Of(p))
  BY DEF Kill, KillAgain, TableInv
<1> QED
  BY <1>1, MixinsRenews

\* The end of a removal renews all tables, and leaves no settled layer of the
\* device.
LEMMA RemovedRenews ==
  ASSUME TableInv, NEW d, Removed(d)
  PROVE  AllRenew(handler, handler') /\ Rid(handler', {d})
<1>1. AllSane(handler) /\ handler' = InvalidateMixins(handler, {d})
  BY DEF Removed, TableInv
<1> QED
  BY <1>1, MixinsRenews

\* A load leaves no settled layer of the plugin's providers, and no settled
\* entry at all in the tables of its devices.
LEMMA LoadRenews ==
  ASSUME TableInv, NEW p, Load(p)
  PROVE  /\ AllRenew(handler, handler')
         /\ Rid(handler', Of(p))
         /\ \A d \in Of(p) : \A i \in ToSet(handler'[d].table) :
              handler'[d].built[i].is = "pending"
<1> DEFINE first   == InvalidateMixins(handler, Of(p))
           killed  == InvalidateMixins(first, Of(p))
           renewed == [d \in Devices |-> IF d \in Of(p) THEN Invalidate(killed[d]) ELSE killed[d]]
           probed  == [d \in Devices |->
             IF d \in Of(p) \/ (d \in devices /\ ToSet(mixins[d]) \cap Of(p) # {})
             THEN EnsureProxy(renewed[d], mixins[d]) ELSE renewed[d]]
<1>1. handler' = probed \/ handler' = renewed
  BY DEF Load
<1>2. AllSane(handler) /\ mixins \in [Devices -> Lists] /\ Of(p) \subseteq Devices
  BY DEF TableInv, Rest, Of
<1>3. AllRenew(handler, first) /\ AllSane(first)
  BY <1>2, MixinsRenews DEF AllRenew
<1> HIDE DEF first
<1>4. AllRenew(first, killed) /\ Rid(killed, Of(p))
  BY <1>3, MixinsRenews
<1>5. AllRenew(handler, killed) /\ \A d \in Devices : Sane(killed[d])
  BY <1>3, <1>4, AllRenewTwice DEF AllRenew, AllSane
<1> HIDE DEF killed
<1>6. /\ AllRenew(killed, renewed)
      /\ \A d \in Of(p) : renewed[d].table = <<>>
  <2>1. \A d \in Devices : renewed[d] = IF d \in Of(p) THEN Invalidate(killed[d]) ELSE killed[d]
    OBVIOUS
  <2>2. renewed = [d \in Devices |-> renewed[d]]
    OBVIOUS
  <2> HIDE DEF renewed
  <2>3. \A d \in Devices : Renews(killed[d], renewed[d], mixins[d])
    BY <1>5, <2>1, InvalidateRenews, RenewsSelf
  <2>4. \A d \in Of(p) : renewed[d].table = <<>>
    BY <1>2, <1>5, <2>1, InvalidateSane
  <2> QED
    BY <2>2, <2>3, <2>4, AllRenewEach
<1>7. \A d \in Devices : Sane(renewed[d])
  BY <1>6 DEF AllRenew, AllSane
<1> HIDE DEF renewed
<1>8. AllRenew(renewed, probed)
  <2>1. \A d \in Devices : probed[d] = renewed[d] \/ probed[d] = EnsureProxy(renewed[d], mixins[d])
    OBVIOUS
  <2>2. probed = [d \in Devices |-> probed[d]]
    OBVIOUS
  <2> HIDE DEF probed
  <2>3. ASSUME NEW d \in Devices PROVE Renews(renewed[d], probed[d], mixins[d])
    <3>1. Sane(renewed[d]) /\ mixins[d] \in Lists
      BY <1>2, <1>7
    <3>2. CASE probed[d] = renewed[d]
      BY <3>1, <3>2, RenewsSelf
    <3>3. CASE probed[d] = EnsureProxy(renewed[d], mixins[d])
      BY <3>1, <3>3, EnsureRenews
    <3> QED
      BY <2>1, <3>2, <3>3
  <2> QED
    BY <2>2, <2>3, AllRenewEach
<1> HIDE DEF probed
<1>9. AllRenew(renewed, handler')
  <2>1. AllRenew(renewed, renewed)
    BY <1>6, AllRenewSelf DEF AllRenew
  <2> QED
    BY <1>1, <1>8, <2>1
<1>10. AllRenew(killed, handler')
  BY <1>6, <1>9, AllRenewTwice
<1>11. AllRenew(handler, handler')
  BY <1>5, <1>10, AllRenewTwice
<1>12. Rid(handler', Of(p))
  BY <1>4, <1>10, RidRenews
<1>13. ASSUME NEW d \in Of(p), NEW i \in ToSet(handler'[d].table)
       PROVE  handler'[d].built[i].is = "pending"
  <2>1. Descends(renewed[d], handler'[d])
    BY <1>2, <1>9 DEF AllRenew, Renews
  <2>2. i \notin ToSet(renewed[d].table)
    BY <1>6, EmptyTable
  <2> QED
    BY <2>1, <2>2 DEF Descends
<1> QED
  BY <1>11, <1>12, <1>13

Promise(d, i) ==
  BaseReturns(d, i) \/ MixinReturns(d, i) \/ Declines(d, i) \/ PassesThrough(d, i)

\* A promise that settles has heard from the present instance of a plugin whose
\* provider is there, unless it passes a provider that is not.
LEMMA PromiseSettles ==
  ASSUME TableInv, NEW d \in Devices, NEW i \in DOMAIN handler[d].built, Promise(d, i)
  PROVE  /\ AllSane(handler')
         /\ \E is \in Statuses, error \in BOOLEAN :
              /\ Settled(handler, handler', d, i, is, error)
              /\ is = "layer" => handler[d].built[i].of \in devices \cup {Base}
<1>1. ASSUME NEW is \in Statuses, NEW error \in BOOLEAN, Settle(d, i, is, error),
             is = "layer" => handler[d].built[i].of \in devices \cup {Base}
      PROVE  /\ AllSane(handler')
             /\ \E x \in Statuses, y \in BOOLEAN :
                  /\ Settled(handler, handler', d, i, x, y)
                  /\ x = "layer" => handler[d].built[i].of \in devices \cup {Base}
  BY <1>1, SettleSane
<1>2. /\ "layer" \in Statuses /\ "failed" \in Statuses /\ "through" \in Statuses
      /\ TRUE \in BOOLEAN /\ FALSE \in BOOLEAN
  BY DEF Statuses
<1>3. ErrorBelow(d, i) \in BOOLEAN
  BY DEF ErrorBelow
<1>4. CASE BaseReturns(d, i)
  <2>1. handler[d].built[i].of \in devices \cup {Base}
    BY <1>4 DEF BaseReturns
  <2>2. Settle(d, i, "layer", FALSE) \/ Settle(d, i, "failed", FALSE)
    BY <1>4 DEF BaseReturns
  <2> QED
    BY <1>1, <1>2, <2>1, <2>2
<1>5. CASE MixinReturns(d, i)
  <2>1. handler[d].built[i].of \in devices \cup {Base}
    BY <1>5 DEF MixinReturns
  <2>2. Settle(d, i, "layer", ErrorBelow(d, i)) \/ Settle(d, i, "failed", TRUE)
    BY <1>5 DEF MixinReturns
  <2> QED
    BY <1>1, <1>2, <1>3, <2>1, <2>2
<1>6. CASE Declines(d, i)
  <2>1. Settle(d, i, "through", ErrorBelow(d, i)) /\ "through" # "layer"
    BY <1>6 DEF Declines
  <2> QED
    BY <1>1, <1>2, <1>3, <2>1
<1>7. CASE PassesThrough(d, i)
  <2>1. Settle(d, i, "through", ErrorBelow(d, i)) /\ "through" # "layer"
    BY <1>7 DEF PassesThrough
  <2> QED
    BY <1>1, <1>2, <1>3, <2>1
<1> QED
  BY <1>4, <1>5, <1>6, <1>7 DEF Promise

\* A list from which a mixin is taken out is a list.
LEMMA RemoveLists ==
  ASSUME NEW ms \in Lists, NEW m
  PROVE  RemoveFirst(ms, m) \in Lists
<1>1. ms \in Seq(Devices) /\ IsInjective(ms)
  BY DEF Lists
<1>2. ASSUME NEW k \in DOMAIN ms PROVE RemoveAt(ms, k) \in Lists
  BY <1>1, RemoveFacts, RemoveInjects DEF Lists
<1> QED
  BY <1>1, <1>2, RemoveFirstFacts

\* The actions, in the order of Next.
LEMMA TableActions ==
  ASSUME TableInv, Next
  PROVE  \/ \E d \in Devices : \/ \E ms \in Offer[d] : SetMixins(d, ms)
                               \/ SavedMixins(d)
                               \/ Call(d)
                               \/ Upserted(d)
                               \/ RemoveDevice(d)
                               \/ Removed(d)
         \/ \E p \in Plugins : Kill(p) \/ KillAgain(p) \/ Load(p)
         \/ \E d \in Devices : \E i \in DOMAIN handler[d].built : Promise(d, i)
BY DEF Next, Promise

\* No table is built yet.
LEMMA InitInv == Init => TableInv
<1> SUFFICES ASSUME Init PROVE TableInv
  OBVIOUS
<1> DEFINE e == [table |-> <<>>, built |-> <<>>]
<1>1. Sane(e)
  <2>1. e \in TableType
    BY EmptyTable DEF TableType
  <2>2. Chained(e) /\ Released(e)
    BY EmptyTable DEF Chained, Released
  <2> QED
    BY <2>1, <2>2 DEF Sane
<1>2. e \in TableType
  BY <1>1 DEF Sane
<1>3. handler = [d \in Devices |-> e]
  BY DEF Init
<1> HIDE DEF e
<1>4. AllSane(handler)
  BY <1>1, <1>2, <1>3 DEF AllSane, Handlers
<1>5. host \in [Plugins -> [inst : Nat, up : BOOLEAN]]
  <2>1. [inst |-> 1, up |-> TRUE] \in [inst : Nat, up : BOOLEAN]
    OBVIOUS
  <2> QED
    BY <2>1 DEF Init
<1>6. /\ devices \subseteq Devices /\ removing \subseteq Devices \ devices
      /\ mixins \in [Devices -> Lists] /\ saving \in [Devices -> Nat]
  BY MixinAssumption DEF Init
<1> QED
  BY <1>4, <1>5, <1>6 DEF TableInv, Rest

\* A table that is sane stays so when devices are removed.
LEMMA SaneThen ==
  ASSUME AllSane(handler'), devices' \subseteq devices
  PROVE  AllSane(handler)'
BY DEF AllSane, Sane, Released, Drops

\* Every step keeps the tables sane.
LEMMA StepInv == TableInv /\ [Next]_vars => TableInv'
<1> SUFFICES ASSUME TableInv, [Next]_vars PROVE TableInv'
  OBVIOUS
<1> USE DEF Rest
<1>1. Rest /\ AllSane(handler)
  BY DEF TableInv
<1>2. ASSUME NEW d \in Devices, NEW ms \in Offer[d], SetMixins(d, ms) PROVE TableInv'
  <2>1. ms \in Lists
    BY MixinAssumption
  <2>2. mixins' \in [Devices -> Lists]
    BY <1>1, <1>2, <2>1 DEF SetMixins
  <2>3. saving' \in [Devices -> Nat]
    BY <1>1, <1>2 DEF SetMixins
  <2>4. UNCHANGED <<devices, removing, handler, host>>
    BY <1>2 DEF SetMixins
  <2> QED
    BY <1>1, <2>2, <2>3, <2>4, SaneThen DEF TableInv
<1>3. ASSUME NEW d \in Devices, SavedMixins(d) PROVE TableInv'
  <2>1. AllSane(handler')
    BY <1>3, SavedRenews DEF AllRenew
  <2>2. saving[d] - 1 \in Nat
    BY <1>1, <1>3 DEF SavedMixins
  <2>3. saving' \in [Devices -> Nat]
    BY <1>1, <1>3, <2>2 DEF SavedMixins
  <2>4. UNCHANGED <<devices, removing, mixins, host>>
    BY <1>3 DEF SavedMixins
  <2> QED
    BY <1>1, <2>1, <2>3, <2>4, SaneThen DEF TableInv
<1>4. ASSUME NEW d \in Devices, Call(d) PROVE TableInv'
  <2>1. AllSane(handler')
    BY <1>4, CallRenews DEF AllRenew
  <2>2. UNCHANGED <<devices, removing, mixins, host, saving>>
    BY <1>4 DEF Call
  <2> QED
    BY <1>1, <2>1, <2>2, SaneThen DEF TableInv
<1>5. ASSUME NEW d \in Devices, Upserted(d) PROVE TableInv'
  <2>1. AllSane(handler')
    BY <1>5, DropRenews DEF AllRenew
  <2>2. UNCHANGED <<devices, removing, mixins, host, saving>>
    BY <1>5 DEF Upserted
  <2> QED
    BY <1>1, <2>1, <2>2, SaneThen DEF TableInv
<1>6. ASSUME NEW d \in Devices, RemoveDevice(d) PROVE TableInv'
  <2>1. AllSane(handler')
    BY <1>6, DropRenews DEF AllRenew
  <2>2. devices' \subseteq devices /\ devices' \subseteq Devices /\ removing' \subseteq Devices \ devices'
    BY <1>1, <1>6 DEF RemoveDevice
  <2>3. UNCHANGED <<mixins, host, saving>>
    BY <1>6 DEF RemoveDevice
  <2> QED
    BY <1>1, <2>1, <2>2, <2>3, SaneThen DEF TableInv
<1>7. ASSUME NEW d \in Devices, Removed(d) PROVE TableInv'
  <2>1. AllSane(handler')
    BY <1>7, RemovedRenews DEF AllRenew
  <2>2. removing' \subseteq Devices \ devices
    BY <1>1, <1>7 DEF Removed
  <2>3. UNCHANGED <<devices, mixins, host, saving>>
    BY <1>7 DEF Removed
  <2> QED
    BY <1>1, <2>1, <2>2, <2>3, SaneThen DEF TableInv
<1>8. ASSUME NEW p \in Plugins, Kill(p) \/ KillAgain(p) PROVE TableInv'
  <2>1. AllSane(handler')
    BY <1>8, KillRenews DEF AllRenew
  <2>2. host' \in [Plugins -> [inst : Nat, up : BOOLEAN]]
    <3>1. host' = host \/ host' = [host EXCEPT ![p] = [host[p] EXCEPT !.up = FALSE]]
      BY <1>8 DEF Kill, KillAgain
    <3>2. [host[p] EXCEPT !.up = FALSE] \in [inst : Nat, up : BOOLEAN]
      BY <1>1
    <3> QED
      BY <1>1, <3>1, <3>2
  <2>3. UNCHANGED <<devices, removing, mixins, saving>>
    BY <1>8 DEF Kill, KillAgain
  <2> QED
    BY <1>1, <2>1, <2>2, <2>3, SaneThen DEF TableInv
<1>9. ASSUME NEW p \in Plugins, Load(p) PROVE TableInv'
  <2>1. AllSane(handler')
    BY <1>9, LoadRenews DEF AllRenew
  <2>2. host' \in [Plugins -> [inst : Nat, up : BOOLEAN]]
    <3>1. \/ host' = [host EXCEPT ![p] = [inst |-> host[p].inst + 1, up |-> TRUE]]
          \/ host' = [host EXCEPT ![p] = [host[p] EXCEPT !.up = FALSE]]
      BY <1>9 DEF Load
    <3>2. host[p] \in [inst : Nat, up : BOOLEAN] /\ host[p].inst + 1 \in Nat
      BY <1>1
    <3>3. [inst |-> host[p].inst + 1, up |-> TRUE] \in [inst : Nat, up : BOOLEAN]
      BY <3>2
    <3>4. [host[p] EXCEPT !.up = FALSE] \in [inst : Nat, up : BOOLEAN]
      BY <3>2
    <3> QED
      BY <1>1, <3>1, <3>3, <3>4
  <2>3. UNCHANGED <<devices, removing, mixins, saving>>
    BY <1>9 DEF Load
  <2> QED
    BY <1>1, <2>1, <2>2, <2>3, SaneThen DEF TableInv
<1>10. ASSUME NEW d \in Devices, NEW i \in DOMAIN handler[d].built, Promise(d, i)
       PROVE  TableInv'
  <2>1. AllSane(handler')
    BY <1>10, PromiseSettles
  <2>2. mixins' \in [Devices -> Lists]
    <3>1. \/ mixins' = mixins
          \/ mixins' = [mixins EXCEPT ![d] = RemoveFirst(mixins[d], handler[d].built[i].of)]
      BY <1>1, <1>10 DEF Promise, BaseReturns, MixinReturns, Declines, PassesThrough
    <3>2. RemoveFirst(mixins[d], handler[d].built[i].of) \in Lists
      BY <1>1, RemoveLists
    <3> QED
      BY <1>1, <3>1, <3>2
  <2>3. UNCHANGED <<devices, removing, host, saving>>
    BY <1>10 DEF Promise, BaseReturns, MixinReturns, Declines, PassesThrough
  <2> QED
    BY <1>1, <2>1, <2>2, <2>3, SaneThen DEF TableInv
<1>11. CASE UNCHANGED vars
  BY <1>1, <1>11, SaneThen DEF TableInv, vars
<1> QED
  BY <1>2, <1>3, <1>4, <1>5, <1>6, <1>7, <1>8, <1>9, <1>10, <1>11, TableActions

\* The tables of the devices are sane in every state.
THEOREM TableInvariant == Spec => []TableInv
BY InitInv, StepInv, PTL DEF Spec

\* TypeOK: tables name entries, entries name providers, lists have no mixin
\* twice.
THEOREM TypeCorrect == Spec => []TypeOK
<1>1. TableInv => TypeOK
  BY DEF TableInv, AllSane, Rest, Handlers, TableType, TypeOK
<1> QED
  BY <1>1, TableInvariant, PTL

\* ChainIntact: the layers of a live table wrap each other, whatever was cut,
\* rebuilt or invalidated since they were built.
THEOREM ChainCorrect == Spec => []ChainIntact
<1>1. TableInv => ChainIntact
  BY DEF TableInv, AllSane, Sane, Chained, ChainIntact
<1> QED
  BY <1>1, TableInvariant, PTL

\* ReleasedOnce: a mixin that is in the table was not released; one that left it
\* was released at most once, and once unless its provider is removed.
THEOREM ReleaseCorrect == Spec => []ReleasedOnce
<1>1. TableInv => ReleasedOnce
  BY DEF TableInv, AllSane, Sane, Released, Drops, ReleasedOnce
<1> QED
  BY <1>1, TableInvariant, PTL
-----------------------------------------------------------------------------
(* Stale layers *)

Owner(d, e) == IF e.of = Base THEN d ELSE e.of

\* A settled entry of d is no stale one, with the devices ds, those being
\* removed rs and the hosts xs.
Current(d, e, ds, rs, xs) ==
  IF Owner(d, e) \in ds
  THEN xs[PluginOf[Owner(d, e)]].up => e.inst = xs[PluginOf[Owner(d, e)]].inst
  ELSE e.is = "layer" => Owner(d, e) \in rs

Fresh(hs, ds, rs, xs) ==
  \A d \in ds : \A i \in ToSet(hs[d].table) :
    hs[d].built[i].is # "pending" => Current(d, hs[d].built[i], ds, rs, xs)

\* The property as the proof states it: of tables, of devices and of hosts.
LEMMA FreshIsNoStale == NoStaleLayer <=> Fresh(handler, devices, removing, host)
BY DEF NoStaleLayer, Fresh, Current, Owner

\* What is settled in a renewed table was there before.
LEMMA FreshRenews ==
  ASSUME TableInv, Fresh(handler, devices, removing, host),
         NEW gs, AllRenew(handler, gs), NEW ds, NEW rs, NEW xs, ds \subseteq devices,
         \A d \in ds : \A i \in ToSet(gs[d].table) :
           /\ gs[d].built[i].is # "pending"
           /\ Current(d, gs[d].built[i], devices, removing, host)
           => Current(d, gs[d].built[i], ds, rs, xs)
  PROVE  Fresh(gs, ds, rs, xs)
<1> SUFFICES ASSUME NEW d \in ds, NEW i \in ToSet(gs[d].table), gs[d].built[i].is # "pending"
             PROVE  Current(d, gs[d].built[i], ds, rs, xs)
  BY DEF Fresh
<1>1. d \in devices /\ d \in Devices
  BY DEF TableInv, Rest
<1>2. Descends(handler[d], gs[d])
  BY <1>1 DEF AllRenew, Renews
<1>3. i \in ToSet(handler[d].table) /\ gs[d].built[i] = handler[d].built[i]
  BY <1>2 DEF Descends
<1>4. Current(d, gs[d].built[i], devices, removing, host)
  BY <1>1, <1>3 DEF Fresh
<1> QED
  BY <1>4

\* Every step keeps what is settled current.
LEMMA FreshStep ==
  ASSUME TableInv, Fresh(handler, devices, removing, host), [Next]_vars
  PROVE  Fresh(handler', devices', removing', host')
<1>1. Rest /\ AllSane(handler)
  BY DEF TableInv
<1>2. CASE /\ UNCHANGED <<devices, removing, host>> /\ AllRenew(handler, handler')
  BY <1>2, FreshRenews
<1>3. ASSUME NEW d \in Devices, NEW ms \in Offer[d], SetMixins(d, ms)
      PROVE  Fresh(handler', devices', removing', host')
  <2>1. UNCHANGED <<devices, removing, host, handler>>
    BY <1>3 DEF SetMixins
  <2> QED
    BY <2>1
<1>4. ASSUME NEW d \in Devices, SavedMixins(d)
      PROVE  Fresh(handler', devices', removing', host')
  <2>1. UNCHANGED <<devices, removing, host>>
    BY <1>4 DEF SavedMixins
  <2> QED
    BY <1>2, <1>4, <2>1, SavedRenews
<1>5. ASSUME NEW d \in Devices, Call(d)
      PROVE  Fresh(handler', devices', removing', host')
  <2>1. UNCHANGED <<devices, removing, host>>
    BY <1>5 DEF Call
  <2> QED
    BY <1>2, <1>5, <2>1, CallRenews
<1>6. ASSUME NEW d \in Devices, Upserted(d)
      PROVE  Fresh(handler', devices', removing', host')
  <2>1. UNCHANGED <<devices, removing, host>>
    BY <1>6 DEF Upserted
  <2> QED
    BY <1>2, <1>6, <2>1, DropRenews
<1>7. ASSUME NEW d \in Devices, RemoveDevice(d)
      PROVE  Fresh(handler', devices', removing', host')
  <2>1. /\ devices' = devices \ {d} /\ removing' = removing \cup {d}
        /\ host' = host /\ AllRenew(handler, handler')
    BY <1>7, DropRenews DEF RemoveDevice
  <2>2. ASSUME NEW c, NEW e, Current(c, e, devices, removing, host)
        PROVE  Current(c, e, devices', removing', host')
    BY <2>1, <2>2 DEF Current
  <2>3. devices' \subseteq devices
    BY <2>1
  <2> QED
    BY <2>1, <2>2, <2>3, FreshRenews
<1>8. ASSUME NEW d \in Devices, Removed(d)
      PROVE  Fresh(handler', devices', removing', host')
  <2>1. /\ d \in removing /\ removing' = removing \ {d} /\ devices' = devices /\ host' = host
        /\ AllRenew(handler, handler') /\ Rid(handler', {d})
    BY <1>8, RemovedRenews DEF Removed
  <2>2. d \notin devices
    BY <1>1, <2>1 DEF Rest
  <2>3. ASSUME NEW c \in devices, NEW i \in ToSet(handler'[c].table),
               handler'[c].built[i].is # "pending",
               Current(c, handler'[c].built[i], devices, removing, host)
        PROVE  Current(c, handler'[c].built[i], devices, removing', host)
    <3> DEFINE e == handler'[c].built[i]
    <3>1. e.of # d
      BY <2>1, <2>3 DEF Rid
    <3>2. Owner(c, e) # d
      BY <2>2, <3>1 DEF Owner
    <3> HIDE DEF e
    <3>3. Current(c, e, devices, removing', host)
      <4>1. Current(c, e, devices, removing, host)
        BY <2>3 DEF e
      <4> QED
        BY <2>1, <3>2, <4>1 DEF Current
    <3> QED
      BY <3>3 DEF e
  <2> QED
    BY <2>1, <2>3, FreshRenews
<1>9. ASSUME NEW p \in Plugins, AllRenew(handler, handler'),
             UNCHANGED <<devices, removing>>,
             host' = host \/ host' = [host EXCEPT ![p].up = FALSE]
      PROVE  Fresh(handler', devices', removing', host')
  <2>1. host' \in [Plugins -> [inst : Nat, up : BOOLEAN]]
        /\ \A q \in Plugins : host'[q].up => host'[q] = host[q]
    BY <1>1, <1>9 DEF Rest
  <2>2. ASSUME NEW c \in devices, NEW e, Current(c, e, devices, removing, host)
        PROVE  Current(c, e, devices, removing, host')
    <3>1. Owner(c, e) \in devices => PluginOf[Owner(c, e)] \in Plugins
      BY <1>1, MixinAssumption DEF Rest
    <3> QED
      BY <2>1, <2>2, <3>1 DEF Current
  <2> QED
    BY <1>9, <2>2, FreshRenews
<1>10. ASSUME NEW p \in Plugins, Kill(p) \/ KillAgain(p)
       PROVE  Fresh(handler', devices', removing', host')
  <2>1. /\ UNCHANGED <<devices, removing>>
        /\ host' = host \/ host' = [host EXCEPT ![p].up = FALSE]
    BY <1>10 DEF Kill, KillAgain
  <2> QED
    BY <1>9, <1>10, <2>1, KillRenews
<1>11. ASSUME NEW p \in Plugins, Load(p)
       PROVE  Fresh(handler', devices', removing', host')
  <2>1. /\ UNCHANGED <<devices, removing>>
        /\ \/ host' = [host EXCEPT ![p] = [inst |-> host[p].inst + 1, up |-> TRUE]]
           \/ host' = [host EXCEPT ![p].up = FALSE]
    BY <1>11 DEF Load
  <2>2. /\ AllRenew(handler, handler') /\ Rid(handler', Of(p))
        /\ \A d \in Of(p) : \A i \in ToSet(handler'[d].table) :
             handler'[d].built[i].is = "pending"
    BY <1>11, LoadRenews
  <2>3. CASE host' = [host EXCEPT ![p] = [inst |-> host[p].inst + 1, up |-> TRUE]]
    <3>1. \A q \in Plugins : q # p => host'[q] = host[q]
      BY <1>1, <2>3 DEF Rest
    <3>2. ASSUME NEW c \in devices, NEW i \in ToSet(handler'[c].table),
                 handler'[c].built[i].is # "pending",
                 Current(c, handler'[c].built[i], devices, removing, host)
          PROVE  Current(c, handler'[c].built[i], devices, removing, host')
      <4> DEFINE e == handler'[c].built[i]
      <4>1. e.of \notin Of(p) /\ c \notin Of(p)
        BY <2>2, <3>2 DEF Rid
      <4>2. Owner(c, e) \notin Of(p)
        BY <4>1 DEF Owner
      <4>3. Current(c, e, devices, removing, host)
        BY <3>2
      <4> HIDE DEF e
      <4>4. Owner(c, e) \in devices =>
              PluginOf[Owner(c, e)] \in Plugins /\ PluginOf[Owner(c, e)] # p
        BY <1>1, <4>2, MixinAssumption DEF Rest, Of
      <4>5. Current(c, e, devices, removing, host')
        BY <3>1, <4>3, <4>4 DEF Current
      <4> QED
        BY <4>5 DEF e
    <3> QED
      BY <2>1, <2>2, <3>2, FreshRenews
  <2>4. CASE host' = [host EXCEPT ![p].up = FALSE]
    BY <1>9, <2>1, <2>2, <2>4
  <2> QED
    BY <2>1, <2>3, <2>4
<1>12. ASSUME NEW d \in Devices, NEW i \in DOMAIN handler[d].built, Promise(d, i)
       PROVE  Fresh(handler', devices', removing', host')
  <2>1. UNCHANGED <<devices, removing, host>>
    BY <1>12 DEF Promise, BaseReturns, MixinReturns, Declines, PassesThrough
  <2>2. PICK is \in Statuses, error \in BOOLEAN :
          /\ Settled(handler, handler', d, i, is, error)
          /\ is = "layer" => handler[d].built[i].of \in devices \cup {Base}
    BY <1>12, PromiseSettles
  <2> SUFFICES ASSUME NEW c \in devices, NEW k \in ToSet(handler'[c].table),
                      handler'[c].built[k].is # "pending"
               PROVE  Current(c, handler'[c].built[k], devices, removing, host)
    BY <2>1 DEF Fresh
  <2>3. c \in Devices
    BY <1>1 DEF Rest
  <2>4. CASE c # d \/ k # i
    <3>1. handler'[c].table = handler[c].table
      BY <2>2, <2>3 DEF Settled
    <3>2. k \in ToSet(handler[c].table)
      BY <3>1
    <3>3. k \in DOMAIN handler[c].built
      <4>1. Sane(handler[c])
        BY <1>1, <2>3 DEF AllSane
      <4> QED
        BY <3>2, <4>1, TableTypes DEF ToSet
    <3>4. handler'[c].built[k] = handler[c].built[k]
      BY <2>2, <2>3, <2>4, <3>3 DEF Settled
    <3> QED
      BY <3>2, <3>4 DEF Fresh
  <2>5. CASE c = d /\ k = i
    <3> DEFINE e == handler[d].built[i]
               f == handler'[d].built[i]
    <3>1. i \in ToSet(handler[d].table)
      BY <2>2, <2>5 DEF Settled
    <3>2. f.of = e.of /\ f.is = is
      BY <2>2, <3>1 DEF Settled
    <3>3. f.inst = host[PluginOf[IF e.of = Base THEN d ELSE e.of]].inst
      BY <2>2, <3>1 DEF Settled
    <3>4. is = "layer" => e.of \in devices \cup {Base}
      BY <2>2
    <3> HIDE DEF e, f
    <3>5. Owner(d, f) = IF e.of = Base THEN d ELSE e.of
      BY <3>2 DEF Owner
    <3>6. f.inst = host[PluginOf[Owner(d, f)]].inst
      BY <3>3, <3>5
    <3>7. f.is = "layer" => Owner(d, f) \in devices
      BY <2>5, <3>2, <3>4, <3>5
    <3>8. Current(d, f, devices, removing, host)
      BY <3>6, <3>7 DEF Current
    <3> QED
      BY <2>5, <3>8 DEF f
  <2> QED
    BY <2>4, <2>5
<1>13. CASE UNCHANGED vars
  BY <1>13 DEF vars
<1> QED
  BY <1>3, <1>4, <1>5, <1>6, <1>7, <1>8, <1>10, <1>11, <1>12, <1>13, TableActions

\* NoStaleLayer: no live table holds a layer, or the failure to get one, of an
\* earlier instance of a plugin that is up again, nor a layer of a provider that
\* is removed. What the step of another device renews is pending or was there.
THEOREM StaleCorrect == Spec => []NoStaleLayer
<1> DEFINE Inv == TableInv /\ Fresh(handler, devices, removing, host)
<1>1. Init => Inv
  <2>1. Init => Fresh(handler, devices, removing, host)
    BY EmptyTable DEF Init, Fresh
  <2> QED
    BY <2>1, InitInv
<1>2. Inv /\ [Next]_vars => Inv'
  BY FreshStep, StepInv
<1>3. Inv => NoStaleLayer
  BY FreshIsNoStale
<1> QED
  BY <1>1, <1>2, <1>3, PTL DEF Spec
-----------------------------------------------------------------------------
(* Lists and layers *)

Listed(hs, ms, ds, sv) ==
  \A d \in ds : sv[d] = 0 /\ hs[d].table # <<>> => Follows(Layers(hs[d]), ms[d])

\* A list follows itself.
LEMMA FollowsSelf == ASSUME NEW ms \in Lists PROVE Follows(ms, ms)
<1>1. ms \in Seq(Devices) /\ IsInjective(ms) /\ DOMAIN ms = 1..Len(ms) /\ Len(ms) \in Nat
  BY ListFacts
<1> QED
  BY <1>1 DEF Follows, IsInjective

\* Layers follow a list from which a mixin is taken out.
LEMMA FollowsRemove ==
  ASSUME NEW ms \in Lists, NEW ls, Follows(ls, ms), NEW m
  PROVE  Follows(ls, RemoveFirst(ms, m))
<1>1. ms \in Seq(Devices)
  BY DEF Lists
<1>2. ASSUME NEW k \in DOMAIN ms PROVE Follows(ls, RemoveAt(ms, k))
  <2> DEFINE rs == RemoveAt(ms, k)
  <2>1. \A i \in DOMAIN rs : \E j \in DOMAIN ms : ms[j] = rs[i]
    BY <1>1, RemoveOnlyDrops
  <2>2. \A i, j \in DOMAIN rs : i < j =>
          \E a, b \in DOMAIN ms : ms[a] = rs[i] /\ ms[b] = rs[j] /\ a < b
    BY <1>1, RemoveOrders
  <2> HIDE DEF rs
  <2>3. ToSet(rs) \subseteq ToSet(ls)
    BY <2>1 DEF ToSet, Follows
  <2>4. ASSUME NEW i \in DOMAIN rs, NEW j \in DOMAIN rs,
               NEW k1 \in DOMAIN ls, NEW l \in DOMAIN ls,
               ls[k1] = rs[i], ls[l] = rs[j], i < j
        PROVE  k1 < l
    <3>1. PICK a \in DOMAIN ms, b \in DOMAIN ms : ms[a] = rs[i] /\ ms[b] = rs[j] /\ a < b
      BY <2>2, <2>4
    <3>2. ls[k1] = ms[a] /\ ls[l] = ms[b]
      BY <2>4, <3>1
    <3> QED
      BY <3>1, <3>2 DEF Follows
  <2>5. Follows(ls, rs)
    BY <2>3, <2>4 DEF Follows
  <2> QED
    BY <2>5 DEF rs
<1> QED
  BY <1>1, <1>2, RemoveFirstFacts

\* A renewed table is as it was, or empty, or has what is listed.
LEMMA ListedRenews ==
  ASSUME TableInv, Listed(handler, mixins, devices, saving),
         NEW gs, AllRenew(handler, gs), NEW ds, ds \subseteq devices
  PROVE  Listed(gs, mixins, ds, saving)
<1> SUFFICES ASSUME NEW d \in ds, saving[d] = 0, gs[d].table # <<>>
             PROVE  Follows(Layers(gs[d]), mixins[d])
  BY DEF Listed
<1>1. d \in devices /\ d \in Devices /\ mixins[d] \in Lists
  BY DEF TableInv, Rest
<1>2. gs[d] = handler[d] \/ Layers(gs[d]) = mixins[d]
  BY <1>1 DEF AllRenew, Renews
<1> QED
  BY <1>1, <1>2, FollowsSelf DEF Listed

\* Every step keeps the layers those listed.
LEMMA ListedStep ==
  ASSUME TableInv, Listed(handler, mixins, devices, saving), [Next]_vars
  PROVE  Listed(handler', mixins', devices', saving')
<1>1. Rest /\ AllSane(handler)
  BY DEF TableInv
<1>2. CASE UNCHANGED <<mixins, saving>> /\ devices' \subseteq devices /\ AllRenew(handler, handler')
  BY <1>2, ListedRenews
<1>3. ASSUME NEW d \in Devices, NEW ms \in Offer[d], SetMixins(d, ms)
      PROVE  Listed(handler', mixins', devices', saving')
  <2>1. /\ UNCHANGED <<devices, handler>>
        /\ mixins' = [mixins EXCEPT ![d] = ms] /\ saving' = [saving EXCEPT ![d] = @ + 1]
    BY <1>3 DEF SetMixins
  <2>2. \A c \in Devices \ {d} : mixins'[c] = mixins[c] /\ saving'[c] = saving[c]
    BY <1>1, <2>1 DEF Rest
  <2>3. saving'[d] # 0
    BY <1>1, <2>1 DEF Rest
  <2>4. devices \subseteq Devices
    BY <1>1 DEF Rest
  <2> QED
    BY <2>1, <2>2, <2>3, <2>4 DEF Listed
<1>4. ASSUME NEW d \in Devices, SavedMixins(d)
      PROVE  Listed(handler', mixins', devices', saving')
  <2>1. UNCHANGED <<devices, mixins>> /\ saving' = [saving EXCEPT ![d] = @ - 1]
    BY <1>4 DEF SavedMixins
  <2>2. \A c \in Devices \ {d} : handler'[c] = handler[c] /\ saving'[c] = saving[c]
    BY <1>1, <1>4, <2>1, SavedRenews DEF Rest
  <2>3. d \in devices => Layers(handler'[d]) = mixins[d]
    BY <1>4, SavedRenews
  <2>4. devices \subseteq Devices /\ Follows(mixins[d], mixins[d])
    BY <1>1, FollowsSelf DEF Rest
  <2> QED
    BY <2>1, <2>2, <2>3, <2>4 DEF Listed
<1>5. ASSUME NEW d \in Devices, Call(d)
      PROVE  Listed(handler', mixins', devices', saving')
  <2>1. UNCHANGED <<devices, mixins, saving>>
    BY <1>5 DEF Call
  <2> QED
    BY <1>2, <1>5, <2>1, CallRenews
<1>6. ASSUME NEW d \in Devices, Upserted(d) \/ RemoveDevice(d)
      PROVE  Listed(handler', mixins', devices', saving')
  <2>1. UNCHANGED <<mixins, saving>> /\ devices' \subseteq devices
    BY <1>6 DEF Upserted, RemoveDevice
  <2> QED
    BY <1>2, <1>6, <2>1, DropRenews
<1>7. ASSUME NEW d \in Devices, Removed(d)
      PROVE  Listed(handler', mixins', devices', saving')
  <2>1. UNCHANGED <<devices, mixins, saving>>
    BY <1>7 DEF Removed
  <2> QED
    BY <1>2, <1>7, <2>1, RemovedRenews
<1>8. ASSUME NEW p \in Plugins, Kill(p) \/ KillAgain(p)
      PROVE  Listed(handler', mixins', devices', saving')
  <2>1. UNCHANGED <<devices, mixins, saving>>
    BY <1>8 DEF Kill, KillAgain
  <2> QED
    BY <1>2, <1>8, <2>1, KillRenews
<1>9. ASSUME NEW p \in Plugins, Load(p)
      PROVE  Listed(handler', mixins', devices', saving')
  <2>1. UNCHANGED <<devices, mixins, saving>>
    BY <1>9 DEF Load
  <2> QED
    BY <1>2, <1>9, <2>1, LoadRenews
<1>10. ASSUME NEW d \in Devices, NEW i \in DOMAIN handler[d].built, Promise(d, i)
       PROVE  Listed(handler', mixins', devices', saving')
  <2>1. UNCHANGED <<devices, saving>>
    BY <1>10 DEF Promise, BaseReturns, MixinReturns, Declines, PassesThrough
  <2>2. \/ mixins' = mixins
        \/ mixins' = [mixins EXCEPT ![d] = RemoveFirst(mixins[d], handler[d].built[i].of)]
    BY <1>1, <1>10 DEF Promise, BaseReturns, MixinReturns, Declines, PassesThrough, Rest
  <2>3. PICK is \in Statuses, error \in BOOLEAN :
          Settled(handler, handler', d, i, is, error)
    BY <1>10, PromiseSettles
  <2>4. AllSane(handler')
    BY <1>10, PromiseSettles
  <2>5. ASSUME NEW c \in Devices
        PROVE  handler'[c].table = handler[c].table /\ Layers(handler'[c]) = Layers(handler[c])
    <3>1. CASE c # d
      BY <2>3, <3>1 DEF Settled
    <3>2. CASE c = d
      <4>1. Sane(handler[d]) /\ Sane(handler'[d])
        BY <1>1, <2>4 DEF AllSane
      <4>2. handler'[d].table = handler[d].table
        BY <2>3 DEF Settled
      <4>3. \A k \in DOMAIN handler[d].built : handler'[d].built[k].of = handler[d].built[k].of
        BY <2>3 DEF Settled
      <4>4. /\ Len(handler[d].table) \in Nat /\ DOMAIN handler[d].table = 1..Len(handler[d].table)
            /\ \A k \in DOMAIN handler[d].table : handler[d].table[k] \in DOMAIN handler[d].built
        BY <4>1, TableTypes
      <4>5. \A k \in 1..(Len(handler[d].table) - 1) : k + 1 \in DOMAIN handler[d].table
        BY <4>4
      <4>6. \A k \in 1..(Len(handler[d].table) - 1) :
              handler'[d].built[handler'[d].table[k + 1]].of = handler[d].built[handler[d].table[k + 1]].of
        BY <4>2, <4>3, <4>4, <4>5
      <4>7. Layers(handler'[d]) = Layers(handler[d])
        BY <4>2, <4>6 DEF Layers
      <4> QED
        BY <3>2, <4>2, <4>7
    <3> QED
      BY <3>1, <3>2
  <2>6. ASSUME NEW c \in devices, saving[c] = 0, handler[c].table # <<>>
        PROVE  Follows(Layers(handler[c]), mixins'[c])
    <3>1. c \in Devices /\ mixins[c] \in Lists /\ Follows(Layers(handler[c]), mixins[c])
      BY <1>1, <2>6 DEF Rest, Listed
    <3>2. \/ mixins'[c] = mixins[c]
          \/ mixins'[c] = RemoveFirst(mixins[c], handler[d].built[i].of)
      BY <1>1, <2>2, <3>1 DEF Rest
    <3> QED
      BY <3>1, <3>2, FollowsRemove
  <2>7. devices \subseteq Devices
    BY <1>1 DEF Rest
  <2> QED
    BY <2>1, <2>5, <2>6, <2>7 DEF Listed
<1>11. CASE UNCHANGED vars
  BY <1>11 DEF vars
<1> QED
  BY <1>3, <1>4, <1>5, <1>6, <1>7, <1>8, <1>9, <1>10, <1>11, TableActions

\* ListedIsLayered: unless a setMixins is under way, a table has a layer for
\* every mixin of the list, in its order.
THEOREM ListCorrect == Spec => []ListedIsLayered
<1> DEFINE Inv == TableInv /\ Listed(handler, mixins, devices, saving)
<1>1. Init => Inv
  <2>1. Init => Listed(handler, mixins, devices, saving)
    BY DEF Init, Listed
  <2> QED
    BY <2>1, InitInv
<1>2. Inv /\ [Next]_vars => Inv'
  BY ListedStep, StepInv
<1>3. Inv => ListedIsLayered
  BY DEF Listed, ListedIsLayered
<1> QED
  BY <1>1, <1>2, <1>3, PTL DEF Spec
=============================================================================
