--------------------------- MODULE ControlProofs ----------------------------
(* The lists of targets and the filter words hold what was written to their   *)
(* files, for any writes and any number of them.                              *)
EXTENDS ControlFiles, TLAPS, WellFoundedInduction

\* The keys and operations that can be in a list.
Key == {w.key : w \in Writes} \cup {[w.key EXCEPT !.ip = @ \cap w.key.mask] : w \in Writes}
Op == SUBSET UNION {w.op : w \in Writes}
Filter == [key : Key, op : Op]

\* The list q of kind l is what the writes h make of it: one entry for each key in
\* force, oldest first, with its operations.  A key in force has a first and a
\* last write.
Bounded(h) == \A k : Since(h, k) # {} => \E a, b \in Since(h, k) : \A i \in Since(h, k) : a <= i /\ i <= b
KeysIn(q) == {q[i].key : i \in DOMAIN q}
Exact(l, q, h) ==
    /\ q \in Seq(Filter) /\ h \in Seq(Filter) /\ Len(q) <= Len(h) /\ Bounded(h)
    /\ \A k : k \in KeysIn(q) <=> Since(h, k) # {}
    /\ \A i, j \in DOMAIN q : i < j => Min(Since(h, q[i].key)) < Min(Since(h, q[j].key))
    /\ \A i \in DOMAIN q : q[i].op = OpsFor(l, h, q[i].key)
-----------------------------------------------------------------------------
(* The writes *)

\* The least of a set that has one.
LEMMA LeastFacts ==
    ASSUME NEW S \in SUBSET Nat, NEW a \in S, \A i \in S : a <= i
    PROVE  Min(S) = a
<1>1. \A x, y \in S : (\A i \in S : x <= i) /\ (\A i \in S : y <= i) => x = y OBVIOUS
<1> QED BY Zenon, <1>1 DEF Min

\* The greatest of a set that has one.
LEMMA GreatestFacts ==
    ASSUME NEW S \in SUBSET Nat, NEW a \in S, \A i \in S : a >= i
    PROVE  Max(S) = a
<1>1. \A x, y \in S : (\A i \in S : x >= i) /\ (\A i \in S : y >= i) => x = y OBVIOUS
<1> QED BY Zenon, <1>1 DEF Max

\* What one more write does to the writes in force.
LEMMA SinceAppend ==
    ASSUME NEW h \in Seq(Filter), NEW e \in Filter
    PROVE  /\ \A k : k # e.key => Since(Append(h, e), k) = Since(h, k)
           /\ "delete" \in e.op => Since(Append(h, e), e.key) = {}
           /\ "delete" \notin e.op => Since(Append(h, e), e.key) = Since(h, e.key) \cup {Len(h) + 1}
<1> DEFINE g == Append(h, e)
           n == Len(h)
<1>1. /\ n \in Nat /\ Len(g) = n + 1 /\ DOMAIN g = 1..(n + 1) /\ DOMAIN h = 1..n /\ g[n + 1] = e
      /\ \A i \in 1..n : g[i] = h[i]
    OBVIOUS
<1> HIDE DEF g, n
<1>2. ASSUME NEW k, k # e.key PROVE Since(g, k) = Since(h, k)
  <2>1. ASSUME NEW i \in Since(g, k) PROVE i \in Since(h, k)
    <3>1. i \in 1..(n + 1) /\ g[i].key = k /\ \A j \in i..(n + 1) : g[j].key = k => "delete" \notin g[j].op
      BY Zenon, <1>1, <2>1 DEF Since
    <3>2. i # n + 1 BY Zenon, <1>1, <1>2, <3>1
    <3>3. i \in 1..n BY <1>1, <3>1, <3>2
    <3>4. \A j \in i..n : h[j].key = k => "delete" \notin h[j].op
      <4> TAKE j \in i..n
      <4>1. j \in i..(n + 1) /\ j \in 1..n BY <1>1, <3>3
      <4> QED BY Zenon, <1>1, <3>1, <4>1
    <3> QED BY Zenon, <1>1, <3>1, <3>3, <3>4 DEF Since, n
  <2>2. ASSUME NEW i \in Since(h, k) PROVE i \in Since(g, k)
    <3>1. i \in 1..n /\ h[i].key = k /\ \A j \in i..n : h[j].key = k => "delete" \notin h[j].op
      BY Zenon, <1>1, <2>2 DEF Since, n
    <3>2. \A j \in i..(n + 1) : g[j].key = k => "delete" \notin g[j].op
      <4> TAKE j \in i..(n + 1)
      <4>1. CASE j = n + 1 BY Zenon, <1>1, <1>2, <4>1
      <4>2. CASE j # n + 1
        <5>1. j \in i..n /\ j \in 1..n BY <1>1, <3>1, <4>2
        <5> QED BY Zenon, <1>1, <3>1, <5>1
      <4> QED BY Zenon, <4>1, <4>2
    <3>3. i \in 1..(n + 1) /\ g[i].key = k BY <1>1, <3>1
    <3> QED BY Zenon, <1>1, <3>2, <3>3 DEF Since
  <2> QED BY Zenon, <2>1, <2>2
<1>3. ASSUME "delete" \in e.op, NEW i \in Since(g, e.key) PROVE FALSE
  <2>1. i \in 1..(n + 1) /\ \A j \in i..(n + 1) : g[j].key = e.key => "delete" \notin g[j].op BY Zenon, <1>1, <1>3 DEF Since
  <2>2. n + 1 \in i..(n + 1) BY <1>1, <2>1
  <2> QED BY Zenon, <1>1, <1>3, <2>1, <2>2
<1>4. ASSUME "delete" \notin e.op PROVE Since(g, e.key) = Since(h, e.key) \cup {n + 1}
  <2>1. ASSUME NEW i \in Since(g, e.key), i # n + 1 PROVE i \in Since(h, e.key)
    <3>1. i \in 1..(n + 1) /\ g[i].key = e.key /\ \A j \in i..(n + 1) : g[j].key = e.key => "delete" \notin g[j].op
      BY Zenon, <1>1, <2>1 DEF Since
    <3>3. i \in 1..n BY <1>1, <2>1, <3>1
    <3>4. \A j \in i..n : h[j].key = e.key => "delete" \notin h[j].op
      <4> TAKE j \in i..n
      <4>1. j \in i..(n + 1) /\ j \in 1..n BY <1>1, <3>3
      <4> QED BY Zenon, <1>1, <3>1, <4>1
    <3> QED BY Zenon, <1>1, <3>1, <3>3, <3>4 DEF Since, n
  <2>2. ASSUME NEW i \in Since(h, e.key) PROVE i \in Since(g, e.key)
    <3>1. i \in 1..n /\ h[i].key = e.key /\ \A j \in i..n : h[j].key = e.key => "delete" \notin h[j].op
      BY Zenon, <1>1, <2>2 DEF Since, n
    <3>2. \A j \in i..(n + 1) : g[j].key = e.key => "delete" \notin g[j].op
      <4> TAKE j \in i..(n + 1)
      <4>1. CASE j = n + 1 BY Zenon, <1>1, <1>4, <4>1
      <4>2. CASE j # n + 1
        <5>1. j \in i..n /\ j \in 1..n BY <1>1, <3>1, <4>2
        <5> QED BY Zenon, <1>1, <3>1, <5>1
      <4> QED BY Zenon, <4>1, <4>2
    <3>3. i \in 1..(n + 1) /\ g[i].key = e.key BY <1>1, <3>1
    <3> QED BY Zenon, <1>1, <3>2, <3>3 DEF Since
  <2>3. n + 1 \in Since(g, e.key)
    <3>1. \A j \in (n + 1)..(n + 1) : g[j].key = e.key => "delete" \notin g[j].op
      <4> TAKE j \in (n + 1)..(n + 1)
      <4>1. j = n + 1 BY <1>1
      <4> QED BY Zenon, <1>1, <1>4, <4>1
    <3>2. n + 1 \in 1..(n + 1) BY <1>1
    <3> QED BY Zenon, <1>1, <3>1, <3>2 DEF Since
  <2> QED BY Zenon, <2>1, <2>2, <2>3
<1> QED BY Zenon, <1>2, <1>3, <1>4 DEF g, n

\* The first write in force stays the first, and a new one is last.
LEMMA BoundedAppend ==
    ASSUME NEW h \in Seq(Filter), NEW e \in Filter, Bounded(h)
    PROVE  LET g == Append(h, e) IN
           /\ Bounded(g)
           /\ \A k : Since(h, k) \subseteq 1..Len(h)
           /\ \A k : Since(h, k) # {} => Min(Since(h, k)) \in Since(h, k) /\ Max(Since(h, k)) \in Since(h, k)
           /\ "delete" \notin e.op =>
                /\ Max(Since(g, e.key)) = Len(h) + 1
                /\ Since(h, e.key) # {} => Min(Since(g, e.key)) = Min(Since(h, e.key))
                /\ Since(h, e.key) = {} => Min(Since(g, e.key)) = Len(h) + 1
<1> DEFINE g == Append(h, e)
           n == Len(h)
<1>1. n \in Nat /\ DOMAIN h = 1..n OBVIOUS
<1>2. \A k : Since(h, k) \subseteq 1..n BY Zenon, <1>1 DEF Since
<1>3. /\ \A k : k # e.key => Since(g, k) = Since(h, k)
      /\ "delete" \in e.op => Since(g, e.key) = {}
      /\ "delete" \notin e.op => Since(g, e.key) = Since(h, e.key) \cup {n + 1}
    BY Zenon, SinceAppend
<1> HIDE DEF g, n
<1>4. ASSUME NEW k, Since(h, k) # {} PROVE Min(Since(h, k)) \in Since(h, k) /\ Max(Since(h, k)) \in Since(h, k)
  <2>1. PICK a \in Since(h, k), b \in Since(h, k) : \A i \in Since(h, k) : a <= i /\ i <= b BY Zenon, <1>4 DEF Bounded
  <2>2. Since(h, k) \in SUBSET Nat BY <1>1, <1>2
  <2>3. Min(Since(h, k)) = a BY Zenon, <2>1, <2>2, LeastFacts
  <2>4. \A i \in Since(h, k) : b >= i BY Zenon, <2>1
  <2>5. Max(Since(h, k)) = b BY Zenon, <2>2, <2>4, GreatestFacts
  <2> QED BY Zenon, <2>3, <2>5
<1>5. ASSUME "delete" \notin e.op
      PROVE  /\ Max(Since(g, e.key)) = n + 1
             /\ Since(h, e.key) # {} => Min(Since(g, e.key)) = Min(Since(h, e.key))
             /\ Since(h, e.key) = {} => Min(Since(g, e.key)) = n + 1
             /\ \E a, b \in Since(g, e.key) : \A i \in Since(g, e.key) : a <= i /\ i <= b
  <2>1. PICK S, T : S = Since(h, e.key) /\ T = Since(g, e.key) BY Zenon
  <2>2. T = S \cup {n + 1} /\ S \subseteq 1..n BY Zenon, <1>2, <1>3, <1>5, <2>1
  <2>3. T \in SUBSET Nat /\ n + 1 \in T BY <1>1, <2>2
  <2>4. \A i \in T : n + 1 >= i /\ i <= n + 1 BY <1>1, <2>2
  <2>5. Max(T) = n + 1 BY Zenon, <2>3, <2>4, GreatestFacts
  <2>6. CASE S = {}
    <3>1. \A i \in T : n + 1 <= i BY <1>1, <2>2, <2>6
    <3>2. Min(T) = n + 1 BY Zenon, <2>3, <3>1, LeastFacts
    <3> QED BY Zenon, <2>1, <2>3, <2>4, <2>5, <2>6, <3>1, <3>2
  <2>7. CASE S # {}
    <3>1. PICK a \in S : \A i \in S : a <= i BY Zenon, <2>1, <2>7 DEF Bounded
    <3>2. S \in SUBSET Nat /\ a \in T /\ a \in 1..n BY Zenon, <2>2, <2>3
    <3>3. \A i \in T : a <= i BY <1>1, <2>2, <3>1, <3>2
    <3>4. Min(S) = a BY Zenon, <3>1, <3>2, LeastFacts
    <3>5. Min(T) = a BY Zenon, <2>3, <3>2, <3>3, LeastFacts
    <3> QED BY Zenon, <2>1, <2>3, <2>4, <2>5, <2>7, <3>2, <3>3, <3>4, <3>5
  <2> QED BY Zenon, <2>6, <2>7
<1>6. Bounded(g)
  <2> SUFFICES ASSUME NEW k, Since(g, k) # {}
               PROVE  \E a, b \in Since(g, k) : \A i \in Since(g, k) : a <= i /\ i <= b
      BY Zenon DEF Bounded
  <2>1. CASE k # e.key
    <3>1. Since(g, k) = Since(h, k) BY Zenon, <1>3, <2>1
    <3> QED BY Zenon, <3>1 DEF Bounded
  <2>2. CASE k = e.key
    <3>1. "delete" \notin e.op BY Zenon, <1>3, <2>2
    <3> QED BY Zenon, <1>5, <2>2, <3>1
  <2> QED BY Zenon, <2>1, <2>2
<1> QED BY Zenon, <1>2, <1>4, <1>5, <1>6 DEF g, n

\* The operations of another key in force stay.
LEMMA OpsOther ==
    ASSUME NEW h \in Seq(Filter), NEW e \in Filter, Bounded(h), NEW l, NEW k, k # e.key, Since(h, k) # {}
    PROVE  OpsFor(l, Append(h, e), k) = OpsFor(l, h, k)
<1>0. PICK g, n : g = Append(h, e) /\ n = Len(h) BY Zenon
<1>1. n \in Nat /\ \A i \in 1..n : g[i] = h[i] BY <1>0
<1>2. Since(g, k) = Since(h, k) BY Zenon, <1>0, SinceAppend
<1>3. Since(h, k) \subseteq 1..n /\ Max(Since(h, k)) \in Since(h, k) BY Zenon, <1>0, BoundedAppend
<1>4. \A i \in Since(h, k) : g[i] = h[i] BY Zenon, <1>1, <1>3
<1>5. {g[i].op : i \in Since(g, k)} = {h[i].op : i \in Since(h, k)} BY Zenon, <1>2, <1>4
<1> QED BY Zenon, <1>0, <1>2, <1>3, <1>4, <1>5 DEF OpsFor

\* The operations of a key that is written.
LEMMA OpsAppend ==
    ASSUME NEW h \in Seq(Filter), NEW e \in Filter, Bounded(h), NEW l
    PROVE  LET g == Append(h, e) IN
           /\ "delete" \notin e.op /\ l \notin AddressList => OpsFor(l, g, e.key) = e.op
           /\ "delete" \notin e.op /\ l \in AddressList /\ Since(h, e.key) # {} =>
                 OpsFor(l, g, e.key) = OpsFor(l, h, e.key) \cup e.op
           /\ "delete" \notin e.op /\ l \in AddressList /\ Since(h, e.key) = {} => OpsFor(l, g, e.key) = e.op
<1>0. PICK g, n : g = Append(h, e) /\ n = Len(h) BY Zenon
<1>1. n \in Nat /\ g[n + 1] = e /\ \A i \in 1..n : g[i] = h[i] BY <1>0
<1>2. /\ \A k : k # e.key => Since(g, k) = Since(h, k)
      /\ "delete" \notin e.op => Since(g, e.key) = Since(h, e.key) \cup {n + 1}
    BY Zenon, <1>0, SinceAppend
<1>3. /\ \A k : Since(h, k) \subseteq 1..n
      /\ \A k : Since(h, k) # {} => Max(Since(h, k)) \in Since(h, k)
      /\ "delete" \notin e.op => Max(Since(g, e.key)) = n + 1
    BY Zenon, <1>0, BoundedAppend
<1>5. ASSUME "delete" \notin e.op, l \notin AddressList PROVE OpsFor(l, g, e.key) = e.op
    BY Zenon, <1>1, <1>3, <1>5 DEF OpsFor
<1>6. ASSUME "delete" \notin e.op
      PROVE  (UNION {g[i].op : i \in Since(g, e.key)}) = (UNION {h[i].op : i \in Since(h, e.key)}) \cup e.op
  <2>1. Since(g, e.key) = Since(h, e.key) \cup {n + 1} BY Zenon, <1>2, <1>6
  <2>2. g[n + 1].op = e.op /\ \A i \in Since(h, e.key) : g[i].op = h[i].op BY Zenon, <1>1, <1>3
  <2>3. \A x : x \in UNION {g[i].op : i \in Since(g, e.key)} <=> \E i \in Since(g, e.key) : x \in g[i].op BY Zenon
  <2>4. \A x : x \in UNION {h[i].op : i \in Since(h, e.key)} <=> \E i \in Since(h, e.key) : x \in h[i].op BY Zenon
  <2>5. \A x : (\E i \in Since(g, e.key) : x \in g[i].op) <=> (\E i \in Since(h, e.key) : x \in h[i].op) \/ x \in e.op
    BY Zenon, <2>1, <2>2
  <2> QED BY Zenon, <2>3, <2>4, <2>5
<1>7. ASSUME "delete" \notin e.op, l \in AddressList
      PROVE  /\ Since(h, e.key) # {} => OpsFor(l, g, e.key) = OpsFor(l, h, e.key) \cup e.op
             /\ Since(h, e.key) = {} => OpsFor(l, g, e.key) = e.op
  <2>1. PICK U : U = UNION {h[i].op : i \in Since(h, e.key)} BY Zenon
  <2>2. OpsFor(l, g, e.key) = U \cup e.op BY Zenon, <1>6, <1>7, <2>1 DEF OpsFor
  <2>3. OpsFor(l, h, e.key) = U BY Zenon, <1>7, <2>1 DEF OpsFor
  <2>4. Since(h, e.key) = {} => U = {} BY Zenon, <2>1
  <2>5. {} \cup e.op = e.op BY Zenon
  <2> QED BY Zenon, <2>2, <2>3, <2>4, <2>5
<1> QED BY Zenon, <1>0, <1>5, <1>7

\* The operations of a key in force that is written again.
LEMMA OpsAgain ==
    ASSUME NEW h \in Seq(Filter), NEW e \in Filter, Bounded(h), NEW l, "delete" \notin e.op, Since(h, e.key) # {}
    PROVE  OpsFor(l, Append(h, e), e.key) = IF l \in AddressList THEN OpsFor(l, h, e.key) \cup e.op ELSE e.op
BY Zenon, OpsAppend
-----------------------------------------------------------------------------
(* The lists *)

\* A key has one entry at most, which is the one the loops find.
LEMMA EntryFacts ==
    ASSUME NEW l, NEW q, NEW h, Exact(l, q, h), NEW k
    PROVE  /\ Since(h, k) = {} => EntriesOf(q, k) = {}
           /\ Since(h, k) # {} => \E i \in 1..Len(q) : EntriesOf(q, k) = {i} /\ First(EntriesOf(q, k)) = i /\ q[i].key = k
<1>1. q \in Seq(Filter) /\ h \in Seq(Filter) /\ Bounded(h) /\ DOMAIN q = 1..Len(q) /\ Len(q) \in Nat BY DEF Exact
<1>2. k \in KeysIn(q) <=> Since(h, k) # {} BY Zenon DEF Exact
<1>3. ASSUME Since(h, k) = {} PROVE EntriesOf(q, k) = {} BY Zenon, <1>2, <1>3 DEF KeysIn, EntriesOf
<1>4. ASSUME Since(h, k) # {}
      PROVE  \E i \in 1..Len(q) : EntriesOf(q, k) = {i} /\ First(EntriesOf(q, k)) = i /\ q[i].key = k
  <2>1. PICK i \in DOMAIN q : q[i].key = k BY Zenon, <1>2, <1>4 DEF KeysIn
  <2>2. Min(Since(h, k)) \in Nat
    <3>1. Since(h, k) \subseteq 1..Len(h) /\ Min(Since(h, k)) \in Since(h, k)
      <4>1. q[i] \in Filter BY <1>1, <2>1
      <4> QED BY Zenon, <1>1, <1>4, <4>1, BoundedAppend
    <3>2. Len(h) \in Nat BY <1>1
    <3> QED BY <3>1, <3>2
  <2>3. ASSUME NEW j \in DOMAIN q, q[j].key = k PROVE j = i
    <3>1. i < j => Min(Since(h, q[i].key)) < Min(Since(h, q[j].key)) BY Zenon DEF Exact
    <3>2. j < i => Min(Since(h, q[j].key)) < Min(Since(h, q[i].key)) BY Zenon DEF Exact
    <3>3. ~(i < j) /\ ~(j < i) BY <2>1, <2>2, <2>3, <3>1, <3>2
    <3> QED BY <1>1, <3>3
  <2>4. EntriesOf(q, k) = {i} BY Zenon, <2>1, <2>3 DEF EntriesOf
  <2>5. i <= i BY <1>1
  <2>6. First({i}) = i BY Zenon, <2>5 DEF First
  <2> QED BY Zenon, <1>1, <2>1, <2>4, <2>6
<1> QED BY Zenon, <1>3, <1>4

\* Without entry i the others keep their order.
LEMMA RemoveFacts ==
    ASSUME NEW q \in Seq(Filter), NEW i \in 1..Len(q)
    PROVE  LET r == Without(q, i) IN
           /\ r \in Seq(Filter) /\ Len(r) = Len(q) - 1 /\ DOMAIN r = 1..(Len(q) - 1)
           /\ \A j \in 1..(Len(q) - 1) : r[j] = IF j < i THEN q[j] ELSE q[j + 1]
<1>0. PICK n \in Nat : n = Len(q) - 1 /\ Len(q) = n + 1 OBVIOUS
<1>1. PICK r : r = [j \in 1..n |-> IF j < i THEN q[j] ELSE q[j + 1]] BY Zenon
<1>2. \A j \in 1..n : q[j] \in Filter /\ q[j + 1] \in Filter BY <1>0
<1>3. r \in [1..n -> Filter] BY Zenon, <1>1, <1>2
<1>4. r \in Seq(Filter) /\ Len(r) = n /\ DOMAIN r = 1..n BY <1>0, <1>3
<1>5. \A j \in 1..n : r[j] = IF j < i THEN q[j] ELSE q[j + 1] BY Zenon, <1>1
<1>6. r = Without(q, i) BY Zenon, <1>0, <1>1 DEF Without
<1> QED BY Zenon, <1>0, <1>4, <1>5, <1>6

\* A key is deleted.
LEMMA DeleteExact ==
    ASSUME NEW l, NEW q, NEW h, Exact(l, q, h), NEW e \in Filter, "delete" \in e.op
    PROVE  Exact(l, Delete(q, e.key), Append(h, e))
<1>0. PICK g, r : g = Append(h, e) /\ r = Delete(q, e.key) BY Zenon
<1>1. /\ q \in Seq(Filter) /\ h \in Seq(Filter) /\ Len(q) <= Len(h) /\ Bounded(h)
      /\ DOMAIN q = 1..Len(q) /\ Len(q) \in Nat /\ Len(h) \in Nat /\ Len(g) = Len(h) + 1 /\ g \in Seq(Filter)
    BY <1>0 DEF Exact
<1>2. /\ \A k : k \in KeysIn(q) <=> Since(h, k) # {}
      /\ \A i, j \in DOMAIN q : i < j => Min(Since(h, q[i].key)) < Min(Since(h, q[j].key))
      /\ \A i \in DOMAIN q : q[i].op = OpsFor(l, h, q[i].key)
    BY Zenon DEF Exact
<1>h. h \in Seq(Filter) /\ Bounded(h) BY Zenon, <1>1
<1>3. Since(g, e.key) = {} /\ \A k : k # e.key => Since(g, k) = Since(h, k)
  <2>1. /\ \A k : k # e.key => Since(Append(h, e), k) = Since(h, k)
        /\ "delete" \in e.op => Since(Append(h, e), e.key) = {}
    BY Zenon, <1>h, SinceAppend
  <2> QED BY Zenon, <1>0, <2>1
<1>4. Bounded(g) BY Zenon, <1>0, <1>h, BoundedAppend
<1>5. \A k : k # e.key /\ Since(h, k) # {} => OpsFor(l, g, k) = OpsFor(l, h, k)
  <2>1. ASSUME NEW k, k # e.key, Since(h, k) # {} PROVE OpsFor(l, Append(h, e), k) = OpsFor(l, h, k)
    BY ONLY Zenon, <1>h, <2>1, e \in Filter, OpsOther
  <2> QED BY Zenon, <1>0, <2>1
<1>6. \E f \in [1..Len(r) -> 1..Len(q)] :
         /\ r \in Seq(Filter) /\ Len(r) <= Len(q)
         /\ \A j \in 1..Len(r) : r[j] = q[f[j]] /\ q[f[j]].key # e.key
         /\ \A i, j \in 1..Len(r) : i < j => f[i] < f[j]
         /\ \A i \in 1..Len(q) : q[i].key # e.key => \E j \in 1..Len(r) : f[j] = i
  <2>1. CASE Since(h, e.key) = {}
    <3>1. EntriesOf(q, e.key) = {} BY Zenon, <2>1, EntryFacts
    <3>2. r = q /\ \A i \in 1..Len(q) : q[i].key # e.key BY Zenon, <1>0, <1>1, <3>1 DEF Delete, EntriesOf
    <3>3. PICK f : f = [j \in 1..Len(q) |-> j] BY Zenon
    <3>4. f \in [1..Len(r) -> 1..Len(q)] /\ \A j \in 1..Len(q) : f[j] = j BY Zenon, <3>2, <3>3
    <3>5. Len(r) <= Len(q) /\ \A i, j \in 1..Len(r) : i < j => f[i] < f[j] BY <1>1, <3>2, <3>4
    <3> QED BY Zenon, <1>1, <3>2, <3>4, <3>5
  <2>2. CASE Since(h, e.key) # {}
    <3>1. PICK p \in 1..Len(q) : EntriesOf(q, e.key) = {p} /\ First(EntriesOf(q, e.key)) = p
      BY Zenon, <2>2, EntryFacts
    <3>2. r = Without(q, p) /\ \A i \in 1..Len(q) : q[i].key = e.key <=> i = p
      BY Zenon, <1>0, <1>1, <3>1 DEF Delete, EntriesOf
    <3>3. /\ r \in Seq(Filter) /\ Len(r) = Len(q) - 1
          /\ \A j \in 1..(Len(q) - 1) : r[j] = IF j < p THEN q[j] ELSE q[j + 1]
      BY Zenon, <1>1, <3>2, RemoveFacts
    <3>4. PICK f : f = [j \in 1..Len(r) |-> IF j < p THEN j ELSE j + 1] BY Zenon
    <3>5. \A j \in 1..Len(r) : f[j] = IF j < p THEN j ELSE j + 1 BY Zenon, <3>4
    <3>6. \A j \in 1..Len(r) : f[j] \in 1..Len(q) /\ f[j] # p BY <1>1, <3>3, <3>5
    <3>7. f \in [1..Len(r) -> 1..Len(q)] BY Zenon, <3>4, <3>5, <3>6
    <3>8. \A j \in 1..Len(r) : r[j] = q[f[j]] BY Zenon, <1>1, <3>3, <3>5
    <3>9. \A i, j \in 1..Len(r) : i < j => f[i] < f[j] BY <1>1, <3>3, <3>5
    <3>10. ASSUME NEW i \in 1..Len(q), q[i].key # e.key PROVE \E j \in 1..Len(r) : f[j] = i
      <4>1. i # p BY Zenon, <3>2, <3>10
      <4>2. CASE i < p
        <5>1. i \in 1..Len(r) /\ f[i] = i BY <1>1, <3>3, <3>5, <4>2
        <5> QED BY Zenon, <5>1
      <4>3. CASE ~(i < p)
        <5>1. i - 1 \in 1..Len(r) /\ f[i - 1] = i BY <1>1, <3>3, <3>5, <4>1, <4>3
        <5> QED BY Zenon, <5>1
      <4> QED BY Zenon, <4>2, <4>3
    <3>11. Len(r) <= Len(q) BY <1>1, <3>3
    <3>12. \A j \in 1..Len(r) : q[f[j]].key # e.key BY Zenon, <3>2, <3>6
    <3> QED BY Zenon, <3>3, <3>7, <3>8, <3>9, <3>10, <3>11, <3>12
  <2> QED BY Zenon, <2>1, <2>2
<1>7. PICK f \in [1..Len(r) -> 1..Len(q)] :
         /\ r \in Seq(Filter) /\ Len(r) <= Len(q)
         /\ \A j \in 1..Len(r) : r[j] = q[f[j]] /\ q[f[j]].key # e.key
         /\ \A i, j \in 1..Len(r) : i < j => f[i] < f[j]
         /\ \A i \in 1..Len(q) : q[i].key # e.key => \E j \in 1..Len(r) : f[j] = i
    BY Zenon, <1>6
<1>8. DOMAIN r = 1..Len(r) /\ Len(r) <= Len(g) /\ \A j \in 1..Len(r) : f[j] \in 1..Len(q)
  <2>1. r \in Seq(Filter) /\ Len(r) <= Len(q) BY Zenon, <1>7
  <2>2. DOMAIN r = 1..Len(r) /\ Len(r) <= Len(g) BY <1>1, <2>1
  <2> QED BY Zenon, <2>2
<1>9. ASSUME NEW k PROVE k \in KeysIn(r) <=> Since(g, k) # {}
  <2>1. k \in KeysIn(r) <=> \E j \in 1..Len(r) : r[j].key = k BY Zenon, <1>8 DEF KeysIn
  <2>2. k \in KeysIn(q) <=> \E i \in 1..Len(q) : q[i].key = k BY Zenon, <1>1 DEF KeysIn
  <2>3. ASSUME NEW j \in 1..Len(r), r[j].key = k PROVE k \in KeysIn(q) /\ k # e.key
    <3>1. r[j] = q[f[j]] /\ q[f[j]].key # e.key /\ f[j] \in 1..Len(q) BY Zenon, <1>7, <1>8
    <3> QED BY Zenon, <2>2, <2>3, <3>1
  <2>4. ASSUME NEW i \in 1..Len(q), q[i].key = k, k # e.key PROVE k \in KeysIn(r)
    <3>1. PICK j \in 1..Len(r) : f[j] = i BY Zenon, <1>7, <2>4
    <3>2. r[j] = q[i] BY Zenon, <1>7, <3>1
    <3> QED BY Zenon, <2>1, <2>4, <3>2
  <2>5. k \in KeysIn(r) <=> k \in KeysIn(q) /\ k # e.key BY Zenon, <2>1, <2>2, <2>3, <2>4
  <2> QED BY Zenon, <1>2, <1>3, <2>5
<1>10. ASSUME NEW j \in 1..Len(r)
       PROVE  Since(g, r[j].key) = Since(h, q[f[j]].key) /\ r[j].op = OpsFor(l, g, r[j].key)
  <2>1. r[j] = q[f[j]] /\ q[f[j]].key # e.key /\ f[j] \in DOMAIN q BY Zenon, <1>1, <1>7, <1>8
  <2>2. q[f[j]].key \in KeysIn(q) BY Zenon, <2>1 DEF KeysIn
  <2> QED BY Zenon, <1>2, <1>3, <1>5, <2>1, <2>2
<1>11. ASSUME NEW i \in 1..Len(r), NEW j \in 1..Len(r), i < j PROVE Min(Since(g, r[i].key)) < Min(Since(g, r[j].key))
  <2>1. f[i] < f[j] /\ f[i] \in DOMAIN q /\ f[j] \in DOMAIN q BY Zenon, <1>1, <1>7, <1>8, <1>11
  <2>2. Min(Since(h, q[f[i]].key)) < Min(Since(h, q[f[j]].key)) BY Zenon, <1>2, <2>1
  <2> QED BY Zenon, <1>10, <2>2
<1> QED BY Zenon, <1>0, <1>1, <1>4, <1>7, <1>8, <1>9, <1>10, <1>11 DEF Exact

\* A key that is not in force is added at the end.
LEMMA AddExact ==
    ASSUME NEW l, NEW q, NEW h, Exact(l, q, h), NEW e \in Filter, "delete" \notin e.op, Since(h, e.key) = {}
    PROVE  Exact(l, Append(q, [key |-> e.key, op |-> e.op]), Append(h, e))
<1>0. PICK g, r : g = Append(h, e) /\ r = Append(q, e) BY Zenon
<1>e. e = [key |-> e.key, op |-> e.op] BY Zenon DEF Filter
<1>1. /\ q \in Seq(Filter) /\ h \in Seq(Filter) /\ Len(q) <= Len(h) /\ Bounded(h)
      /\ DOMAIN q = 1..Len(q) /\ Len(q) \in Nat /\ Len(h) \in Nat /\ Len(g) = Len(h) + 1 /\ g \in Seq(Filter)
      /\ r \in Seq(Filter) /\ Len(r) = Len(q) + 1 /\ DOMAIN r = 1..(Len(q) + 1) /\ r[Len(q) + 1] = e
      /\ \A i \in 1..Len(q) : r[i] = q[i]
    BY <1>0 DEF Exact
<1>2. /\ \A k : k \in KeysIn(q) <=> Since(h, k) # {}
      /\ \A i, j \in DOMAIN q : i < j => Min(Since(h, q[i].key)) < Min(Since(h, q[j].key))
      /\ \A i \in DOMAIN q : q[i].op = OpsFor(l, h, q[i].key)
    BY Zenon DEF Exact
<1>h. h \in Seq(Filter) /\ Bounded(h) BY Zenon, <1>1
<1>3. Since(g, e.key) # {} /\ \A k : k # e.key => Since(g, k) = Since(h, k)
  <2>1. /\ \A k : k # e.key => Since(Append(h, e), k) = Since(h, k)
        /\ Since(Append(h, e), e.key) = Since(h, e.key) \cup {Len(h) + 1}
    BY Zenon, <1>h, SinceAppend
  <2> QED BY Zenon, <1>0, <2>1
<1>4. /\ Bounded(g) /\ Min(Since(g, e.key)) = Len(h) + 1
      /\ \A k : Since(h, k) \subseteq 1..Len(h) /\ (Since(h, k) # {} => Min(Since(h, k)) \in Since(h, k))
    BY Zenon, <1>0, <1>h, BoundedAppend
<1>5. \A k : k # e.key /\ Since(h, k) # {} => OpsFor(l, g, k) = OpsFor(l, h, k)
  <2>1. ASSUME NEW k, k # e.key, Since(h, k) # {} PROVE OpsFor(l, Append(h, e), k) = OpsFor(l, h, k)
    BY ONLY Zenon, <1>h, <2>1, e \in Filter, OpsOther
  <2> QED BY Zenon, <1>0, <2>1
<1>6. OpsFor(l, g, e.key) = e.op BY Zenon, <1>0, <1>h, OpsAppend
<1>7. ASSUME NEW i \in 1..Len(q)
      PROVE  /\ r[i] = q[i] /\ q[i].key # e.key /\ Since(h, q[i].key) # {} /\ Since(g, r[i].key) = Since(h, q[i].key)
             /\ Min(Since(g, r[i].key)) \in 1..Len(h) /\ r[i].op = OpsFor(l, g, r[i].key)
  <2>1. r[i] = q[i] /\ q[i].key \in KeysIn(q) BY Zenon, <1>1 DEF KeysIn
  <2>2. Since(h, q[i].key) # {} /\ q[i].key # e.key BY Zenon, <1>2, <2>1
  <2>3. Since(g, q[i].key) = Since(h, q[i].key) /\ OpsFor(l, g, q[i].key) = OpsFor(l, h, q[i].key)
    BY Zenon, <1>3, <1>5, <2>2
  <2>4. Min(Since(h, q[i].key)) \in 1..Len(h) BY Zenon, <1>4, <2>2
  <2>5. q[i].op = OpsFor(l, h, q[i].key) BY Zenon, <1>1, <1>2
  <2> QED BY Zenon, <2>1, <2>2, <2>3, <2>4, <2>5
<1>8. ASSUME NEW k PROVE k \in KeysIn(r) <=> Since(g, k) # {}
  <2>1. k \in KeysIn(r) <=> \E j \in 1..(Len(q) + 1) : r[j].key = k BY Zenon, <1>1 DEF KeysIn
  <2>2. k \in KeysIn(q) <=> \E i \in 1..Len(q) : q[i].key = k BY Zenon, <1>1 DEF KeysIn
  <2>3. \A j \in 1..(Len(q) + 1) : j \in 1..Len(q) \/ j = Len(q) + 1 BY <1>1
  <2>4. Len(q) + 1 \in 1..(Len(q) + 1) /\ \A i \in 1..Len(q) : i \in 1..(Len(q) + 1) BY <1>1
  <2>5. k \in KeysIn(r) <=> k \in KeysIn(q) \/ k = e.key BY Zenon, <1>1, <1>7, <2>1, <2>2, <2>3, <2>4
  <2> QED BY Zenon, <1>2, <1>3, <2>5
<1>9. ASSUME NEW i \in 1..(Len(q) + 1), NEW j \in 1..(Len(q) + 1), i < j
      PROVE  Min(Since(g, r[i].key)) < Min(Since(g, r[j].key))
  <2>1. i \in 1..Len(q) BY <1>1, <1>9
  <2>2. CASE j = Len(q) + 1
    <3>1. Min(Since(g, r[j].key)) = Len(h) + 1 BY Zenon, <1>1, <1>4, <2>2
    <3>2. Min(Since(g, r[i].key)) \in 1..Len(h) BY Zenon, <1>7, <2>1
    <3> QED BY <1>1, <3>1, <3>2
  <2>3. CASE j # Len(q) + 1
    <3>1. j \in 1..Len(q) BY <1>1, <2>3
    <3>2. Min(Since(h, q[i].key)) < Min(Since(h, q[j].key)) BY Zenon, <1>1, <1>2, <1>9, <2>1, <3>1
    <3> QED BY Zenon, <1>7, <2>1, <3>1, <3>2
  <2> QED BY Zenon, <2>2, <2>3
<1>10. ASSUME NEW i \in 1..(Len(q) + 1) PROVE r[i].op = OpsFor(l, g, r[i].key)
  <2>1. CASE i = Len(q) + 1 BY Zenon, <1>1, <1>6, <2>1
  <2>2. CASE i # Len(q) + 1
    <3>1. i \in 1..Len(q) BY <1>1, <2>2
    <3> QED BY Zenon, <1>7, <3>1
  <2> QED BY Zenon, <2>1, <2>2
<1>11. Len(r) <= Len(g) BY <1>1
<1> QED BY Zenon, <1>0, <1>e, <1>1, <1>4, <1>8, <1>9, <1>10, <1>11 DEF Exact

\* The entry of a key in force gets the operations o.
LEMMA UpdateExact ==
    ASSUME NEW l, NEW q, NEW h, Exact(l, q, h), NEW e \in Filter, "delete" \notin e.op, NEW i \in 1..Len(q),
           q[i].key = e.key, Since(h, e.key) # {}, NEW o \in Op, o = OpsFor(l, Append(h, e), e.key)
    PROVE  Exact(l, [q EXCEPT ![i].op = o], Append(h, e))
<1>0. PICK g, r : g = Append(h, e) /\ r = [q EXCEPT ![i].op = o] BY Zenon
<1>1. /\ q \in Seq(Filter) /\ h \in Seq(Filter) /\ Len(q) <= Len(h) /\ Bounded(h)
      /\ DOMAIN q = 1..Len(q) /\ Len(q) \in Nat /\ Len(h) \in Nat /\ Len(g) = Len(h) + 1 /\ g \in Seq(Filter)
    BY <1>0 DEF Exact
<1>r. /\ r \in Seq(Filter) /\ Len(r) = Len(q) /\ DOMAIN r = DOMAIN q /\ r[i].op = o
      /\ \A j \in 1..Len(q) : r[j].key = q[j].key /\ (j # i => r[j] = q[j])
  <2>1. q[i] \in Filter BY <1>1
  <2>2. [q[i] EXCEPT !.op = o] \in Filter BY Zenon, <2>1 DEF Filter
  <2>3. [q[i] EXCEPT !.op = o].key = q[i].key /\ [q[i] EXCEPT !.op = o].op = o BY Zenon, <2>1 DEF Filter
  <2>4. PICK c : c = [q[i] EXCEPT !.op = o] BY Zenon
  <2>5. r = [q EXCEPT ![i] = c] BY Zenon, <1>0, <2>4
  <2> QED BY <1>1, <2>2, <2>3, <2>4, <2>5
<1>2. /\ \A k : k \in KeysIn(q) <=> Since(h, k) # {}
      /\ \A j1, j2 \in DOMAIN q : j1 < j2 => Min(Since(h, q[j1].key)) < Min(Since(h, q[j2].key))
      /\ \A j \in DOMAIN q : q[j].op = OpsFor(l, h, q[j].key)
    BY Zenon DEF Exact
<1>h. h \in Seq(Filter) /\ Bounded(h) BY Zenon, <1>1
<1>3. Since(g, e.key) # {} /\ \A k : k # e.key => Since(g, k) = Since(h, k)
  <2>1. /\ \A k : k # e.key => Since(Append(h, e), k) = Since(h, k)
        /\ Since(Append(h, e), e.key) = Since(h, e.key) \cup {Len(h) + 1}
    BY Zenon, <1>h, SinceAppend
  <2> QED BY Zenon, <1>0, <2>1
<1>4. Bounded(g) /\ Min(Since(g, e.key)) = Min(Since(h, e.key)) BY Zenon, <1>0, <1>h, BoundedAppend
<1>5. \A k : k # e.key /\ Since(h, k) # {} => OpsFor(l, g, k) = OpsFor(l, h, k)
  <2>1. ASSUME NEW k, k # e.key, Since(h, k) # {} PROVE OpsFor(l, Append(h, e), k) = OpsFor(l, h, k)
    BY ONLY Zenon, <1>h, <2>1, e \in Filter, OpsOther
  <2> QED BY Zenon, <1>0, <2>1
<1>6. KeysIn(r) = KeysIn(q) BY Zenon, <1>1, <1>r DEF KeysIn
<1>7. \A k : k \in KeysIn(r) <=> Since(g, k) # {} BY Zenon, <1>2, <1>3, <1>6
<1>8. \A j \in 1..Len(q) : Min(Since(g, r[j].key)) = Min(Since(h, q[j].key)) BY Zenon, <1>r, <1>3, <1>4
<1>9. \A j1, j2 \in DOMAIN r : j1 < j2 => Min(Since(g, r[j1].key)) < Min(Since(g, r[j2].key))
    BY Zenon, <1>1, <1>r, <1>2, <1>8
<1>10. ASSUME NEW j \in DOMAIN r PROVE r[j].op = OpsFor(l, g, r[j].key)
  <2>1. CASE q[j].key = e.key
    <3>1. j \in EntriesOf(q, e.key) /\ i \in EntriesOf(q, e.key) BY Zenon, <1>1, <1>r, <2>1 DEF EntriesOf
    <3>2. \E n \in 1..Len(q) : EntriesOf(q, e.key) = {n} BY Zenon, EntryFacts
    <3>3. j = i BY <3>1, <3>2
    <3> QED BY Zenon, <1>0, <1>1, <1>r, <3>3
  <2>2. CASE q[j].key # e.key
    <3>1. j # i /\ j \in 1..Len(q) BY Zenon, <1>1, <1>r, <2>2
    <3>2. r[j] = q[j] BY Zenon, <1>r, <3>1
    <3>3. q[j].key \in KeysIn(q) BY Zenon, <1>1, <3>1 DEF KeysIn
    <3>4. Since(h, q[j].key) # {} BY Zenon, <1>2, <3>3
    <3>5. OpsFor(l, g, q[j].key) = OpsFor(l, h, q[j].key) BY Zenon, <1>5, <2>2, <3>4
    <3> QED BY Zenon, <1>1, <1>2, <3>1, <3>2, <3>5
  <2> QED BY Zenon, <2>1, <2>2
<1>11. Len(r) <= Len(g) BY <1>1, <1>r
<1> QED BY Zenon, <1>0, <1>1, <1>r, <1>4, <1>7, <1>9, <1>10, <1>11 DEF Exact

\* A write to a file of owners or namespaces.
LEMMA WriteExact ==
    ASSUME NEW l, NEW q, NEW h, Exact(l, q, h), NEW e \in Filter
    PROVE  /\ l \notin AddressList =>
                Exact(l, IF "delete" \in e.op THEN Delete(q, e.key) ELSE AddOrUpdate(q, e.key, e.op), Append(h, e))
           /\ l \in AddressList =>
                Exact(l, IF "delete" \in e.op THEN Delete(q, e.key) ELSE Ipv4AddOrUpdate(q, e.key, e.op), Append(h, e))
<1>1. CASE "delete" \in e.op
  <2>1. Exact(l, Delete(q, e.key), Append(h, e)) BY Zenon, <1>1, DeleteExact
  <2> QED BY Zenon, <1>1, <2>1
<1>2. CASE "delete" \notin e.op /\ Since(h, e.key) = {}
  <2>1. Exact(l, Append(q, [key |-> e.key, op |-> e.op]), Append(h, e)) BY Zenon, <1>2, AddExact
  <2>2. EntriesOf(q, e.key) = {} BY Zenon, <1>2, EntryFacts
  <2> QED BY Zenon, <1>2, <2>1, <2>2 DEF AddOrUpdate, Ipv4AddOrUpdate
<1>3. CASE "delete" \notin e.op /\ Since(h, e.key) # {}
  <2>1. PICK i \in 1..Len(q) : EntriesOf(q, e.key) = {i} /\ First(EntriesOf(q, e.key)) = i /\ q[i].key = e.key
    BY Zenon, <1>3, EntryFacts
  <2>q. h \in Seq(Filter) /\ Bounded(h) /\ q \in Seq(Filter) BY Zenon DEF Exact
  <2>r. q[i] \in Filter BY <2>q
  <2>2. e.op \in Op /\ q[i].op \in Op BY ONLY Zenon, <2>r, e \in Filter DEF Filter
  <2>3. q[i].op \cup e.op \in Op BY Zenon, <2>2 DEF Op
  <2>4. q[i].op = OpsFor(l, h, e.key)
    <3>1. q \in Seq(Filter) /\ \A j \in DOMAIN q : q[j].op = OpsFor(l, h, q[j].key) BY Zenon DEF Exact
    <3>2. i \in DOMAIN q BY <3>1
    <3> QED BY Zenon, <2>1, <3>1, <3>2
  <2>5. /\ l \notin AddressList => OpsFor(l, Append(h, e), e.key) = e.op
        /\ l \in AddressList => OpsFor(l, Append(h, e), e.key) = OpsFor(l, h, e.key) \cup e.op
    BY Zenon, <1>3, <2>q, OpsAgain
  <2>6. ASSUME l \notin AddressList PROVE Exact(l, [q EXCEPT ![i].op = e.op], Append(h, e))
    BY Zenon, <1>3, <2>1, <2>2, <2>5, <2>6, UpdateExact
  <2>7. ASSUME l \in AddressList PROVE Exact(l, [q EXCEPT ![i].op = q[i].op \cup e.op], Append(h, e))
    <3>1. PICK o \in Op : o = q[i].op \cup e.op BY Zenon, <2>3
    <3>2. o = OpsFor(l, Append(h, e), e.key) BY Zenon, <2>4, <2>5, <2>7, <3>1
    <3>3. Exact(l, [q EXCEPT ![i].op = o], Append(h, e)) BY Zenon, <1>3, <2>1, <3>2, UpdateExact
    <3> QED BY Zenon, <3>1, <3>3
  <2>8. AddOrUpdate(q, e.key, e.op) = [q EXCEPT ![i].op = e.op] BY Zenon, <2>1 DEF AddOrUpdate
  <2>9. Ipv4AddOrUpdate(q, e.key, e.op) = [q EXCEPT ![i].op = q[i].op \cup e.op] BY Zenon, <2>1 DEF Ipv4AddOrUpdate
  <2> QED BY Zenon, <1>3, <2>6, <2>7, <2>8, <2>9
<1> QED BY Zenon, <1>1, <1>2, <1>3
-----------------------------------------------------------------------------
(* Targets *)

\* A set of numbers that is not empty has a first.
LEMMA FirstFacts ==
    ASSUME NEW I \in SUBSET Nat, I # {}
    PROVE  First(I) \in I /\ \A j \in I : First(I) <= j
<1>1. PICK m \in I : \A k \in I : ~(<<k, m>> \in OpToRel(<, Nat)) BY Zenon, NatLessThanWellFounded, WFMin
<1>2. ASSUME NEW k \in I PROVE m <= k
  <2>1. k \in Nat /\ m \in Nat BY Zenon
  <2>2. k < m => <<k, m>> \in OpToRel(<, Nat) BY Zenon, <2>1 DEF OpToRel
  <2>3. ~(k < m) BY Zenon, <1>1, <2>2
  <2> QED BY <2>1, <2>3
<1> QED BY Zenon, <1>2 DEF First

\* The first entry of the list that matches is that of the oldest filter in force
\* that matches.
LEMMA WhichAsked ==
    ASSUME NEW l \in List, Exact(l, list[l], log[l]), NEW x
    PROVE  WhichOp(l, x) = Asked(l, x)
<1>0. PICK q, h : q = list[l] /\ h = log[l] BY Zenon
<1>x. Exact(l, q, h) BY Zenon, <1>0
<1>1. q \in Seq(Filter) /\ h \in Seq(Filter) /\ Bounded(h) BY Zenon, <1>x DEF Exact
<1>2. /\ \A k : k \in KeysIn(q) <=> Since(h, k) # {}
      /\ \A i, j \in DOMAIN q : i < j => Min(Since(h, q[i].key)) < Min(Since(h, q[j].key))
      /\ \A i \in DOMAIN q : q[i].op = OpsFor(l, h, q[i].key)
    BY Zenon, <1>x DEF Exact
<1>3. PICK I : I = {i \in DOMAIN q : Matches(l, q[i].key, x)} BY Zenon
<1>4. PICK H : H = {i \in DOMAIN h : Since(h, h[i].key) # {} /\ i \in Since(h, h[i].key) /\ Matches(l, h[i].key, x)}
    BY Zenon
<1>5. WhichOp(l, x) = IF I = {} THEN {} ELSE q[First(I)].op BY Zenon, <1>0, <1>3 DEF WhichOp
<1>6. Asked(l, x) = IF H = {} THEN {} ELSE OpsFor(l, h, h[Min(H)].key) BY Zenon, <1>0, <1>4 DEF Asked
<1>7. I \in SUBSET Nat /\ H \in SUBSET Nat /\ DOMAIN q \subseteq Nat BY <1>1, <1>3, <1>4
<1>8. ASSUME NEW i \in H PROVE \E j \in I : q[j].key = h[i].key
  <2>1. Since(h, h[i].key) # {} /\ Matches(l, h[i].key, x) BY Zenon, <1>4
  <2>2. h[i].key \in KeysIn(q) BY Zenon, <1>2, <2>1
  <2>3. PICK j \in DOMAIN q : q[j].key = h[i].key BY Zenon, <2>2 DEF KeysIn
  <2> QED BY Zenon, <1>3, <2>1, <2>3
<1>9. CASE I = {}
  <2>1. H = {} BY Zenon, <1>8, <1>9
  <2> QED BY Zenon, <1>5, <1>6, <1>9, <2>1
<1>10. CASE I # {}
  <2>1. PICK f : f = First(I) BY Zenon
  <2>2. f \in I /\ \A j \in I : f <= j BY Zenon, <1>7, <1>10, <2>1, FirstFacts
  <2>3. f \in DOMAIN q /\ Matches(l, q[f].key, x) BY Zenon, <1>3, <2>2
  <2>4. ASSUME NEW j \in DOMAIN q
        PROVE  /\ Since(h, q[j].key) \subseteq 1..Len(h) /\ Since(h, q[j].key) # {}
               /\ Min(Since(h, q[j].key)) \in Since(h, q[j].key)
               /\ \A i \in Since(h, q[j].key) : Min(Since(h, q[j].key)) <= i
    <3>1. q[j].key \in KeysIn(q) BY Zenon DEF KeysIn
    <3>2. Since(h, q[j].key) # {} BY Zenon, <1>2, <3>1
    <3>3. Since(h, q[j].key) \in SUBSET Nat /\ Since(h, q[j].key) \subseteq 1..Len(h) BY <1>1 DEF Since
    <3>4. PICK a \in Since(h, q[j].key) : \A i \in Since(h, q[j].key) : a <= i BY Zenon, <1>1, <3>2 DEF Bounded
    <3>5. Min(Since(h, q[j].key)) = a BY Zenon, <3>3, <3>4, LeastFacts
    <3> QED BY Zenon, <3>2, <3>3, <3>4, <3>5
  <2>5. PICK m : m = Min(Since(h, q[f].key)) BY Zenon
  <2>6. m \in Since(h, q[f].key) BY Zenon, <2>3, <2>4, <2>5
  <2>7. m \in DOMAIN h /\ h[m].key = q[f].key BY Zenon, <2>6 DEF Since
  <2>8. m \in H BY Zenon, <1>4, <2>3, <2>6, <2>7
  <2>9. ASSUME NEW i \in H PROVE m <= i
    <3>1. PICK j \in I : q[j].key = h[i].key BY Zenon, <1>8
    <3>2. i \in Since(h, q[j].key) /\ j \in DOMAIN q BY Zenon, <1>3, <1>4, <3>1
    <3>3. PICK b : b = Min(Since(h, q[j].key)) BY Zenon
    <3>4. b <= i /\ b \in Nat
      <4>1. b \in Since(h, q[j].key) /\ b <= i /\ Since(h, q[j].key) \subseteq 1..Len(h) BY Zenon, <2>4, <3>2, <3>3
      <4>2. Len(h) \in Nat BY <1>1
      <4> QED BY <4>1, <4>2
    <3>5. f < j => m < b BY Zenon, <1>2, <2>3, <2>5, <3>2, <3>3
    <3>6. f = j => m = b BY Zenon, <2>5, <3>3
    <3>7. f <= j /\ f \in Nat /\ j \in Nat /\ i \in Nat /\ m \in Nat BY Zenon, <1>7, <2>2, <2>8
    <3> QED BY <3>4, <3>5, <3>6, <3>7
  <2>10. Min(H) = m BY Zenon, <1>7, <2>8, <2>9, LeastFacts
  <2>11. q[f].op = OpsFor(l, h, q[f].key) BY Zenon, <1>2, <2>3
  <2>12. H # {} BY Zenon, <2>8
  <2> QED BY Zenon, <1>5, <1>6, <1>10, <2>1, <2>7, <2>10, <2>11, <2>12
<1> QED BY Zenon, <1>9, <1>10
-----------------------------------------------------------------------------
(* Filter words *)

\* The bits a type has in its filter word.
Bits(t) == WordBits(t) \cap SubtypeMask

\* A type filtered by name sets its own bits.
LEMMA NamedFacts ==
    ASSUME NEW t \in FilterType
    PROVE  /\ NamedBits[t] = WordBits(t)
           /\ \/ t \in Nodes /\ t \notin Relations /\ WordOf[t] = "node" /\ WordBits(t) = NodeWord[t]
              \/ /\ t \in Relations /\ t \notin Nodes /\ WordOf[t] = CategoryOf(t) /\ WordBits(t) = RelWord[t]
                 /\ CategoryOf(t) \in Word
           /\ WordOf[t] \in Word
<1>1. (t \in Relations /\ CategoryOf(t) \in Word) \/ t \in NodeTested BY Zenon, ControlAssumption
<1>2. NodeTested \subseteq Nodes /\ Relations \cap Nodes = {} BY Zenon, TypesDistinct
<1>3. WordOf[t] = IF t \in Nodes THEN "node" ELSE CategoryOf(t) BY Zenon DEF WordOf
<1>4. NamedBits[t] = WordBits(TypeOfName(t \notin Nodes, NameOfType(t \notin Nodes, t))) BY Zenon DEF NamedBits
<1>5. CASE t \in NodeTested
  <2>1. t \in Nodes /\ t \notin Relations BY Zenon, <1>2, <1>5
  <2>2. (t \notin Nodes) = FALSE BY Zenon, <2>1
  <2>3. TypeOfName(FALSE, NameOfType(FALSE, t)) = t BY Zenon, <1>5, TypesDistinct
  <2>4. NamedBits[t] = WordBits(t) BY Zenon, <1>4, <2>2, <2>3
  <2>5. WordBits(t) = NodeWord[t] BY Zenon, <2>1 DEF WordBits
  <2>6. "node" \in Word BY Zenon DEF Word
  <2> QED BY Zenon, <1>3, <2>1, <2>4, <2>5, <2>6
<1>6. CASE t \in Relations /\ CategoryOf(t) \in Word
  <2>1. t \notin Nodes BY Zenon, <1>2, <1>6
  <2>2. (t \notin Nodes) = TRUE BY Zenon, <2>1
  <2>3. TypeOfName(TRUE, NameOfType(TRUE, t)) = t BY Zenon, <1>6, TypesDistinct
  <2>4. NamedBits[t] = WordBits(t) BY Zenon, <1>4, <2>2, <2>3
  <2>5. WordBits(t) = RelWord[t] BY Zenon, <2>1 DEF WordBits
  <2> QED BY Zenon, <1>3, <1>6, <2>1, <2>4, <2>5
<1> QED BY Zenon, <1>1, <1>5, <1>6

\* Relations have a category that is not that of the nodes.
LEMMA CategoryFacts ==
    ASSUME NEW t \in Relations
    PROVE  CategoryOf(t) \in {"derived", "generated", "used", "informed", "influenced", "associated"}
<1>1. PICK c \in DOMAIN RelOrder : t \in ElementsOf(RelOrder[c]) BY Zenon DEF Relations
<1>2. CategoryOf(t) \in DOMAIN RelOrder BY Zenon, <1>1 DEF CategoryOf
<1>3. DOMAIN RelOrder = {"derived", "generated", "used", "informed", "influenced", "associated"} BY Zenon DEF RelOrder
<1> QED BY Zenon, <1>2, <1>3

\* The types of one word have no bit in common.
LEMMA BitsApart ==
    ASSUME NEW t1 \in FilterType, NEW t2 \in FilterType, WordOf[t1] = WordOf[t2], NEW b, b \in Bits(t1), b \in Bits(t2)
    PROVE  t1 = t2
<1>1. b \in WordBits(t1) /\ b \in WordBits(t2) /\ b \in SubtypeMask BY Zenon DEF Bits
<1>2. CASE t1 \in Nodes
  <2>1. WordOf[t1] = "node" /\ WordBits(t1) = NodeWord[t1] BY Zenon, <1>2, NamedFacts
  <2>2. t2 \in Nodes /\ WordBits(t2) = NodeWord[t2]
    <3>1. t2 \in Relations => CategoryOf(t2) # "node" BY Zenon, CategoryFacts
    <3> QED BY Zenon, <2>1, <3>1, NamedFacts
  <2>3. NodeWord[t1] \cap NodeWord[t2] \cap SubtypeMask # {} BY Zenon, <1>1, <2>1, <2>2
  <2> QED BY Zenon, <1>2, <2>2, <2>3, TypesDistinct
<1>3. CASE t1 \notin Nodes
  <2>1. t1 \in Relations /\ WordOf[t1] = CategoryOf(t1) /\ WordBits(t1) = RelWord[t1] BY Zenon, <1>3, NamedFacts
  <2>2. t2 \in Relations /\ WordOf[t2] = CategoryOf(t2) /\ WordBits(t2) = RelWord[t2]
    <3>1. CategoryOf(t1) # "node" BY Zenon, <2>1, CategoryFacts
    <3> QED BY Zenon, <2>1, <3>1, NamedFacts
  <2>3. RelWord[t1] \cap RelWord[t2] \cap SubtypeMask # {} BY Zenon, <1>1, <2>1, <2>2
  <2> QED BY Zenon, <2>1, <2>2, <2>3, TypesDistinct
<1> QED BY Zenon, <1>2, <1>3

\* A filter word has the bits of the types that were asked for.
Filled(f, w, S) == \A b : b \in f <=> \E t \in S : WordOf[t] = w /\ b \in Bits(t)

\* A test of a word with those bits hits the types that were asked for.
LEMMA HitFacts ==
    ASSUME NEW S \in SUBSET FilterType, NEW f, NEW t
    PROVE  /\ t \in Nodes /\ Filled(f, "node", S) => (HitFilter(f, NodeWord[t]) <=> t \in S)
           /\ t \in Relations /\ Filled(f, CategoryOf(t), S) => (HitFilter(f, RelWord[t]) <=> t \in S)
<1>1. ASSUME t \in Nodes, Filled(f, "node", S) PROVE HitFilter(f, NodeWord[t]) <=> t \in S
  <2>1. ASSUME NEW b \in f, b \in NodeWord[t] PROVE t \in S
    <3>1. PICK t2 \in S : WordOf[t2] = "node" /\ b \in Bits(t2) BY Zenon, <1>1, <2>1 DEF Filled
    <3>2. t2 \in Nodes /\ WordBits(t2) = NodeWord[t2]
      <4>1. t2 \in Relations => CategoryOf(t2) # "node" BY Zenon, CategoryFacts
      <4> QED BY Zenon, <3>1, <4>1, NamedFacts
    <3>3. NodeWord[t2] \cap NodeWord[t] \cap SubtypeMask # {} BY Zenon, <2>1, <3>1, <3>2 DEF Bits
    <3>4. t2 = t BY Zenon, <1>1, <3>2, <3>3, TypesDistinct
    <3> QED BY Zenon, <3>4
  <2>2. ASSUME t \in S PROVE HitFilter(f, NodeWord[t])
    <3>1. WordOf[t] = "node" /\ WordBits(t) = NodeWord[t] BY Zenon, <1>1, <2>2, NamedFacts
    <3>2. NodeWord[t] \cap NodeWord[t] \cap SubtypeMask # {} BY Zenon, <1>1, TypesDistinct
    <3>3. PICK b \in NodeWord[t] : b \in SubtypeMask BY Zenon, <3>2
    <3>4. b \in Bits(t) BY Zenon, <3>1, <3>3 DEF Bits
    <3>5. b \in f BY Zenon, <1>1, <2>2, <3>1, <3>4 DEF Filled
    <3> QED BY Zenon, <3>3, <3>5 DEF HitFilter
  <2> QED BY Zenon, <2>1, <2>2 DEF HitFilter
<1>2. ASSUME t \in Relations, Filled(f, CategoryOf(t), S) PROVE HitFilter(f, RelWord[t]) <=> t \in S
  <2>0. CategoryOf(t) # "node" BY Zenon, <1>2, CategoryFacts
  <2>1. ASSUME NEW b \in f, b \in RelWord[t] PROVE t \in S
    <3>1. PICK t2 \in S : WordOf[t2] = CategoryOf(t) /\ b \in Bits(t2) BY Zenon, <1>2, <2>1 DEF Filled
    <3>2. t2 \in Relations /\ CategoryOf(t2) = CategoryOf(t) /\ WordBits(t2) = RelWord[t2]
      BY Zenon, <2>0, <3>1, NamedFacts
    <3>3. RelWord[t2] \cap RelWord[t] \cap SubtypeMask # {} BY Zenon, <2>1, <3>1, <3>2 DEF Bits
    <3>4. t2 = t BY Zenon, <1>2, <3>2, <3>3, TypesDistinct
    <3> QED BY Zenon, <3>4
  <2>2. ASSUME t \in S PROVE HitFilter(f, RelWord[t])
    <3>0. t \notin Nodes BY Zenon, <1>2, TypesDistinct
    <3>1. WordOf[t] = CategoryOf(t) /\ WordBits(t) = RelWord[t] BY Zenon, <2>2, <3>0, NamedFacts
    <3>2. RelWord[t] \cap RelWord[t] \cap SubtypeMask # {} BY Zenon, <1>2, TypesDistinct
    <3>3. PICK b \in RelWord[t] : b \in SubtypeMask BY Zenon, <3>2
    <3>4. b \in Bits(t) BY Zenon, <3>1, <3>3 DEF Bits
    <3>5. b \in f BY Zenon, <1>2, <2>2, <3>1, <3>4 DEF Filled
    <3> QED BY Zenon, <3>3, <3>5 DEF HitFilter
  <2> QED BY Zenon, <2>1, <2>2 DEF HitFilter
<1> QED BY Zenon, <1>1, <1>2

\* A type is filtered, or no longer.
LEMMA WriteFilled ==
    ASSUME NEW S \in SUBSET FilterType, NEW f, NEW w, Filled(f, w, S), NEW t \in FilterType
    PROVE  /\ WordOf[t] # w => Filled(f, w, S \cup {t}) /\ Filled(f, w, S \ {t})
           /\ WordOf[t] = w => /\ Filled(WriteFilter(f, TRUE, Bits(t)), w, S \cup {t})
                               /\ Filled(WriteFilter(f, FALSE, Bits(t)), w, S \ {t})
<1>1. ASSUME WordOf[t] # w PROVE Filled(f, w, S \cup {t}) /\ Filled(f, w, S \ {t}) BY Zenon, <1>1 DEF Filled
<1>2. ASSUME WordOf[t] = w PROVE Filled(f \cup Bits(t), w, S \cup {t}) BY Zenon, <1>2 DEF Filled
<1>3. ASSUME WordOf[t] = w PROVE Filled(f \ Bits(t), w, S \ {t})
  <2>1. ASSUME NEW b, b \in f \ Bits(t) PROVE \E t2 \in S \ {t} : WordOf[t2] = w /\ b \in Bits(t2)
    BY Zenon, <2>1 DEF Filled
  <2>2. ASSUME NEW t2 \in S \ {t}, WordOf[t2] = w, NEW b, b \in Bits(t2) PROVE b \in f \ Bits(t)
    <3>1. b \in f BY Zenon, <2>2 DEF Filled
    <3>2. b \notin Bits(t) BY Zenon, <1>3, <2>2, BitsApart
    <3> QED BY Zenon, <3>1, <3>2
  <2> QED BY Zenon, <2>1, <2>2 DEF Filled
<1> QED BY Zenon, <1>1, <1>2, <1>3 DEF WriteFilter
-----------------------------------------------------------------------------
(* The invariant *)

\* The words and lists are what the user's writes make of them.
Kinds ==
    /\ word \in [Use -> [Word -> SUBSET SubtypeMask]]
    /\ DOMAIN list = List /\ DOMAIN log = List /\ DOMAIN flags = DOMAIN Target
    /\ list = [l \in List |-> list[l]] /\ log = [l \in List |-> log[l]]
    /\ flags = [n \in DOMAIN Target |-> flags[n]]
    /\ wanted \in [Use -> SUBSET FilterType]
WordsKept == \A u \in Use, w \in Word : Filled(word[u][w], w, wanted[u])
ListsKept == \A l \in List : Exact(l, list[l], log[l])
ControlInv == Kinds /\ WordsKept /\ ListsKept

\* Nothing is filtered when the module starts.
LEMMA ControlInit == Init => ControlInv
<1> SUFFICES ASSUME Init PROVE ControlInv BY Zenon
<1>1. Kinds
  <2>1. word \in [Use -> [Word -> SUBSET SubtypeMask]] /\ wanted \in [Use -> SUBSET FilterType] BY Zenon DEF Init
  <2>4. /\ DOMAIN list = List /\ DOMAIN log = List /\ DOMAIN flags = DOMAIN Target
        /\ list = [l \in List |-> list[l]] /\ log = [l \in List |-> log[l]]
        /\ flags = [n \in DOMAIN Target |-> flags[n]]
    BY Zenon DEF Init
  <2> QED BY Zenon, <2>1, <2>4 DEF Kinds
<1>2. WordsKept
  <2>1. \A u \in Use, w \in Word : word[u][w] = {} /\ wanted[u] = {} BY Zenon DEF Init
  <2> QED BY Zenon, <2>1 DEF WordsKept, Filled
<1>3. ListsKept
  <2> SUFFICES ASSUME NEW l \in List PROVE Exact(l, list[l], log[l]) BY Zenon DEF ListsKept
  <2>1. PICK q : q = <<>> BY Zenon
  <2>2. list[l] = q /\ log[l] = q BY Zenon, <2>1 DEF Init
  <2>3. q \in Seq(Filter) /\ Len(q) = 0 /\ DOMAIN q = {} BY <2>1
  <2>5. \A k : Since(q, k) = {} BY Zenon, <2>3 DEF Since
  <2>6. \A k : k \notin KeysIn(q) BY Zenon, <2>3 DEF KeysIn
  <2>7. Bounded(q) BY Zenon, <2>5 DEF Bounded
  <2>8. Len(q) <= Len(q) BY <2>3
  <2>9. Exact(l, q, q) BY Zenon, <2>3, <2>5, <2>6, <2>7, <2>8 DEF Exact
  <2> QED BY Zenon, <2>2, <2>9
<1> QED BY Zenon, <1>1, <1>2, <1>3 DEF ControlInv

\* A write to a list file keeps the lists exact.
LEMMA WrittenStep ==
    ASSUME ControlInv, NEW l \in List, NEW k, NEW op, [key |-> k, op |-> op] \in Filter, NEW q,
           ListWritten(l, k, op, q),
           l \notin AddressList => q = AddOrUpdate(list[l], k, op),
           l \in AddressList => q = Ipv4AddOrUpdate(list[l], k, op)
    PROVE  ControlInv'
<1>1. /\ list' = [list EXCEPT ![l] = IF "delete" \in op THEN Delete(list[l], k) ELSE q]
      /\ log' = [log EXCEPT ![l] = Append(log[l], [key |-> k, op |-> op])]
      /\ word' = word /\ flags' = flags /\ wanted' = wanted
    BY Zenon DEF ListWritten
<1>2. Kinds /\ WordsKept /\ ListsKept BY Zenon DEF ControlInv
<1>3. PICK e \in Filter : e = [key |-> k, op |-> op] BY Zenon
<1>4. e.key = k /\ e.op = op BY Zenon, <1>3
<1>5. Exact(l, list[l], log[l]) BY Zenon, <1>2 DEF ListsKept
<1>6. Exact(l, IF "delete" \in op THEN Delete(list[l], k) ELSE q, Append(log[l], e))
  <2>1. CASE l \in AddressList BY Zenon, <1>4, <1>5, <2>1, WriteExact
  <2>2. CASE l \notin AddressList BY Zenon, <1>4, <1>5, <2>2, WriteExact
  <2> QED BY Zenon, <2>1, <2>2
<1>7. DOMAIN list = List /\ DOMAIN log = List BY Zenon, <1>2 DEF Kinds
<1>8. /\ list'[l] = (IF "delete" \in op THEN Delete(list[l], k) ELSE q) /\ log'[l] = Append(log[l], e)
      /\ \A m \in List : m # l => list'[m] = list[m] /\ log'[m] = log[m]
      /\ DOMAIN list' = List /\ DOMAIN log' = List
      /\ list' = [m \in List |-> list'[m]] /\ log' = [m \in List |-> log'[m]]
    BY Zenon, <1>1, <1>3, <1>7
<1>9. Kinds' BY Zenon, <1>1, <1>2, <1>8 DEF Kinds
<1>10. WordsKept' BY Zenon, <1>1, <1>2 DEF WordsKept
<1>11. ListsKept'
  <2> SUFFICES ASSUME NEW m \in List PROVE Exact(m, list'[m], log'[m])
      BY Zenon DEF ListsKept
  <2>1. CASE m # l BY Zenon, <1>2, <1>8, <2>1 DEF ListsKept
  <2>2. CASE m = l BY Zenon, <1>6, <1>8, <2>2
  <2> QED BY Zenon, <2>1, <2>2
<1> QED BY Zenon, <1>9, <1>10, <1>11 DEF ControlInv

\* A write to a filter file keeps the words exact.
LEMMA FilterStep ==
    ASSUME ControlInv, NEW u \in Use, NEW t \in FilterType, FilterFile(u, t, t \notin wanted[u])
    PROVE  ControlInv'
<1>0. PICK add \in BOOLEAN : add = (t \notin wanted[u]) BY Zenon
<1>1. /\ word' = [word EXCEPT ![u][WordOf[t]] = WriteFilter(word[u][WordOf[t]], add, NamedBits[t] \cap SubtypeMask)]
      /\ wanted' = [wanted EXCEPT ![u] = IF add THEN wanted[u] \cup {t} ELSE wanted[u] \ {t}]
      /\ list' = list /\ flags' = flags /\ log' = log
    BY Zenon, <1>0 DEF FilterFile
<1>2. Kinds /\ WordsKept /\ ListsKept BY Zenon DEF ControlInv
<1>3. PICK v \in Word : v = WordOf[t] BY Zenon, NamedFacts
<1>4. NamedBits[t] \cap SubtypeMask = Bits(t) BY Zenon, NamedFacts DEF Bits
<1>5. word \in [Use -> [Word -> SUBSET SubtypeMask]] /\ wanted \in [Use -> SUBSET FilterType] BY Zenon, <1>2 DEF Kinds
<1>6. PICK f : f = WriteFilter(word[u][v], add, Bits(t)) BY Zenon
<1>7. word' = [word EXCEPT ![u][v] = f] BY Zenon, <1>1, <1>3, <1>4, <1>6
<1>8. f \in SUBSET SubtypeMask
  <2>1. word[u][v] \in SUBSET SubtypeMask BY Zenon, <1>5
  <2>2. Bits(t) \subseteq SubtypeMask BY Zenon DEF Bits
  <2> QED BY Zenon, <1>6, <2>1, <2>2 DEF WriteFilter
<1>9. PICK S : S = IF add THEN wanted[u] \cup {t} ELSE wanted[u] \ {t} BY Zenon
<1>10. /\ word' \in [Use -> [Word -> SUBSET SubtypeMask]] /\ word'[u][v] = f
       /\ \A w \in Word : w # v => word'[u][w] = word[u][w]
       /\ \A z \in Use : z # u => word'[z] = word[z]
    BY Zenon, <1>5, <1>7, <1>8
<1>11. S \in SUBSET FilterType /\ wanted[u] \in SUBSET FilterType BY Zenon, <1>5, <1>9
<1>12. wanted' \in [Use -> SUBSET FilterType] /\ wanted'[u] = S /\ \A z \in Use : z # u => wanted'[z] = wanted[z]
    BY Zenon, <1>1, <1>5, <1>9, <1>11
<1>14. Kinds' BY Zenon, <1>1, <1>2, <1>10, <1>12 DEF Kinds
<1>15. WordsKept'
  <2> SUFFICES ASSUME NEW z \in Use, NEW w \in Word PROVE Filled(word'[z][w], w, wanted'[z]) BY Zenon DEF WordsKept
  <2>1. Filled(word[z][w], w, wanted[z]) BY Zenon, <1>2 DEF WordsKept
  <2>2. CASE z # u BY Zenon, <1>10, <1>12, <2>1, <2>2
  <2>3. CASE z = u /\ w # v
    <3>1. Filled(word[u][w], w, wanted[u] \cup {t}) /\ Filled(word[u][w], w, wanted[u] \ {t})
      BY Zenon, <1>3, <1>11, <2>1, <2>3, WriteFilled
    <3> QED BY Zenon, <1>9, <1>10, <1>12, <2>3, <3>1
  <2>4. CASE z = u /\ w = v
    <3>1. /\ Filled(WriteFilter(word[u][v], TRUE, Bits(t)), v, wanted[u] \cup {t})
          /\ Filled(WriteFilter(word[u][v], FALSE, Bits(t)), v, wanted[u] \ {t})
      BY Zenon, <1>3, <1>11, <2>1, <2>4, WriteFilled
    <3>2. CASE add = TRUE BY Zenon, <1>6, <1>9, <1>10, <1>12, <2>4, <3>1, <3>2
    <3>3. CASE add = FALSE BY Zenon, <1>6, <1>9, <1>10, <1>12, <2>4, <3>1, <3>3
    <3> QED BY Zenon, <3>2, <3>3
  <2> QED BY Zenon, <2>2, <2>3, <2>4
<1>16. ListsKept' BY Zenon, <1>1, <1>2 DEF ListsKept
<1> QED BY Zenon, <1>14, <1>15, <1>16 DEF ControlInv

\* The marks of the targets leave the words and the lists alone.
LEMMA MarkStep ==
    ASSUME ControlInv, NEW f, flags' = f, DOMAIN f = DOMAIN Target, f = [n \in DOMAIN Target |-> f[n]],
           UNCHANGED <<word, list, wanted, log>>
    PROVE  ControlInv'
<1>1. word' = word /\ list' = list /\ wanted' = wanted /\ log' = log BY Zenon
<1>2. Kinds' BY Zenon, <1>1 DEF ControlInv, Kinds
<1>3. WordsKept' BY Zenon, <1>1 DEF ControlInv, WordsKept
<1>4. ListsKept' BY Zenon, <1>1 DEF ControlInv, ListsKept
<1> QED BY Zenon, <1>2, <1>3, <1>4 DEF ControlInv

\* Every step keeps the invariant.
LEMMA ControlStep == ControlInv /\ [Next]_vars => ControlInv'
<1> SUFFICES ASSUME ControlInv, [Next]_vars PROVE ControlInv' BY Zenon
<1>1. CASE UNCHANGED vars
  <2>1. word' = word /\ list' = list /\ flags' = flags /\ wanted' = wanted /\ log' = log BY Zenon, <1>1 DEF vars
  <2> QED BY Zenon, <2>1 DEF ControlInv, Kinds, WordsKept, ListsKept
<1>2. ASSUME NEW u \in Use, NEW t \in FilterType, FilterFile(u, t, t \notin wanted[u]) PROVE ControlInv'
    BY Zenon, <1>2, FilterStep
<1>3. ASSUME NEW w \in Writes, w.list \in OwnerList, OwnerFile(w.list, w.key, w.op) PROVE ControlInv'
  <2>1. w.list \in List /\ w.list \notin AddressList BY Zenon, <1>3 DEF List, OwnerList, AddressList
  <2>2. [key |-> w.key, op |-> w.op] \in Filter BY Zenon DEF Filter, Key, Op
  <2>3. ListWritten(w.list, w.key, w.op, AddOrUpdate(list[w.list], w.key, w.op)) BY Zenon, <1>3 DEF OwnerFile
  <2> QED BY Zenon, <2>1, <2>2, <2>3, WrittenStep
<1>4. ASSUME NEW w \in Writes, w.list = "ns", NsFile(w.key, w.op) PROVE ControlInv'
  <2>1. "ns" \in List /\ "ns" \notin AddressList BY Zenon DEF List, AddressList
  <2>2. [key |-> w.key, op |-> w.op] \in Filter BY Zenon DEF Filter, Key, Op
  <2>3. ListWritten("ns", w.key, w.op, AddOrUpdate(list["ns"], w.key, w.op)) BY Zenon, <1>4 DEF NsFile
  <2> QED BY Zenon, <2>1, <2>2, <2>3, WrittenStep
<1>5. ASSUME NEW w \in Writes, w.list \in AddressList, Ipv4File(w.list, w.key, w.op) PROVE ControlInv'
  <2>1. w.list \in List BY Zenon, <1>5 DEF List
  <2>2. PICK k : k = [w.key EXCEPT !.ip = @ \cap w.key.mask] BY Zenon
  <2>3. [key |-> k, op |-> w.op] \in Filter BY Zenon, <2>2 DEF Filter, Key, Op
  <2>4. ListWritten(w.list, k, w.op, Ipv4AddOrUpdate(list[w.list], k, w.op)) BY Zenon, <1>5, <2>2 DEF Ipv4File
  <2> QED BY Zenon, <1>5, <2>1, <2>3, <2>4, WrittenStep
<1>6. ASSUME NEW n \in DOMAIN Target, ApplyTarget(n) PROVE ControlInv'
  <2>1. PICK f : f = flags' BY Zenon
  <2>2. DOMAIN flags = DOMAIN Target BY Zenon DEF ControlInv, Kinds
  <2>3. DOMAIN f = DOMAIN Target /\ f = [m \in DOMAIN Target |-> f[m]] BY Zenon, <1>6, <2>1, <2>2 DEF ApplyTarget
  <2>4. UNCHANGED <<word, list, wanted, log>> BY Zenon, <1>6 DEF ApplyTarget
  <2> QED BY Zenon, <2>1, <2>3, <2>4, MarkStep
<1>7. ASSUME NEW l \in AddressList, NEW a \in Address, ApplyAddress(l, a) PROVE ControlInv'
  <2>1. PICK f : f = flags' BY Zenon
  <2>2. DOMAIN flags = DOMAIN Target BY Zenon DEF ControlInv, Kinds
  <2>3. DOMAIN f = DOMAIN Target /\ f = [m \in DOMAIN Target |-> f[m]] BY Zenon, <1>7, <2>1, <2>2 DEF ApplyAddress
  <2>4. UNCHANGED <<word, list, wanted, log>> BY Zenon, <1>7 DEF ApplyAddress
  <2> QED BY Zenon, <2>1, <2>3, <2>4, MarkStep
<1> QED BY Zenon, <1>1, <1>2, <1>3, <1>4, <1>5, <1>6, <1>7 DEF Next

\* The words and lists of the control files are, whatever is written to them and
\* however often, what the writes make of them.
THEOREM ControlInvariant == Spec => []ControlInv
BY ControlInit, ControlStep, PTL DEF Spec

\* The filter tests of the hooks hit exactly the types the user has asked for by
\* name and not removed since, in any order of writes to the filter files.
THEOREM ControlFilterExact == Spec => []FilterExact
<1>1. ControlInv => FilterExact
  <2> SUFFICES ASSUME ControlInv, NEW u \in Use
               PROVE  /\ \A t \in Relations : FilterRelation(word[u], RelWord[t]) <=> t \in wanted[u]
                      /\ \A t \in Nodes : FilterNode(word[u], NodeWord[t]) <=> t \in wanted[u]
      BY Zenon DEF FilterExact
  <2>1. PICK S \in SUBSET FilterType : S = wanted[u]
    <3>1. wanted \in [Use -> SUBSET FilterType] BY Zenon DEF ControlInv, Kinds
    <3> QED BY Zenon, <3>1
  <2>2. \A w \in Word : Filled(word[u][w], w, S) BY Zenon, <2>1 DEF ControlInv, WordsKept
  <2>3. ASSUME NEW t \in Relations PROVE FilterRelation(word[u], RelWord[t]) <=> t \in S
    <3>1. \A c \in DOMAIN RelOrder : ProvIs(RelWord[t], c) <=> c = CategoryOf(t) BY Zenon, TypesDistinct
    <3>2. DOMAIN RelOrder = {"derived", "generated", "used", "informed", "influenced", "associated"} BY Zenon DEF RelOrder
    <3>3. /\ ProvIs(RelWord[t], "derived") <=> CategoryOf(t) = "derived"
          /\ ProvIs(RelWord[t], "generated") <=> CategoryOf(t) = "generated"
          /\ ProvIs(RelWord[t], "used") <=> CategoryOf(t) = "used"
          /\ ProvIs(RelWord[t], "informed") <=> CategoryOf(t) = "informed"
      BY Zenon, <3>1, <3>2
    <3>4. CASE CategoryOf(t) \in {"derived", "generated", "used", "informed"}
      <4>1. CategoryOf(t) \in Word BY Zenon, <3>4 DEF Word
      <4>2. HitFilter(word[u][CategoryOf(t)], RelWord[t]) <=> t \in S BY Zenon, <2>2, <4>1, HitFacts
      <4>3. FilterRelation(word[u], RelWord[t]) <=> HitFilter(word[u][CategoryOf(t)], RelWord[t])
        <5>1. CASE CategoryOf(t) = "derived" BY Zenon, <3>3, <5>1 DEF FilterRelation
        <5>2. CASE CategoryOf(t) = "generated"
          <6>1. "generated" # "derived" BY Zenon
          <6> QED BY Zenon, <3>3, <5>2, <6>1 DEF FilterRelation
        <5>3. CASE CategoryOf(t) = "used"
          <6>1. "used" # "derived" /\ "used" # "generated" BY Zenon
          <6> QED BY Zenon, <3>3, <5>3, <6>1 DEF FilterRelation
        <5>4. CASE CategoryOf(t) = "informed"
          <6>1. "informed" # "derived" /\ "informed" # "generated" /\ "informed" # "used" BY Zenon
          <6> QED BY Zenon, <3>3, <5>4, <6>1 DEF FilterRelation
        <5> QED BY Zenon, <3>4, <5>1, <5>2, <5>3, <5>4
      <4> QED BY Zenon, <4>2, <4>3
    <3>5. CASE CategoryOf(t) \notin {"derived", "generated", "used", "informed"}
      <4>1. ~FilterRelation(word[u], RelWord[t]) BY Zenon, <3>3, <3>5 DEF FilterRelation
      <4>2. CategoryOf(t) \notin Word BY Zenon, <3>5, CategoryFacts DEF Word
      <4>3. t \notin Nodes BY Zenon, TypesDistinct
      <4>4. t \notin FilterType BY Zenon, <4>2, <4>3, NamedFacts
      <4> QED BY Zenon, <4>1, <4>4
    <3> QED BY Zenon, <3>4, <3>5
  <2>4. ASSUME NEW t \in Nodes PROVE FilterNode(word[u], NodeWord[t]) <=> t \in S
    <3>1. Filled(word[u]["node"], "node", S) BY Zenon, <2>2 DEF Word
    <3> QED BY Zenon, <3>1, HitFacts DEF FilterNode
  <2> QED BY Zenon, <2>1, <2>3, <2>4
<1> QED BY ControlInvariant, <1>1, PTL

\* A read of a list file returns one entry for each key written and not deleted
\* since, oldest first, with its operations, after any writes.
THEOREM ControlListsExact == Spec => []ListsExact
<1>1. ControlInv => ListsExact
  <2> DEFINE Good(l, q, h) ==
          /\ {q[i].key : i \in DOMAIN q} = {h[i].key : i \in {j \in DOMAIN h : Since(h, h[j].key) # {}}}
          /\ \A i, j \in DOMAIN q : i < j => Min(Since(h, q[i].key)) < Min(Since(h, q[j].key))
          /\ \A i \in DOMAIN q : q[i].op = OpsFor(l, h, q[i].key)
  <2>a. ListsExact <=> \A l \in List : Good(l, ReadList(list[l], Len(log[l]) + 1), log[l]) BY Zenon DEF ListsExact
  <2> HIDE DEF Good
  <2> SUFFICES ASSUME ControlInv, NEW l \in List PROVE Good(l, ReadList(list[l], Len(log[l]) + 1), log[l])
      BY Zenon, <2>a
  <2>b. PICK q, h : q = ReadList(list[l], Len(log[l]) + 1) /\ h = log[l] BY Zenon
  <2>1. Exact(l, list[l], log[l]) BY Zenon DEF ControlInv, ListsKept
  <2>2. q = list[l]
    <3>1. list[l] \in Seq(Filter) /\ log[l] \in Seq(Filter) /\ Len(list[l]) <= Len(log[l]) BY Zenon, <2>1 DEF Exact
    <3>2. Len(list[l]) \in Nat /\ Len(log[l]) \in Nat BY <3>1
    <3>4. ~(Len(log[l]) + 1 < 1 \/ Len(log[l]) + 1 < Len(list[l])) BY <3>1, <3>2
    <3> QED BY Zenon, <2>b, <3>4 DEF ReadList
  <2>3. Exact(l, q, h) BY Zenon, <2>1, <2>2, <2>b
  <2>4. \A k : k \in KeysIn(q) <=> Since(h, k) # {} BY Zenon, <2>3 DEF Exact
  <2>5. \A k : Since(h, k) # {} => \E i \in DOMAIN h : h[i].key = k BY Zenon DEF Since
  <2>6. KeysIn(q) = {h[i].key : i \in {j \in DOMAIN h : Since(h, h[j].key) # {}}} BY Zenon, <2>4, <2>5
  <2>7. Good(l, q, h) BY Zenon, <2>3, <2>6 DEF Good, Exact, KeysIn
  <2> QED BY Zenon, <2>7, <2>b
<1> QED BY ControlInvariant, <1>1, PTL

\* A hook marks a node as the oldest filters in force say, whatever filters were
\* written and deleted before.
THEOREM ControlTargetRule == Spec => TargetRule
<1> DEFINE Marked ==
        \A n \in DOMAIN Target :
          flags'[n] # flags[n] =>
             \/ flags'[n] = flags[n] \cup ((UNION {Asked(l, Target[n]) : l \in ListsOf(Target[n].type)})
                                             \cap {"tracked", "propagate", "opaque"})
             \/ \E l \in AddressList, a \in Address :
                   /\ n \in {a.proc, a.sock} /\ "opaque" \notin flags[a.proc]
                   /\ flags'[n] = flags[n] \cup (Asked(l, a) \cap
                         ({"tracked", "propagate"} \cup IF n = a.sock THEN {"record"} ELSE {}))
<1>1. ASSUME ControlInv, [Next]_vars PROVE [Marked]_vars
  <2>0. DOMAIN flags = DOMAIN Target BY Zenon, <1>1 DEF ControlInv, Kinds
  <2>1. \A l \in List : \A x : WhichOp(l, x) = Asked(l, x) BY Zenon, <1>1, WhichAsked DEF ControlInv, ListsKept
  <2>2. ASSUME flags' = flags PROVE Marked BY Zenon, <2>2
  <2>3. ASSUME NEW m \in DOMAIN Target, ApplyTarget(m), NEW n \in DOMAIN Target, flags'[n] # flags[n]
        PROVE  flags'[n] = flags[n] \cup ((UNION {Asked(l, Target[n]) : l \in ListsOf(Target[n].type)})
                                             \cap {"tracked", "propagate", "opaque"})
    <3>1. PICK op : op = UNION {WhichOp(l, Target[m]) : l \in ListsOf(Target[m].type)} BY Zenon
    <3>2. flags' = [flags EXCEPT ![m] = flags[m] \cup (op \cap {"tracked", "propagate", "opaque"})]
      BY Zenon, <2>3, <3>1 DEF ApplyTarget
    <3>3. n = m BY Zenon, <2>0, <2>3, <3>2
    <3>4. flags'[m] = flags[m] \cup (op \cap {"tracked", "propagate", "opaque"}) BY Zenon, <2>0, <3>2
    <3>5. ListsOf(Target[m].type) \subseteq List BY Zenon DEF ListsOf, List
    <3>6. {WhichOp(l, Target[m]) : l \in ListsOf(Target[m].type)} = {Asked(l, Target[m]) : l \in ListsOf(Target[m].type)}
      BY Zenon, <2>1, <3>5
    <3>7. op = UNION {Asked(l, Target[m]) : l \in ListsOf(Target[m].type)} BY Zenon, <3>1, <3>6
    <3>8. Target[n] = Target[m] BY Zenon, <3>3
    <3>9. op = UNION {Asked(l, Target[n]) : l \in ListsOf(Target[n].type)} BY ONLY Zenon, <3>7, <3>8
    <3>10. flags'[n] = flags[n] \cup (op \cap {"tracked", "propagate", "opaque"}) BY ONLY Zenon, <3>3, <3>4
    <3> QED BY ONLY Zenon, <3>9, <3>10
  <2>4. ASSUME NEW l \in AddressList, NEW a \in Address, ApplyAddress(l, a), NEW n \in DOMAIN Target, flags'[n] # flags[n]
        PROVE  /\ n \in {a.proc, a.sock} /\ "opaque" \notin flags[a.proc]
               /\ flags'[n] = flags[n] \cup (Asked(l, a) \cap
                     ({"tracked", "propagate"} \cup IF n = a.sock THEN {"record"} ELSE {}))
    <3>1. PICK op, p, s : op = Asked(l, a) /\ p = a.proc /\ s = a.sock BY Zenon
    <3>2. WhichOp(l, a) = op
      <4>1. l \in List BY Zenon DEF List
      <4> QED BY Zenon, <2>1, <3>1, <4>1
    <3>3. /\ "opaque" \notin flags[p]
          /\ flags' = [flags EXCEPT ![p] = @ \cup (op \cap {"tracked", "propagate"}),
                                    ![s] = @ \cup (op \cap {"tracked", "propagate", "record"})]
      BY Zenon, <2>4, <3>1, <3>2 DEF ApplyAddress
    <3>4. p \in DOMAIN flags /\ s \in DOMAIN flags BY Zenon, <2>0, <3>1, ControlAssumption
    <3>5. n \in {p, s} BY Zenon, <2>0, <2>4, <3>3, <3>4
    <3>6. CASE n = s /\ p # s
      <4>1. flags'[n] = flags[n] \cup (op \cap {"tracked", "propagate", "record"}) BY Zenon, <3>3, <3>4, <3>6
      <4> QED BY Zenon, <3>1, <3>3, <3>5, <3>6, <4>1
    <3>7. CASE n = s /\ p = s
      <4>1. flags'[n] = (flags[n] \cup (op \cap {"tracked", "propagate"})) \cup (op \cap {"tracked", "propagate", "record"})
        BY Zenon, <3>3, <3>4, <3>7
      <4> QED BY Zenon, <3>1, <3>3, <3>5, <3>7, <4>1
    <3>8. CASE n # s
      <4>1. n = p BY Zenon, <3>5, <3>8
      <4>2. flags'[n] = flags[n] \cup (op \cap {"tracked", "propagate"}) BY Zenon, <3>3, <3>4, <3>8, <4>1
      <4> QED BY Zenon, <3>1, <3>3, <3>5, <3>8, <4>2
    <3> QED BY Zenon, <3>6, <3>7, <3>8
  <2>5. ASSUME NEW u \in Use, NEW t \in FilterType, FilterFile(u, t, t \notin wanted[u]) PROVE flags' = flags
    BY Zenon, <2>5 DEF FilterFile
  <2>6. ASSUME NEW w \in Writes,
               \/ OwnerFile(w.list, w.key, w.op) \/ NsFile(w.key, w.op) \/ Ipv4File(w.list, w.key, w.op)
        PROVE  flags' = flags
    BY Zenon, <2>6 DEF OwnerFile, NsFile, Ipv4File, ListWritten
  <2>7. UNCHANGED vars => flags' = flags BY Zenon DEF vars
  <2>8. Marked \/ UNCHANGED vars
    <3>1. CASE \E n \in DOMAIN Target : ApplyTarget(n) BY Zenon, <2>3, <3>1
    <3>2. CASE \E l \in AddressList, a \in Address : ApplyAddress(l, a) BY Zenon, <2>4, <3>2
    <3>3. ASSUME ~(\E n \in DOMAIN Target : ApplyTarget(n)), ~(\E l \in AddressList, a \in Address : ApplyAddress(l, a))
          PROVE  flags' = flags
      BY Zenon, <1>1, <2>5, <2>6, <2>7, <3>3 DEF Next
    <3> QED BY Zenon, <2>2, <3>1, <3>2, <3>3
  <2> QED BY Zenon, <2>8
<1>2. TargetRule <=> [][Marked]_vars BY Zenon DEF TargetRule
<1> HIDE DEF Marked
<1> QED BY ControlInvariant, <1>1, <1>2, PTL DEF Spec
=============================================================================
