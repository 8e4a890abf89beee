------------------------------ MODULE TreeProofs ------------------------------
(***************************************************************************)
(* The invariants of the tree of proxies, for any number of proxies.  The  *)
(* first parts are about Tbon: what the operations on the table return,    *)
(* the tree, and the scrapers when faults come one at a time.  The last    *)
(* one is about ScrapeLocks.                                               *)
(***************************************************************************)
EXTENDS Tbon, ScrapeLocks, SumTheorems

-----------------------------------------------------------------------------
(***************************************************************************)
(* Vec::retain.                                                            *)
(***************************************************************************)

\* The equation of the filter, for the first n elements.
KeepNext(b, s, D, i) == IF s[i] \in D THEN b ELSE Append(b, s[i])

Filters(g, s, D, n) ==
  g = [i \in 0 .. n |-> IF i = 0 THEN <<>> ELSE KeepNext(g[i - 1], s, D, i)]

\* A function with this equation exists for every n.
LEMMA FilterExists ==
  ASSUME NEW s, NEW D
  PROVE  \A n \in Nat : \E g : Filters(g, s, D, n)
<1> DEFINE P(n) == \E g : Filters(g, s, D, n)
<1> SUFFICES ASSUME NEW T, T = {n \in Nat : ~P(n)}, T # {} PROVE FALSE
  OBVIOUS
<1>1. PICK m \in T : \A y \in T : m <= y
  BY LeastNat
<1>2. ~P(m) /\ m \in Nat
  OBVIOUS
<1>3. CASE m = 0
  <2> DEFINE g == [i \in 0 .. 0 |-> <<>>]
  <2>1. Filters(g, s, D, 0)
    BY DEF Filters
  <2> QED
    BY <1>2, <1>3, <2>1
<1>4. CASE m # 0
  <2>1. m - 1 \in Nat /\ m - 1 \notin T
    BY <1>1, <1>2, <1>4
  <2>2. PICK g : Filters(g, s, D, m - 1)
    BY <2>1
  <2> DEFINE h == [i \in 0 .. m |-> IF i = 0 THEN <<>> ELSE KeepNext(g[i - 1], s, D, i)]
  <2>3. ASSUME NEW i \in 0 .. m - 1 PROVE h[i] = g[i]
    <3>1. g[i] = IF i = 0 THEN <<>> ELSE KeepNext(g[i - 1], s, D, i)
      BY <2>2 DEF Filters
    <3>2. i \in 0 .. m
      BY <1>2
    <3> QED
      BY <3>1, <3>2
  <2>4. ASSUME NEW i \in 0 .. m, i # 0 PROVE h[i - 1] = g[i - 1]
    <3>1. i - 1 \in 0 .. m - 1
      BY <1>2, <2>4
    <3> QED
      BY <2>3, <3>1
  <2>5. h = [i \in 0 .. m |-> IF i = 0 THEN <<>> ELSE KeepNext(h[i - 1], s, D, i)]
    BY <2>4
  <2>6. Filters(h, s, D, m)
    BY <2>5 DEF Filters
  <2> QED
    BY <1>2, <2>6
<1> QED
  BY <1>3, <1>4

\* c has the elements not in D among the first n of s, in their order: p tells
\* where they are.
Selects(p, s, n, c, D) ==
  /\ p \in [1 .. Len(c) -> 1 .. n]
  /\ \A i, j \in 1 .. Len(c) : i < j => p[i] < p[j]
  /\ \A i \in 1 .. Len(c) : c[i] = s[p[i]] /\ s[p[i]] \notin D
  /\ \A j \in 1 .. n : s[j] \notin D => \E i \in 1 .. Len(c) : p[i] = j

\* One element more.
LEMMA SelectsNext ==
  ASSUME NEW S, NEW s \in Seq(S), NEW D, NEW n \in 1 .. Len(s),
         NEW b \in Seq(S), NEW p, Selects(p, s, n - 1, b, D), NEW c,
         c = IF s[n] \notin D THEN Append(b, s[n]) ELSE b
  PROVE  c \in Seq(S) /\ \E q : Selects(q, s, n, c, D)
<1>1. Len(b) \in Nat /\ s[n] \in S /\ n \in Nat /\ n - 1 \in Nat
  OBVIOUS
<1>2. CASE s[n] \in D
  <2>1. c = b
    BY <1>2
  <2>2. \A i \in 1 .. Len(b) : p[i] \in 1 .. n
    BY <1>1, SMTT(30) DEF Selects
  <2>3. Selects(p, s, n, c, D)
    BY <1>1, <1>2, <2>1, <2>2 DEF Selects
  <2> QED
    BY <2>1, <2>3
<1>3. CASE s[n] \notin D
  <2> DEFINE q == [i \in 1 .. Len(b) + 1 |-> IF i = Len(b) + 1 THEN n ELSE p[i]]
  <2>1. /\ c \in Seq(S) /\ Len(c) = Len(b) + 1 /\ c[Len(b) + 1] = s[n]
        /\ \A i \in 1 .. Len(b) : c[i] = b[i]
    BY <1>1, <1>3
  <2>2. /\ q[Len(b) + 1] = n
        /\ \A i \in 1 .. Len(b) : q[i] = p[i] /\ p[i] \in 1 .. n - 1
    BY <1>1 DEF Selects
  <2>3. q \in [1 .. Len(c) -> 1 .. n]
    <3>1. ASSUME NEW i \in 1 .. Len(b) + 1
          PROVE  (IF i = Len(b) + 1 THEN n ELSE p[i]) \in 1 .. n
      <4>1. i # Len(b) + 1 => i \in 1 .. Len(b)
        BY <1>1
      <4>2. i # Len(b) + 1 => p[i] \in 1 .. n - 1
        BY <2>2, <4>1
      <4> QED
        BY <1>1, <4>2
    <3> QED
      BY <1>1, <2>1, <3>1
  <2> HIDE DEF q
  <2>4. ASSUME NEW i \in 1 .. Len(c), NEW j \in 1 .. Len(c), i < j
        PROVE  q[i] < q[j]
    BY <1>1, <2>1, <2>2, <2>4 DEF Selects
  <2>5. ASSUME NEW i \in 1 .. Len(c)
        PROVE  c[i] = s[q[i]] /\ s[q[i]] \notin D
    BY <1>1, <1>3, <2>1, <2>2 DEF Selects
  <2>6. ASSUME NEW j \in 1 .. n, s[j] \notin D
        PROVE  \E i \in 1 .. Len(c) : q[i] = j
    <3>1. CASE j = n
      <4>1. Len(b) + 1 \in 1 .. Len(c)
        BY <1>1, <2>1
      <4> QED
        BY <2>2, <3>1, <4>1
    <3>2. CASE j # n
      <4>1. PICK i \in 1 .. Len(b) : p[i] = j
        BY <1>1, <2>6, <3>2 DEF Selects
      <4> QED
        BY <1>1, <2>1, <2>2, <4>1, SMTT(30)
    <3> QED
      BY <3>1, <3>2
  <2>7. Selects(q, s, n, c, D)
    BY <2>3, <2>4, <2>5, <2>6 DEF Selects
  <2> QED
    BY <2>1, <2>7
<1> QED
  BY <1>2, <1>3

\* The filter returns the elements that are not in D, all of them and in their order.
LEMMA RetainSelects ==
  ASSUME NEW S, NEW s \in Seq(S), NEW D
  PROVE  Retain(s, D) \in Seq(S) /\ \E p : Selects(p, s, Len(s), Retain(s, D), D)
<1>1. Len(s) \in Nat
  OBVIOUS
<1>2. \E g : Filters(g, s, D, Len(s))
  BY <1>1, FilterExists
<1>3. \E g : Filters(g, s, D, Len(s)) /\ Retain(s, D) = g[Len(s)]
  <2>1. Retain(s, D) = (CHOOSE g : Filters(g, s, D, Len(s)))[Len(s)]
    BY Zenon DEF Filters, KeepNext, Retain
  <2> QED
    BY <1>2, <2>1, Zenon
<1>4. PICK g : Filters(g, s, D, Len(s)) /\ Retain(s, D) = g[Len(s)]
  BY <1>3
<1> DEFINE P(n) == g[n] \in Seq(S) /\ \E p : Selects(p, s, n, g[n], D)
           T == {n \in 0 .. Len(s) : ~P(n)}
<1>5. T = {}
  <2> SUFFICES ASSUME T # {} PROVE FALSE
    OBVIOUS
  <2>1. T \in SUBSET Nat
    BY <1>1
  <2>2. PICK m \in T : \A y \in T : m <= y
    BY <2>1, LeastNat
  <2>3. m \in 0 .. Len(s) /\ m \in Nat /\ ~P(m)
    BY <1>1
  <2>4. CASE m = 0
    <3>1. g[0] = <<>>
      BY <1>1, <1>4 DEF Filters
    <3>2. Selects(<<>>, s, 0, <<>>, D)
      BY DEF Selects
    <3> QED
      BY <2>3, <2>4, <3>1, <3>2
  <2>5. CASE m # 0
    <3>1. m - 1 \in 0 .. Len(s) /\ m \in 1 .. Len(s) /\ m - 1 \notin T
      BY <1>1, <2>2, <2>3, <2>5, SMTT(30)
    <3>2. P(m - 1)
      BY <3>1
    <3>3. PICK p : Selects(p, s, m - 1, g[m - 1], D)
      BY <3>2
    <3>4. g[m] = IF s[m] \notin D THEN Append(g[m - 1], s[m]) ELSE g[m - 1]
      BY <1>1, <1>4, <2>3, <2>5 DEF Filters, KeepNext
    <3>5. P(m)
      BY <3>1, <3>2, <3>3, <3>4, SelectsNext
    <3> QED
      BY <2>3, <3>5
  <2> QED
    BY <2>4, <2>5
<1>6. P(Len(s))
  BY <1>1, <1>5
<1> QED
  BY <1>4, <1>6

Kept(s, D) == {i \in DOMAIN s : s[i] \notin D}

\* A selection has as many elements as there are that are not in D.
LEMMA SelectsCount ==
  ASSUME NEW S, NEW s \in Seq(S), NEW D, NEW c \in Seq(S), NEW p,
         Selects(p, s, Len(s), c, D)
  PROVE  IsFiniteSet(Kept(s, D)) /\ Cardinality(Kept(s, D)) = Len(c)
<1>1. Len(c) \in Nat /\ Len(s) \in Nat /\ DOMAIN s = 1 .. Len(s)
  OBVIOUS
<1>2. IsFiniteSet(1 .. Len(c)) /\ Cardinality(1 .. Len(c)) = Len(c)
  <2>1. 1 \in Int /\ Len(c) \in Int /\ (1 > Len(c) => Len(c) = 0)
    BY <1>1
  <2>2. /\ IsFiniteSet(1 .. Len(c))
        /\ Cardinality(1 .. Len(c)) = IF 1 > Len(c) THEN 0 ELSE Len(c) - 1 + 1
    BY <2>1, FS_Interval
  <2> QED
    BY <1>1, <2>1, <2>2
<1>3. p \in [1 .. Len(c) -> Kept(s, D)]
  BY <1>1 DEF Selects, Kept
<1>4. \A i, j \in 1 .. Len(c) : p[i] = p[j] => i = j
  BY <1>1 DEF Selects
<1>5. \A x \in Kept(s, D) : \E i \in 1 .. Len(c) : p[i] = x
  BY <1>1 DEF Selects, Kept
<1>6. p \in Bijection(1 .. Len(c), Kept(s, D))
  BY <1>3, <1>4, <1>5 DEF Bijection, Injection, Surjection, IsInjective
<1>7. ExistsBijection(1 .. Len(c), Kept(s, D))
  BY <1>6 DEF ExistsBijection
<1> QED
  BY <1>2, <1>7, FS_Bijection

-----------------------------------------------------------------------------
(***************************************************************************)
(* Lists of children.                                                      *)
(***************************************************************************)

\* x is an element of s; no element of s occurs twice.
Has(s, x) == \E i \in DOMAIN s : s[i] = x
Distinct(s) == \A a, b \in DOMAIN s : s[a] = s[b] => a = b

\* What is retained, and how much of it there is.
LEMMA RetainHas ==
  ASSUME NEW S, NEW s \in Seq(S), NEW D
  PROVE  /\ Retain(s, D) \in Seq(S)
         /\ \A x : Has(Retain(s, D), x) <=> Has(s, x) /\ x \notin D
         /\ Distinct(s) => Distinct(Retain(s, D))
         /\ IsFiniteSet(Kept(s, D)) /\ Len(Retain(s, D)) = Cardinality(Kept(s, D))
<1> DEFINE c == Retain(s, D)
<1>1. c \in Seq(S) /\ \E p : Selects(p, s, Len(s), c, D)
  BY RetainSelects
<1>2. PICK p : Selects(p, s, Len(s), c, D)
  BY <1>1
<1> HIDE DEF c
<1>3. /\ DOMAIN c = 1 .. Len(c) /\ Len(c) \in Nat
      /\ DOMAIN s = 1 .. Len(s) /\ Len(s) \in Nat
  BY <1>1
<1>4. ASSUME NEW x PROVE Has(c, x) <=> Has(s, x) /\ x \notin D
  BY <1>2, <1>3, SMTT(30) DEF Selects, Has
<1>5. ASSUME Distinct(s) PROVE Distinct(c)
  <2> SUFFICES ASSUME NEW a \in 1 .. Len(c), NEW b \in 1 .. Len(c), c[a] = c[b]
               PROVE  a = b
    BY <1>3 DEF Distinct
  <2>1. p[a] \in DOMAIN s /\ p[b] \in DOMAIN s /\ s[p[a]] = s[p[b]]
    BY <1>2, <1>3 DEF Selects
  <2>2. p[a] = p[b]
    BY <1>5, <2>1 DEF Distinct
  <2>3. p[a] \in Int /\ p[b] \in Int
    BY <1>3, <2>1
  <2> QED
    BY <1>2, <1>3, <2>2, <2>3 DEF Selects
<1>6. IsFiniteSet(Kept(s, D)) /\ Cardinality(Kept(s, D)) = Len(c)
  BY <1>1, <1>2, SelectsCount
<1> QED
  BY <1>1, <1>4, <1>5, <1>6 DEF c

\* One child less when there was one, and the same list when there was none.
LEMMA RetainOne ==
  ASSUME NEW S, NEW s \in Seq(S), Distinct(s), NEW x
  PROVE  /\ Has(s, x) => Len(Retain(s, {x})) = Len(s) - 1
         /\ ~Has(s, x) => Len(Retain(s, {x})) = Len(s)
<1> DEFINE I == 1 .. Len(s)
<1>1. Len(s) \in Nat /\ DOMAIN s = I
  OBVIOUS
<1>2. IsFiniteSet(I) /\ Cardinality(I) = Len(s)
  <2>1. 1 \in Int /\ Len(s) \in Int /\ (1 > Len(s) => Len(s) = 0)
    BY <1>1
  <2>2. IsFiniteSet(I) /\ Cardinality(I) = IF 1 > Len(s) THEN 0 ELSE Len(s) - 1 + 1
    BY <2>1, FS_Interval
  <2> QED
    BY <1>1, <2>1, <2>2
<1> HIDE DEF I
<1>3. CASE Has(s, x)
  <2>1. PICK i \in I : s[i] = x
    BY <1>1, <1>3 DEF Has
  <2>2. Kept(s, {x}) = I \ {i}
    BY <1>1, <2>1 DEF Kept, Distinct
  <2>3. Cardinality(Kept(s, {x})) = Len(s) - 1
    BY <1>2, <2>1, <2>2, FS_RemoveElement
  <2> QED
    BY <1>3, <2>3, RetainHas
<1>4. CASE ~Has(s, x)
  <2>1. Kept(s, {x}) = I
    BY <1>1, <1>4 DEF Kept, Has
  <2> QED
    BY <1>2, <1>4, <2>1, RetainHas
<1> QED
  BY <1>3, <1>4

\* A child more.
LEMMA AppendHas ==
  ASSUME NEW S, NEW s \in Seq(S), NEW y \in S
  PROVE  /\ Append(s, y) \in Seq(S) /\ Len(Append(s, y)) = Len(s) + 1
         /\ \A x : Has(Append(s, y), x) <=> Has(s, x) \/ x = y
         /\ Distinct(s) /\ ~Has(s, y) => Distinct(Append(s, y))
<1> DEFINE c == Append(s, y)
<1>1. /\ c \in Seq(S) /\ Len(c) = Len(s) + 1 /\ Len(s) \in Nat
      /\ DOMAIN c = 1 .. Len(s) + 1 /\ DOMAIN s = 1 .. Len(s)
      /\ c[Len(s) + 1] = y /\ \A i \in 1 .. Len(s) : c[i] = s[i]
  OBVIOUS
<1> HIDE DEF c
<1>2. \A i \in DOMAIN c : i \in DOMAIN s \/ i = Len(s) + 1
  BY <1>1
<1>3. Len(s) + 1 \in DOMAIN c /\ \A i \in DOMAIN s : i \in DOMAIN c
  BY <1>1
<1>4. ASSUME NEW x PROVE Has(c, x) <=> Has(s, x) \/ x = y
  BY <1>1, <1>2, <1>3 DEF Has
<1>5. ASSUME Distinct(s), ~Has(s, y) PROVE Distinct(c)
  BY <1>1, <1>2, <1>5 DEF Has, Distinct
<1> QED
  BY <1>1, <1>4, <1>5 DEF c

\* A list of one element at most.
LEMMA ShortList ==
  ASSUME NEW S, NEW s \in Seq(S), Len(s) <= 1
  PROVE  s = <<>> \/ (Len(s) = 1 /\ DOMAIN s = {1})
<1>1. Len(s) \in Nat /\ DOMAIN s = 1 .. Len(s)
  OBVIOUS
<1>2. CASE Len(s) = 0
  BY <1>2
<1>3. CASE Len(s) = 1
  BY <1>1, <1>3
<1> QED
  BY <1>1, <1>2, <1>3

-----------------------------------------------------------------------------
(***************************************************************************)
(* Positions in the table.                                                 *)
(***************************************************************************)

\* The parts of an entry have their types.
LEMMA EntryTyped ==
  ASSUME NEW k \in Seq(Entries), NEW i \in DOMAIN k
  PROVE  /\ k[i] \in Entries /\ k[i].url \in Nodes /\ k[i].refcount \in Int
         /\ k[i].child \in Seq(Proxies) /\ k[i].depth \in Nat
<1>1. k[i] \in Entries
  OBVIOUS
<1> QED
  BY <1>1 DEF Entries

\* The least element that Position chooses exists.
LEMMA ChooseLeast ==
  ASSUME NEW I \in SUBSET Nat, I # {}
  PROVE  (CHOOSE i \in I : \A j \in I : i <= j) \in I
BY LeastNat

\* The first entry of a url.
LEMMA PosOfIs ==
  ASSUME NEW k \in Seq(Entries), NEW url
  PROVE  \/ PosOf(k, url) = 0 /\ \A i \in DOMAIN k : k[i].url # url
         \/ PosOf(k, url) \in DOMAIN k /\ k[PosOf(k, url)].url = url
<1> DEFINE I == {i \in DOMAIN k : k[i].url = url}
<1>1. I \in SUBSET Nat /\ DOMAIN k = 1 .. Len(k)
  OBVIOUS
<1>2. PosOf(k, url) = IF I = {} THEN 0 ELSE CHOOSE i \in I : \A j \in I : i <= j
  BY DEF PosOf, Position
<1>3. I # {} => PosOf(k, url) \in I
  BY <1>1, <1>2, ChooseLeast
<1> QED
  BY <1>2, <1>3

\* The first entry with a child.
ParentOf(k, c) == Position(k, LAMBDA e : Lists(e, c))

\* The parent is an entry that lists the child, or there is none.
LEMMA ParentOfIs ==
  ASSUME NEW k \in Seq(Entries), NEW c
  PROVE  \/ ParentOf(k, c) = 0 /\ \A i \in DOMAIN k : ~Lists(k[i], c)
         \/ ParentOf(k, c) \in DOMAIN k /\ Lists(k[ParentOf(k, c)], c)
<1> DEFINE I == {i \in DOMAIN k : Lists(k[i], c)}
<1>1. I \in SUBSET Nat /\ DOMAIN k = 1 .. Len(k)
  OBVIOUS
<1>2. ParentOf(k, c) = IF I = {} THEN 0 ELSE CHOOSE i \in I : \A j \in I : i <= j
  BY DEF ParentOf, Position
<1>3. I # {} => ParentOf(k, c) \in I
  BY <1>1, <1>2, ChooseLeast
<1> QED
  BY <1>2, <1>3

\* The only fact about i32::MAX that is needed besides its being out of reach.
LEMMA FullIsNat == Full \in Nat
BY SMT DEF Full

\* The entry that handle_pivot takes has the least depth of those with room.
LEMMA TargetNodeIs ==
  ASSUME NEW k \in Seq(Entries), k # <<>>
  PROVE  /\ TargetNode(k) \in DOMAIN k
         /\ \A j \in DOMAIN k : DepthIfNotFull(k[TargetNode(k)]) <= DepthIfNotFull(k[j])
<1> DEFINE d(i) == DepthIfNotFull(k[i])
           D == {d(i) : i \in DOMAIN k}
           I == {i \in DOMAIN k : \A j \in DOMAIN k : d(i) <= d(j)}
<1>1. DOMAIN k = 1 .. Len(k) /\ 1 \in DOMAIN k
  OBVIOUS
<1>2. \A i \in DOMAIN k : d(i) \in Nat
  BY EntryTyped, FullIsNat DEF DepthIfNotFull
<1>3. D \in SUBSET Nat /\ D # {}
  BY <1>1, <1>2
<1>4. PICK x \in D : \A y \in D : x <= y
  BY <1>3, LeastNat
<1>5. I \in SUBSET Nat /\ I # {}
  BY <1>1, <1>4
<1>6. TargetNode(k) = IF I = {} THEN 0 ELSE CHOOSE i \in I : \A j \in I : i <= j
  BY DEF TargetNode, Position
<1>7. TargetNode(k) \in I
  BY <1>5, <1>6, ChooseLeast
<1> QED
  BY <1>7

\* The last of the greatest.
Tops(d, i, n) == \A j \in 1 .. n : d[j] < d[i] \/ (d[j] = d[i] /\ j <= i)

\* max_by_key finds an entry in every table.
LEMMA GreatestExists ==
  ASSUME NEW n \in Nat \ {0}, NEW d \in [1 .. n -> Nat]
  PROVE  \E i \in 1 .. n : Tops(d, i, n)
<1> DEFINE T == {m \in 1 .. n : ~ \E i \in 1 .. m : Tops(d, i, m)}
<1>1. T = {}
  <2> SUFFICES ASSUME T # {} PROVE FALSE
    OBVIOUS
  <2>1. T \in SUBSET Nat
    OBVIOUS
  <2>2. PICK m \in T : \A y \in T : m <= y
    BY <2>1, LeastNat
  <2>3. m \in 1 .. n /\ ~ \E i \in 1 .. m : Tops(d, i, m)
    BY <2>2
  <2>4. CASE m = 1
    <3>1. 1 \in 1 .. 1 /\ \A j \in 1 .. 1 : j = 1
      OBVIOUS
    <3>2. Tops(d, 1, 1)
      BY <3>1 DEF Tops
    <3> QED
      BY <2>3, <2>4, <3>1, <3>2
  <2>5. CASE m # 1
    <3>1. m - 1 \in 1 .. n /\ m \in Nat
      BY <2>3, <2>5
    <3>2. m - 1 \notin T
      BY <2>2, <3>1
    <3>3. PICK i \in 1 .. m - 1 : Tops(d, i, m - 1)
      BY <3>1, <3>2
    <3>4. i \in 1 .. m /\ m \in 1 .. m /\ i \in 1 .. n /\ \A j \in 1 .. m : j \in 1 .. m - 1 \/ j = m
      BY <2>3, <3>1
    <3>5. d[i] \in Nat /\ d[m] \in Nat /\ \A j \in 1 .. m : j \in Nat /\ d[j] \in Nat
      BY <2>3, <3>4
    <3>6. CASE d[m] < d[i]
      <4>1. Tops(d, i, m)
        BY <3>3, <3>4, <3>6 DEF Tops
      <4> QED
        BY <2>3, <3>4, <4>1
    <3>7. CASE ~(d[m] < d[i])
      <4>1. ASSUME NEW j \in 1 .. m PROVE d[j] < d[m] \/ (d[j] = d[m] /\ j <= m)
        <5>1. CASE j = m
          BY <3>5, <5>1
        <5>2. CASE j # m
          <6>0. j \in 1 .. m - 1
            BY <3>4, <5>2
          <6>a. d[j] < d[i] \/ d[j] = d[i]
            BY <3>3, <6>0 DEF Tops
          <6>b. d[i] \in Nat /\ d[j] \in Nat
            BY <3>5
          <6>1. d[j] <= d[i]
            BY <6>a, <6>b
          <6>2. d[j] <= d[m] /\ j <= m
            BY <3>1, <3>5, <3>7, <6>1
          <6> QED
            BY <3>5, <6>2
        <5> QED
          BY <5>1, <5>2
      <4>2. Tops(d, m, m)
        BY <4>1 DEF Tops
      <4> QED
        BY <2>3, <3>4, <4>2
    <3> QED
      BY <3>6, <3>7
  <2> QED
    BY <2>4, <2>5
<1>2. n \in 1 .. n
  OBVIOUS
<1> QED
  BY <1>1, <1>2

\* The entry that repair_tbon takes has the greatest depth.
LEMMA DeepestIs ==
  ASSUME NEW k \in Seq(Entries), k # <<>>
  PROVE  /\ Deepest(k) \in DOMAIN k
         /\ \A j \in DOMAIN k : k[j].depth <= k[Deepest(k)].depth
<1> DEFINE n == Len(k)
           d == [i \in 1 .. n |-> k[i].depth]
           Best(i) == \A j \in DOMAIN k : k[j].depth < k[i].depth \/ (k[j].depth = k[i].depth /\ j <= i)
<1>1. DOMAIN k = 1 .. n /\ n \in Nat \ {0}
  OBVIOUS
<1>2. \A i \in DOMAIN k : k[i].depth \in Nat
  BY EntryTyped
<1>3. d \in [1 .. n -> Nat]
  BY <1>1, <1>2
<1>4. PICK i \in 1 .. n : Tops(d, i, n)
  BY <1>1, <1>3, GreatestExists
<1>5. Best(i) /\ i \in DOMAIN k
  BY <1>1, <1>4 DEF Tops
<1>6. Deepest(k) \in DOMAIN k /\ Best(Deepest(k))
  BY <1>5 DEF Deepest
<1> HIDE DEF d
<1>7. ASSUME NEW j \in DOMAIN k PROVE k[j].depth <= k[Deepest(k)].depth
  BY <1>2, <1>6
<1> QED
  BY <1>6, <1>7

-----------------------------------------------------------------------------
(***************************************************************************)
(* Entries and tables.                                                     *)
(***************************************************************************)

\* Lists is membership in the list of children.
LEMMA ListsHas ==
  ASSUME NEW e, NEW x
  PROVE  Lists(e, x) <=> Has(e.child, x)
BY DEF Lists, Has

\* ClientPivot::new: an entry without children.
LEMMA NewPivotIs ==
  ASSUME NEW u \in Nodes, NEW d \in Nat
  PROVE  /\ NewPivot(u, d) \in Entries
         /\ NewPivot(u, d).url = u /\ NewPivot(u, d).depth = d
         /\ NewPivot(u, d).refcount = 0 /\ NewPivot(u, d).child = <<>>
         /\ \A x : ~Lists(NewPivot(u, d), x)
BY DEF NewPivot, Entries, Lists

\* map_to: one child more, at the end of the list, and counted.
LEMMA MapToIs ==
  ASSUME NEW e \in Entries, NEW c \in Proxies
  PROVE  /\ MapTo(e, c) \in Entries
         /\ MapTo(e, c).url = e.url /\ MapTo(e, c).depth = e.depth
         /\ MapTo(e, c).refcount = e.refcount + 1 /\ MapTo(e, c).child = Append(e.child, c)
         /\ \A x : Lists(MapTo(e, c), x) <=> Lists(e, x) \/ x = c
<1>1. e.child \in Seq(Proxies) /\ e.url \in Nodes /\ e.refcount \in Int /\ e.depth \in Nat
  BY DEF Entries
<1> DEFINE s == Append(e.child, c)
           r == e.refcount + 1
<1>2. s \in Seq(Proxies) /\ r \in Int
  BY <1>1
<1>a. MapTo(e, c) = [e EXCEPT !.refcount = r, !.child = s]
  BY DEF MapTo
<1> HIDE DEF s, r
<1>b. MapTo(e, c) = [url |-> e.url, refcount |-> r, child |-> s, depth |-> e.depth]
  BY <1>a DEF Entries
<1>3. /\ MapTo(e, c) \in Entries
      /\ MapTo(e, c).url = e.url /\ MapTo(e, c).depth = e.depth
      /\ MapTo(e, c).refcount = r /\ MapTo(e, c).child = s
  BY <1>1, <1>2, <1>b DEF Entries
<1>4. \A x : Has(Append(e.child, c), x) <=> Has(e.child, x) \/ x = c
  BY <1>1, AppendHas
<1> QED
  BY <1>3, <1>4, ListsHas DEF s, r

\* remove_from: the child leaves the list, and the count goes down in any case.
LEMMA RemoveFromIs ==
  ASSUME NEW e \in Entries, NEW c
  PROVE  /\ RemoveFrom(e, c) \in Entries
         /\ RemoveFrom(e, c).url = e.url /\ RemoveFrom(e, c).depth = e.depth
         /\ RemoveFrom(e, c).refcount = e.refcount - 1
         /\ RemoveFrom(e, c).child = Retain(e.child, {c})
         /\ \A x : Lists(RemoveFrom(e, c), x) <=> Lists(e, x) /\ x # c
<1>1. e.child \in Seq(Proxies) /\ e.url \in Nodes /\ e.refcount \in Int /\ e.depth \in Nat
  BY DEF Entries
<1> DEFINE s == Retain(e.child, {c})
           r == e.refcount - 1
<1>2. s \in Seq(Proxies) /\ r \in Int
  BY <1>1, RetainHas
<1>a. RemoveFrom(e, c) = [e EXCEPT !.refcount = r, !.child = s]
  BY DEF RemoveFrom
<1> HIDE DEF s, r
<1>b. RemoveFrom(e, c) = [url |-> e.url, refcount |-> r, child |-> s, depth |-> e.depth]
  BY <1>a DEF Entries
<1>3. /\ RemoveFrom(e, c) \in Entries
      /\ RemoveFrom(e, c).url = e.url /\ RemoveFrom(e, c).depth = e.depth
      /\ RemoveFrom(e, c).refcount = r /\ RemoveFrom(e, c).child = s
  BY <1>1, <1>2, <1>b DEF Entries
<1>4. \A x : Has(Retain(e.child, {c}), x) <=> Has(e.child, x) /\ x \notin {c}
  BY <1>1, RetainHas
<1> QED
  BY <1>3, <1>4, ListsHas DEF s, r

\* What is left of a table, and where it was.
LEMMA WithoutIs ==
  ASSUME NEW k \in Seq(Entries), NEW u
  PROVE  /\ Without(k, u) \in Seq(Entries)
         /\ \E p \in [DOMAIN Without(k, u) -> {i \in DOMAIN k : k[i].url # u}] :
              /\ \A i, j \in DOMAIN Without(k, u) : i < j => p[i] < p[j]
              /\ \A i \in DOMAIN Without(k, u) : Without(k, u)[i] = k[p[i]]
              /\ \A j \in DOMAIN k : k[j].url # u => \E i \in DOMAIN Without(k, u) : p[i] = j
<1> DEFINE D == EntriesOf(u)
           w == Retain(k, D)
<1>0. Without(k, u) = w
  BY DEF Without
<1>1. w \in Seq(Entries) /\ \E p : Selects(p, k, Len(k), w, D)
  BY RetainSelects
<1>2. PICK p : Selects(p, k, Len(k), w, D)
  BY <1>1
<1> HIDE DEF w
<1>3. DOMAIN w = 1 .. Len(w) /\ DOMAIN k = 1 .. Len(k)
  BY <1>1
<1>4. \A i \in DOMAIN k : k[i] \in D <=> k[i].url = u
  <2> SUFFICES ASSUME NEW i \in DOMAIN k PROVE k[i] \in D <=> k[i].url = u
    OBVIOUS
  <2>1. k[i] \in Entries
    OBVIOUS
  <2>2. \A e \in Entries : e \in D <=> e.url = u
    BY DEF Entries, EntriesOf
  <2> QED
    BY <2>1, <2>2
<1> HIDE DEF D
<1>5. p \in [DOMAIN w -> {i \in DOMAIN k : k[i].url # u}]
  <2>1. p \in [1 .. Len(w) -> 1 .. Len(k)]
    BY <1>2 DEF Selects
  <2>2. \A i \in 1 .. Len(w) : k[p[i]] \notin D
    BY <1>2 DEF Selects
  <2> QED
    BY <1>3, <1>4, <2>1, <2>2
<1>6. /\ \A i, j \in DOMAIN w : i < j => p[i] < p[j]
      /\ \A i \in DOMAIN w : w[i] = k[p[i]]
      /\ \A j \in DOMAIN k : k[j].url # u => \E i \in DOMAIN w : p[i] = j
  BY <1>2, <1>3, <1>4 DEF Selects
<1> QED
  BY <1>0, <1>1, <1>5, <1>6

\* A table: the entries of the root and of proxies.
Table(k) == k \in Seq(Entries) /\ Rooted(k)

\* What a table is made of: the root in front, proxies behind it.
LEMMA TableFacts ==
  ASSUME NEW k, Table(k)
  PROVE  /\ k \in Seq(Entries) /\ k # <<>> /\ Len(k) \in Nat \ {0}
         /\ DOMAIN k = 1 .. Len(k) /\ 1 \in DOMAIN k
         /\ k[1].url = Root /\ k[1].depth = 0
         /\ \A i \in DOMAIN k : i # 1 => k[i].url \in Proxies /\ k[i].url # Root /\ k[i].depth >= 1
BY NodesAssumption, CountAssumption DEF Table, Rooted

\* The root stays in front.
LEMMA WithoutTable ==
  ASSUME NEW k, Table(k), NEW u \in Proxies
  PROVE  Table(Without(k, u))
<1> DEFINE w == Without(k, u)
<1>1. w \in Seq(Entries)
  BY WithoutIs DEF Table
<1>2. PICK p \in [DOMAIN w -> {i \in DOMAIN k : k[i].url # u}] :
        /\ \A i, j \in DOMAIN w : i < j => p[i] < p[j]
        /\ \A i \in DOMAIN w : w[i] = k[p[i]]
        /\ \A j \in DOMAIN k : k[j].url # u => \E i \in DOMAIN w : p[i] = j
  BY WithoutIs, SMTT(30) DEF Table
<1> HIDE DEF w
<1>3. DOMAIN w = 1 .. Len(w) /\ Len(w) \in Nat
  BY <1>1
<1>4. 1 \in DOMAIN k /\ k[1].url # u
  BY TableFacts, NodesAssumption, CountAssumption
<1>5. PICK i \in DOMAIN w : p[i] = 1
  BY <1>2, <1>4
<1>6. 1 \in DOMAIN w /\ i >= 1 /\ i \in Nat
  BY <1>3, <1>5
<1>7. p[1] \in DOMAIN k /\ p[1] >= 1 /\ p[1] \in Nat
  BY <1>2, <1>6, TableFacts
<1>8. p[1] = 1
  BY <1>2, <1>5, <1>6, <1>7
<1>9. ASSUME NEW j \in DOMAIN w, j # 1 PROVE p[j] \in DOMAIN k /\ p[j] # 1
  <2>1. j > 1
    BY <1>3, <1>9
  <2>2. p[1] < p[j]
    BY <1>2, <1>6, <2>1
  <2> QED
    BY <1>2, <1>8, <2>2
<1>10. w # <<>> /\ w[1].url = Root /\ w[1].depth = 0
  BY <1>2, <1>3, <1>6, <1>8, TableFacts
<1>11. \A j \in DOMAIN w \ {1} : w[j].url \in Proxies /\ w[j].depth >= 1
  BY <1>2, <1>9, TableFacts
<1> QED
  BY <1>1, <1>10, <1>11 DEF Table, Rooted, w

-----------------------------------------------------------------------------
(***************************************************************************)
(* Trees.  The parts of IsTree, for the entries at some positions.         *)
(***************************************************************************)
Unique(k, I) == \A i, j \in I : k[i].url = k[j].url => i = j

Counted(k, I) ==
  \A i \in I : /\ k[i].refcount = Len(k[i].child) /\ k[i].refcount <= Branches
               /\ Distinct(k[i].child)

Listed(k, I) ==
  \A i \in I, x \in Proxies :
    Lists(k[i], x) => \E j \in I \ {1} : k[j].url = x /\ k[j].depth = k[i].depth + 1

OneParent(k, I) == \A i, l \in I, x \in Proxies : Lists(k[i], x) /\ Lists(k[l], x) => i = l

HasParent(k, I) == \A j \in I \ {1} : \E i \in I : Lists(k[i], k[j].url)

TreeOn(k, I) ==
  Unique(k, I) /\ Counted(k, I) /\ Listed(k, I) /\ OneParent(k, I) /\ HasParent(k, I)

\* The children of an entry are the proxies it lists.
LEMMA ChildrenAre ==
  ASSUME NEW k \in Seq(Entries), NEW i \in DOMAIN k
  PROVE  Children(k[i]) = {x \in Proxies : Lists(k[i], x)} /\ \A x : Lists(k[i], x) => x \in Proxies
<1>1. k[i].child \in Seq(Proxies)
  BY EntryTyped
<1>2. \A a \in DOMAIN k[i].child : k[i].child[a] \in Proxies
  BY <1>1
<1> QED
  BY <1>2 DEF Children, Lists

\* The tree in five parts, which the operations keep one by one.
LEMMA TreeIs ==
  ASSUME NEW k, Table(k)
  PROVE  IsTree(k) <=> TreeOn(k, DOMAIN k)
<1> USE TableFacts
<1>1. ASSUME NEW i \in DOMAIN k
      PROVE  (\A a, b \in DOMAIN k[i].child : k[i].child[a] = k[i].child[b] => a = b)
               <=> Distinct(k[i].child)
  BY DEF Distinct
<1>2. \A i \in DOMAIN k : k[i].depth \in Nat
  BY EntryTyped
<1>3. ASSUME IsTree(k) PROVE TreeOn(k, DOMAIN k)
  <2>1. Unique(k, DOMAIN k) /\ Counted(k, DOMAIN k)
    BY <1>1, <1>3 DEF IsTree, Unique, Counted
  <2>2. ASSUME NEW i \in DOMAIN k, NEW x \in Proxies, Lists(k[i], x)
        PROVE  \E j \in DOMAIN k \ {1} :
                 /\ k[j].url = x /\ k[j].depth = k[i].depth + 1
                 /\ \A l \in DOMAIN k : Lists(k[l], x) => l = i
    <3>1. x \in Urls(k)
      BY <1>3, <2>2, ChildrenAre DEF IsTree
    <3>2. PICK j \in DOMAIN k : k[j].url = x
      BY <3>1 DEF Urls
    <3>3. j # 1
      BY <3>2, NodesAssumption, CountAssumption
    <3>4. PICK h \in DOMAIN k :
            /\ Lists(k[h], k[j].url) /\ k[j].depth = k[h].depth + 1
            /\ \A l \in DOMAIN k : Lists(k[l], k[j].url) => l = h
      BY <1>3, <3>3 DEF IsTree
    <3>5. h = i
      BY <2>2, <3>2, <3>4
    <3> QED
      BY <3>2, <3>3, <3>4, <3>5
  <2>3. Listed(k, DOMAIN k) /\ OneParent(k, DOMAIN k)
    BY <2>2 DEF Listed, OneParent
  <2>4. HasParent(k, DOMAIN k)
    BY <1>3 DEF IsTree, HasParent
  <2> QED
    BY <2>1, <2>3, <2>4 DEF TreeOn
<1>4. ASSUME TreeOn(k, DOMAIN k) PROVE IsTree(k)
  <2>1. ASSUME NEW i \in DOMAIN k PROVE Children(k[i]) \subseteq Urls(k) \ {Root}
    <3> SUFFICES ASSUME NEW x \in Proxies, Lists(k[i], x) PROVE x \in Urls(k) \ {Root}
      BY ChildrenAre
    <3> QED
      BY <1>4, NodesAssumption, CountAssumption DEF TreeOn, Listed, Urls
  <2>2. ASSUME NEW j \in DOMAIN k \ {1}
        PROVE  \E i \in DOMAIN k :
                 /\ Lists(k[i], k[j].url) /\ k[j].depth = k[i].depth + 1
                 /\ \A l \in DOMAIN k : Lists(k[l], k[j].url) => l = i
    <3>1. k[j].url \in Proxies
      OBVIOUS
    <3>2. PICK i \in DOMAIN k : Lists(k[i], k[j].url)
      BY <1>4 DEF TreeOn, HasParent
    <3>3. PICK h \in DOMAIN k \ {1} : k[h].url = k[j].url /\ k[h].depth = k[i].depth + 1
      BY <1>4, <3>1, <3>2 DEF TreeOn, Listed
    <3>4. h = j
      BY <1>4, <3>3 DEF TreeOn, Unique
    <3>5. \A l \in DOMAIN k : Lists(k[l], k[j].url) => l = i
      BY <1>4, <3>1, <3>2 DEF TreeOn, OneParent
    <3> QED
      BY <3>2, <3>3, <3>4, <3>5
  <2>3. \A i \in DOMAIN k : /\ k[i].refcount = Len(k[i].child) /\ k[i].refcount <= Branches
                            /\ Distinct(k[i].child)
    BY <1>4 DEF TreeOn, Counted
  <2>4. \A i, j \in DOMAIN k : k[i].url = k[j].url => i = j
    BY <1>4 DEF TreeOn, Unique
  <2>5. k[1].url = Root /\ k[1].depth = 0
    OBVIOUS
  <2> QED
    BY <1>1, <2>1, <2>2, <2>3, <2>4, <2>5, Zenon DEF IsTree
<1> QED
  BY <1>3, <1>4

\* A table from which an entry is taken is a tree when the others form one.
LEMMA WithoutTree ==
  ASSUME NEW k, Table(k), NEW u \in Proxies,
         TreeOn(k, {i \in DOMAIN k : k[i].url # u})
  PROVE  IsTree(Without(k, u))
<1> DEFINE w == Without(k, u)
           I == {i \in DOMAIN k : k[i].url # u}
<1>0. Table(w)
  BY WithoutTable
<1>1. PICK p \in [DOMAIN w -> I] :
        /\ \A i, j \in DOMAIN w : i < j => p[i] < p[j]
        /\ \A i \in DOMAIN w : w[i] = k[p[i]]
        /\ \A j \in DOMAIN k : k[j].url # u => \E i \in DOMAIN w : p[i] = j
  BY WithoutIs, SMTT(30) DEF Table
<1>2. TreeOn(k, I) /\ \A j \in I : \E i \in DOMAIN w : p[i] = j
  BY <1>1
<1>3. \A i \in DOMAIN w : p[i] \in I /\ i \in Nat /\ p[i] \in Nat
  BY <1>0, <1>1, TableFacts
<1>4. \A i, j \in DOMAIN w : p[i] = p[j] => i = j
  BY <1>1, <1>3
<1>5. ASSUME NEW i \in DOMAIN w PROVE i = 1 <=> p[i] = 1
  <2>1. w[i] = k[p[i]] /\ p[i] \in DOMAIN k
    BY <1>1, <1>3
  <2>2. i = 1 <=> w[i].url = Root
    BY <1>0, TableFacts
  <2>3. p[i] = 1 <=> k[p[i]].url = Root
    BY <2>1, TableFacts
  <2> QED
    BY <2>1, <2>2, <2>3
<1> HIDE DEF w, I
<1>6. Unique(w, DOMAIN w)
  BY <1>1, <1>2, <1>3, <1>4 DEF TreeOn, Unique
<1>7. Counted(w, DOMAIN w)
  BY <1>1, <1>2, <1>3 DEF TreeOn, Counted
<1>8. Listed(w, DOMAIN w)
  <2> SUFFICES ASSUME NEW i \in DOMAIN w, NEW x \in Proxies, Lists(w[i], x)
               PROVE  \E j \in DOMAIN w \ {1} : w[j].url = x /\ w[j].depth = w[i].depth + 1
    BY DEF Listed
  <2>1. PICK h \in I \ {1} : k[h].url = x /\ k[h].depth = k[p[i]].depth + 1
    BY <1>1, <1>2, <1>3 DEF TreeOn, Listed
  <2>2. PICK j \in DOMAIN w : p[j] = h
    BY <1>2
  <2> QED
    BY <1>1, <1>5, <2>1, <2>2
<1>9. OneParent(w, DOMAIN w)
  BY <1>1, <1>2, <1>3, <1>4 DEF TreeOn, OneParent
<1>10. HasParent(w, DOMAIN w)
  <2> SUFFICES ASSUME NEW j \in DOMAIN w \ {1}
               PROVE  \E i \in DOMAIN w : Lists(w[i], w[j].url)
    BY DEF HasParent
  <2>1. PICK h \in I : Lists(k[h], k[p[j]].url)
    BY <1>2, <1>3, <1>5 DEF TreeOn, HasParent
  <2>2. PICK i \in DOMAIN w : p[i] = h
    BY <1>2
  <2> QED
    BY <1>1, <2>1, <2>2
<1> QED
  BY <1>0, <1>6, <1>7, <1>8, <1>9, <1>10, TreeIs DEF TreeOn, w

(***************************************************************************)
(* Depths.  Below the depth of an entry every depth occurs, so that there  *)
(* are fewer levels than proxies: get_depth_if_not_full never compares a   *)
(* real depth with i32::MAX.                                               *)
(***************************************************************************)
LEMMA DepthBounded ==
  ASSUME NEW k, Table(k), TreeOn(k, DOMAIN k), NEW h \in DOMAIN k
  PROVE  k[h].depth < Full
<1> USE TableFacts
<1> DEFINE d == k[h].depth
           Rank(m) == {i \in DOMAIN k : k[i].depth = m}
           T == {m \in 0 .. d : Rank(d - m) = {}}
<1>0. d \in Nat /\ \A i \in DOMAIN k : k[i].depth \in Nat
  BY EntryTyped
<1>1. T = {}
  <2> SUFFICES ASSUME T # {} PROVE FALSE
    OBVIOUS
  <2>1. T \in SUBSET Nat
    BY <1>0
  <2>2. PICK m \in T : \A y \in T : m <= y
    BY <2>1, LeastNat
  <2>3. m \in 0 .. d /\ Rank(d - m) = {}
    BY <2>2
  <2>4. m # 0
    <3>1. h \in Rank(d - 0)
      BY <1>0
    <3> QED
      BY <2>3, <3>1
  <2>5. m - 1 \in 0 .. d /\ m - 1 \notin T
    BY <1>0, <2>2, <2>3, <2>4
  <2>6. Rank(d - (m - 1)) # {}
    BY <2>5
  <2>7. PICK i \in DOMAIN k : k[i].depth = d - (m - 1)
    BY <2>6
  <2>8. i # 1 /\ k[i].url \in Proxies
    BY <1>0, <2>3, <2>7
  <2>9. PICK l \in DOMAIN k : Lists(k[l], k[i].url)
    BY <2>8 DEF TreeOn, HasParent
  <2>10. PICK j \in DOMAIN k : k[j].url = k[i].url /\ k[j].depth = k[l].depth + 1
    BY <2>8, <2>9 DEF TreeOn, Listed
  <2>11. j = i
    BY <2>10 DEF TreeOn, Unique
  <2>12. k[l].depth = d - m
    <3>1. k[l].depth \in Nat /\ m \in Int
      BY <1>0, <2>3
    <3> QED
      BY <1>0, <2>7, <2>10, <2>11, <3>1, SMTT(30)
  <2>13. l \in Rank(d - m)
    BY <2>12
  <2> QED
    BY <2>3, <2>13
<1>2. ASSUME NEW m \in 0 .. d PROVE \E i \in DOMAIN k : k[i].depth = m
  <2>1. d - m \in 0 .. d /\ d - (d - m) = m
    BY <1>0
  <2>2. d - m \notin T
    BY <1>1
  <2>3. Rank(d - (d - m)) # {}
    BY <2>1, <2>2
  <2> QED
    BY <2>1, <2>3
<1> DEFINE At(m) == CHOOSE i \in DOMAIN k : k[i].depth = m
           g == [m \in 0 .. d |-> k[At(m)].url]
<1>3. \A m \in 0 .. d : At(m) \in DOMAIN k /\ k[At(m)].depth = m
  BY <1>2
<1>4. \A m \in 0 .. d : k[At(m)].url \in Nodes
  BY <1>3, EntryTyped
<1>5. \A m, n \in 0 .. d : k[At(m)].url = k[At(n)].url => m = n
  BY <1>3 DEF TreeOn, Unique
<1> HIDE DEF At, Rank, T, d
<1>6. g \in Injection(0 .. d, Nodes)
  BY <1>4, <1>5 DEF Injection, IsInjective
<1>7. IsFiniteSet(Nodes) /\ Cardinality(Nodes) = Cardinality(Proxies) + 1
  BY NodesAssumption, CountAssumption, FS_AddElement DEF Nodes
<1>8. Cardinality(0 .. d) <= Cardinality(Nodes)
  BY <1>6, <1>7, FS_Injection DEF ExistsInjection
<1>9. Cardinality(0 .. d) = d + 1
  <2>1. 0 \in Int /\ d \in Int /\ ~(0 > d)
    BY <1>0
  <2>2. Cardinality(0 .. d) = IF 0 > d THEN 0 ELSE d - 0 + 1
    BY <2>1, FS_Interval
  <2> QED
    BY <2>1, <2>2
<1>10. Cardinality(Proxies) \in Nat
  BY NodesAssumption, CountAssumption, FS_CardinalityType
<1> QED
  BY <1>0, <1>7, <1>8, <1>9, <1>10, NodesAssumption, CountAssumption, FullIsNat DEF d

\* The deepest entry has no children.
LEMMA DeepestIsLeaf ==
  ASSUME NEW k, Table(k), TreeOn(k, DOMAIN k), NEW r \in DOMAIN k,
         \A j \in DOMAIN k : k[j].depth <= k[r].depth
  PROVE  k[r].refcount = 0 /\ \A x : ~Lists(k[r], x)
<1>1. ASSUME NEW x, Lists(k[r], x) PROVE FALSE
  <2>1. x \in Proxies
    BY <1>1, ChildrenAre, TableFacts
  <2>2. PICK j \in DOMAIN k : k[j].depth = k[r].depth + 1
    BY <1>1, <2>1 DEF TreeOn, Listed
  <2>3. k[j].depth \in Nat /\ k[r].depth \in Nat
    BY EntryTyped, TableFacts
  <2> QED
    BY <2>2, <2>3
<1>2. k[r].child \in Seq(Proxies)
  BY EntryTyped, TableFacts
<1>3. Len(k[r].child) = 0
  <2>1. Len(k[r].child) \in Nat /\ DOMAIN k[r].child = 1 .. Len(k[r].child)
    BY <1>2
  <2>2. 1 \notin DOMAIN k[r].child
    BY <1>1 DEF Lists
  <2> QED
    BY <2>1, <2>2
<1> QED
  BY <1>1, <1>3 DEF TreeOn, Counted

\* handle_pivot always finds a proxy with room.
LEMMA TargetHasRoom ==
  ASSUME NEW k, Table(k), TreeOn(k, DOMAIN k)
  PROVE  k[TargetNode(k)].refcount < Branches
<1> DEFINE t == TargetNode(k)
           r == Deepest(k)
<1>1. t \in DOMAIN k /\ DepthIfNotFull(k[t]) <= DepthIfNotFull(k[r])
  BY TargetNodeIs, DeepestIs, TableFacts
<1>2. r \in DOMAIN k /\ \A j \in DOMAIN k : k[j].depth <= k[r].depth
  BY DeepestIs, TableFacts
<1> HIDE DEF t, r
<1>3. k[r].refcount = 0
  BY <1>2, DeepestIsLeaf
<1>4. k[r].depth < Full /\ k[r].depth \in Nat /\ k[t].refcount \in Int
  BY <1>1, <1>2, DepthBounded, EntryTyped, TableFacts
<1>5. DepthIfNotFull(k[r]) = k[r].depth
  BY <1>3, BoundsAssumption DEF DepthIfNotFull
<1>6. k[t].refcount \in 0 .. Branches - 1
  BY <1>1, <1>4, <1>5, FullIsNat DEF DepthIfNotFull
<1> QED
  BY <1>6, BoundsAssumption DEF t

-----------------------------------------------------------------------------
(***************************************************************************)
(* handle_pivot.                                                           *)
(***************************************************************************)
TargetPos(k) == PosOf(k, k[TargetNode(k)].url)

Entered(k, n) ==
  Append([k EXCEPT ![TargetPos(k)] = MapTo(@, n)], NewPivot(n, k[TargetPos(k)].depth + 1))

\* handle_pivot: one entry gets a child more, and one entry is new.
LEMMA EnteredIs ==
  ASSUME NEW k, Table(k), NEW n \in Proxies
  PROVE  LET t == TargetPos(k)
             w == Entered(k, n)
         IN  /\ t \in DOMAIN k /\ k[t].url = k[TargetNode(k)].url
             /\ Table(w) /\ DOMAIN w = DOMAIN k \cup {Len(k) + 1} /\ Len(k) + 1 \notin DOMAIN k
             /\ w[t] = MapTo(k[t], n) /\ w[Len(k) + 1] = NewPivot(n, k[t].depth + 1)
             /\ \A i \in DOMAIN k : i # t => w[i] = k[i]
<1> USE TableFacts
<1> DEFINE t == TargetPos(k)
           w == Entered(k, n)
           b == [k EXCEPT ![t] = MapTo(@, n)]
           e == NewPivot(n, k[t].depth + 1)
<1>1. TargetNode(k) \in DOMAIN k
  BY TargetNodeIs
<1>2. t \in DOMAIN k /\ k[t].url = k[TargetNode(k)].url
  BY <1>1, PosOfIs DEF TargetPos
<1> HIDE DEF t
<1>3. k[t] \in Entries /\ k[t].depth \in Nat /\ k[t].depth + 1 \in Nat /\ n \in Nodes
  BY <1>2, EntryTyped DEF Nodes
<1>4. MapTo(k[t], n) \in Entries /\ e \in Entries
  BY <1>3, MapToIs, NewPivotIs
<1>5. b \in Seq(Entries) /\ Len(b) = Len(k) /\ DOMAIN b = DOMAIN k
  BY <1>2, <1>4
<1>6. b[t] = MapTo(k[t], n) /\ \A i \in DOMAIN k : i # t => b[i] = k[i]
  BY <1>2
<1>7. w = Append(b, e)
  BY DEF Entered, t
<1> HIDE DEF w, b, e
<1>8. /\ w \in Seq(Entries) /\ Len(w) = Len(k) + 1 /\ w[Len(k) + 1] = e
      /\ \A i \in DOMAIN k : w[i] = b[i]
  BY <1>4, <1>5, <1>7
<1>9. DOMAIN w = DOMAIN k \cup {Len(k) + 1} /\ Len(k) + 1 \notin DOMAIN k /\ Len(k) + 1 # 1
  BY <1>8
<1>10. /\ w[t].url = k[t].url /\ w[t].depth = k[t].depth
       /\ \A i \in DOMAIN k : i # t => w[i] = k[i]
  BY <1>2, <1>3, <1>6, <1>8, MapToIs, SMTT(30)
<1>11. e.url = n /\ e.depth = k[t].depth + 1 /\ e.depth >= 1
  BY <1>3, NewPivotIs DEF e
<1>12. Rooted(w)
  <2>1. w # <<>> /\ w[1].url = Root /\ w[1].depth = 0
    BY <1>8, <1>10
  <2>2. ASSUME NEW i \in DOMAIN w, i # 1 PROVE w[i].url \in Proxies /\ w[i].depth >= 1
    BY <1>8, <1>9, <1>10, <1>11, <2>2
  <2> QED
    BY <2>1, <2>2 DEF Rooted
<1> QED
  BY <1>2, <1>6, <1>8, <1>9, <1>10, <1>12 DEF Table, w, t, e

\* A new proxy below one with room: the table stays a tree.
LEMMA EnteredTree ==
  ASSUME NEW k, Table(k), IsTree(k), NEW n \in Proxies, n \notin Urls(k)
  PROVE  IsTree(Entered(k, n))
<1> DEFINE t == TargetPos(k)
           w == Entered(k, n)
           z == Len(k) + 1
           e == NewPivot(n, k[t].depth + 1)
<1>0. TreeOn(k, DOMAIN k)
  BY TreeIs
<1>1. /\ t \in DOMAIN k /\ k[t].url = k[TargetNode(k)].url
      /\ Table(w) /\ DOMAIN w = DOMAIN k \cup {z} /\ z \notin DOMAIN k
      /\ w[t] = MapTo(k[t], n) /\ w[z] = e
      /\ \A i \in DOMAIN k : i # t => w[i] = k[i]
  BY EnteredIs
<1>2. k[t].refcount < Branches
  <2>1. TargetNode(k) \in DOMAIN k
    BY TargetNodeIs, TableFacts
  <2>2. t = TargetNode(k)
    BY <1>0, <1>1, <2>1 DEF TreeOn, Unique
  <2> QED
    BY <1>0, <2>2, TargetHasRoom
<1> HIDE DEF t, w
<1>3. /\ k[t] \in Entries /\ k[t].depth \in Nat /\ k[t].refcount \in Int
      /\ k[t].child \in Seq(Proxies) /\ n \in Nodes
  BY <1>1, EntryTyped, TableFacts DEF Nodes
<1>4. /\ e.url = n /\ e.depth = k[t].depth + 1 /\ e.refcount = 0 /\ e.child = <<>>
      /\ \A x : ~Lists(e, x)
  BY <1>3, NewPivotIs
<1> HIDE DEF e
<1>5. /\ w[t].url = k[t].url /\ w[t].depth = k[t].depth
      /\ w[t].refcount = k[t].refcount + 1 /\ w[t].child = Append(k[t].child, n)
      /\ \A x : Lists(w[t], x) <=> Lists(k[t], x) \/ x = n
  <2> DEFINE m == MapTo(k[t], n)
  <2>1. /\ m.url = k[t].url /\ m.depth = k[t].depth
        /\ m.refcount = k[t].refcount + 1 /\ m.child = Append(k[t].child, n)
        /\ \A x : Lists(m, x) <=> Lists(k[t], x) \/ x = n
    BY <1>3, MapToIs
  <2> HIDE DEF m
  <2>2. w[t] = m
    BY <1>1 DEF m
  <2> QED
    BY <2>1, <2>2
<1>6. \A i \in DOMAIN k : w[i].url = k[i].url /\ w[i].depth = k[i].depth /\ k[i].url # n
  BY <1>1, <1>5 DEF Urls
<1>7. \A i \in DOMAIN k : ~Lists(k[i], n)
  BY <1>0 DEF TreeOn, Listed, Urls
<1>8. z # 1 /\ 1 \in DOMAIN k
  BY <1>1, TableFacts
<1> HIDE DEF z
<1>9. \A i \in DOMAIN w : \A x : Lists(w[i], x) <=>
        (i \in DOMAIN k /\ Lists(k[i], x)) \/ (i = t /\ x = n)
  BY <1>1, <1>4, <1>5
<1>10. Unique(w, DOMAIN w)
  BY <1>0, <1>1, <1>4, <1>6 DEF TreeOn, Unique
<1>11. Counted(w, DOMAIN w)
  <2> SUFFICES ASSUME NEW i \in DOMAIN w
               PROVE  /\ w[i].refcount = Len(w[i].child) /\ w[i].refcount <= Branches
                      /\ Distinct(w[i].child)
    BY DEF Counted
  <2>1. CASE i = t
    <3>1. k[t].refcount = Len(k[t].child) /\ Distinct(k[t].child)
      BY <1>0, <1>1 DEF TreeOn, Counted
    <3>2. ~Has(k[t].child, n)
      BY <1>1, <1>7, ListsHas
    <3>3. Len(w[t].child) = Len(k[t].child) + 1 /\ Distinct(w[t].child)
      BY <1>3, <1>5, <3>1, <3>2, AppendHas
    <3>4. w[t].refcount <= Branches
      BY <1>2, <1>3, <1>5, BoundsAssumption
    <3> QED
      BY <1>5, <2>1, <3>1, <3>3, <3>4
  <2>2. CASE i = z
    BY <1>1, <1>4, <2>2, BoundsAssumption DEF Distinct
  <2>3. CASE i # t /\ i # z
    BY <1>0, <1>1, <2>3 DEF TreeOn, Counted
  <2> QED
    BY <2>1, <2>2, <2>3
<1>12. Listed(w, DOMAIN w)
  <2> SUFFICES ASSUME NEW i \in DOMAIN w, NEW x \in Proxies, Lists(w[i], x)
               PROVE  \E j \in DOMAIN w \ {1} : w[j].url = x /\ w[j].depth = w[i].depth + 1
    BY DEF Listed
  <2>1. CASE i \in DOMAIN k /\ Lists(k[i], x)
    <3>1. PICK j \in DOMAIN k \ {1} : k[j].url = x /\ k[j].depth = k[i].depth + 1
      BY <1>0, <2>1 DEF TreeOn, Listed
    <3> QED
      BY <1>1, <1>6, <2>1, <3>1
  <2>2. CASE i = t /\ x = n
    BY <1>1, <1>4, <1>5, <1>8, <2>2
  <2> QED
    BY <1>9, <2>1, <2>2
<1>13. OneParent(w, DOMAIN w)
  BY <1>0, <1>7, <1>9 DEF TreeOn, OneParent
<1>14. HasParent(w, DOMAIN w)
  <2> SUFFICES ASSUME NEW j \in DOMAIN w \ {1} PROVE \E i \in DOMAIN w : Lists(w[i], w[j].url)
    BY DEF HasParent
  <2>1. CASE j = z
    BY <1>1, <1>4, <1>9, <2>1
  <2>2. CASE j # z
    BY <1>0, <1>1, <1>6, <1>9, <2>2 DEF TreeOn, HasParent
  <2> QED
    BY <2>1, <2>2
<1> QED
  BY <1>1, <1>10, <1>11, <1>12, <1>13, <1>14, TreeIs DEF TreeOn, w

-----------------------------------------------------------------------------
(***************************************************************************)
(* repair_tbon: the parts of it, for any table.                            *)
(***************************************************************************)

\* The table without a child of the entry at f.
Cut(k, f, c) == [k EXCEPT ![f] = RemoveFrom(@, c)]

\* The first step of a repair changes one entry.
LEMMA CutIs ==
  ASSUME NEW k, Table(k), NEW f \in DOMAIN k, NEW c
  PROVE  LET w == Cut(k, f, c)
         IN  /\ Table(w) /\ DOMAIN w = DOMAIN k /\ w[f] = RemoveFrom(k[f], c)
             /\ \A i \in DOMAIN k : /\ i # f => w[i] = k[i]
                                    /\ w[i].url = k[i].url /\ w[i].depth = k[i].depth
             /\ \A i \in DOMAIN k : \A x : Lists(w[i], x) <=> Lists(k[i], x) /\ ~(i = f /\ x = c)
<1> USE TableFacts
<1> DEFINE w == Cut(k, f, c)
           e == RemoveFrom(k[f], c)
<1>1. k[f] \in Entries
  BY EntryTyped
<1>2. /\ e \in Entries /\ e.url = k[f].url /\ e.depth = k[f].depth
      /\ \A x : Lists(e, x) <=> Lists(k[f], x) /\ x # c
  BY <1>1, RemoveFromIs
<1> HIDE DEF e
<1>3. w = [k EXCEPT ![f] = e]
  BY DEF Cut, e
<1> HIDE DEF w
<1>4. /\ w \in Seq(Entries) /\ Len(w) = Len(k) /\ DOMAIN w = DOMAIN k /\ w[f] = e
      /\ \A i \in DOMAIN k : i # f => w[i] = k[i]
  BY <1>2, <1>3
<1>5. \A i \in DOMAIN k : w[i].url = k[i].url /\ w[i].depth = k[i].depth
  BY <1>2, <1>4
<1>6. Rooted(w)
  <2>1. w # <<>>
    BY <1>4
  <2> QED
    BY <1>4, <1>5, <2>1 DEF Rooted
<1>7. \A i \in DOMAIN k : \A x : Lists(w[i], x) <=> Lists(k[i], x) /\ ~(i = f /\ x = c)
  BY <1>2, <1>4
<1> QED
  BY <1>4, <1>5, <1>6, <1>7 DEF Table, w, e

\* The entries of a stitched table.
Detach(k, t, r, i) == IF i = Former(k, t, k[r].url) THEN RemoveFrom(k[i], k[r].url) ELSE k[i]
Attach(k, f, t, r, i) == IF i = f THEN MapTo(Detach(k, t, r, i), k[r].url) ELSE Detach(k, t, r, i)

\* Of the former parent and of the new one, all that changes is whether they list the
\* replacement.
LEMMA AttachIs ==
  ASSUME NEW k, Table(k), NEW f \in DOMAIN k, NEW t \in DOMAIN k, NEW r \in DOMAIN k, r # 1,
         NEW i \in DOMAIN k
  PROVE  LET a == Attach(k, f, t, r, i)
             p == Former(k, t, k[r].url)
         IN  /\ a \in Entries /\ a.url = k[i].url /\ a.depth = k[i].depth
             /\ \A x : Lists(a, x) <=> \/ Lists(k[i], x) /\ ~(i = p /\ x = k[r].url)
                                       \/ i = f /\ x = k[r].url
<1> DEFINE p == Former(k, t, k[r].url)
           d == Detach(k, t, r, i)
<1>1. k[i] \in Entries /\ k[r].url \in Proxies
  BY TableFacts, EntryTyped
<1>2. /\ d \in Entries /\ d.url = k[i].url /\ d.depth = k[i].depth
      /\ \A x : Lists(d, x) <=> Lists(k[i], x) /\ ~(i = p /\ x = k[r].url)
  <2>1. CASE i = p
    <3>1. d = RemoveFrom(k[i], k[r].url)
      BY <2>1 DEF Detach
    <3> HIDE DEF d
    <3>2. /\ d \in Entries /\ d.url = k[i].url /\ d.depth = k[i].depth
          /\ \A x : Lists(d, x) <=> Lists(k[i], x) /\ x # k[r].url
      BY <1>1, <3>1, RemoveFromIs
    <3> QED
      BY <2>1, <3>2
  <2>2. CASE i # p
    BY <1>1, <2>2 DEF Detach
  <2> QED
    BY <2>1, <2>2
<1> HIDE DEF d, p
<1>3. CASE i = f
  <2>1. Attach(k, f, t, r, i) = MapTo(d, k[r].url)
    BY <1>3 DEF Attach, d
  <2>2. LET a == MapTo(d, k[r].url)
        IN  /\ a \in Entries /\ a.url = d.url /\ a.depth = d.depth
            /\ \A x : Lists(a, x) <=> Lists(d, x) \/ x = k[r].url
    BY <1>1, <1>2, MapToIs
  <2> QED
    BY <1>2, <1>3, <2>1, <2>2 DEF p
<1>4. CASE i # f
  BY <1>2, <1>4 DEF Attach, d, p
<1> QED
  BY <1>3, <1>4

\* A stitched table s, entry by entry.
StitchedAs(s, k, f, t, r) ==
  LET b == Adopted(k, t, k[r].url)
      a == Attach(k, f, t, r, r)
  IN  /\ Table(s) /\ DOMAIN s = DOMAIN k /\ b \in Seq(Proxies)
      /\ \A i \in DOMAIN k : /\ s[i].url = k[i].url
                             /\ i # r => s[i] = Attach(k, f, t, r, i)
                             /\ i # r => s[i].depth = k[i].depth
      /\ s[r].depth = k[f].depth + 1 /\ s[r].refcount = a.refcount + Len(b)
      /\ s[r].child = a.child \o b

\* The entries after the replacement has moved, one by one.
LEMMA StitchedIs ==
  ASSUME NEW k, Table(k), NEW f \in DOMAIN k, NEW t \in DOMAIN k, NEW r \in DOMAIN k, r # 1
  PROVE  StitchedAs(Stitched(k, f, t, r), k, f, t, r)
<1> USE TableFacts
<1> DEFINE s == Stitched(k, f, t, r)
           b == Adopted(k, t, k[r].url)
           A(i) == Attach(k, f, t, r, i)
           n == A(r).refcount + Len(b)
           c == A(r).child \o b
           d == k[f].depth + 1
           e == [A(r) EXCEPT !.depth = d, !.refcount = n, !.child = c]
<1>1. \A i \in DOMAIN k : A(i) \in Entries /\ A(i).url = k[i].url /\ A(i).depth = k[i].depth
  BY AttachIs
<1>2. k[t].child \in Seq(Proxies) /\ k[f].depth \in Nat
  BY EntryTyped
<1>3. b \in Seq(Proxies)
  BY <1>2, RetainHas DEF Adopted
<1>4. s = [i \in DOMAIN k |-> IF i # r THEN A(i) ELSE e]
  BY DEF Stitched, Attach, Detach
<1>5. A(r).refcount \in Int /\ A(r).child \in Seq(Proxies)
  BY <1>1 DEF Entries
<1> HIDE DEF b
<1>6. n \in Int /\ c \in Seq(Proxies) /\ d \in Nat /\ d >= 1
  BY <1>2, <1>3, <1>5
<1> HIDE DEF A, n, c, d
<1>7. e = [url |-> A(r).url, refcount |-> n, child |-> c, depth |-> d]
  <2> DEFINE a == A(r)
  <2>1. a \in Entries
    BY <1>1
  <2>2. e = [a EXCEPT !.depth = d, !.refcount = n, !.child = c]
    OBVIOUS
  <2> HIDE DEF a, e
  <2>3. e = [url |-> a.url, refcount |-> n, child |-> c, depth |-> d]
    BY <2>1, <2>2 DEF Entries
  <2> QED
    BY <2>3 DEF a
<1>8. e \in Entries /\ e.url = k[r].url /\ e.depth = d /\ e.refcount = n /\ e.child = c
  <2>1. A(r).url \in Nodes
    BY <1>1 DEF Entries
  <2> QED
    BY <1>1, <1>6, <1>7, <2>1 DEF Entries
<1> HIDE DEF e
<1>9. \A i \in DOMAIN k : s[i] = IF i # r THEN A(i) ELSE e
  BY <1>4
<1>10. s \in Seq(Entries) /\ DOMAIN s = DOMAIN k
  <2>1. s = [i \in 1 .. Len(k) |-> IF i # r THEN A(i) ELSE e]
    BY <1>4
  <2>2. s \in [1 .. Len(k) -> Entries]
    BY <1>1, <1>8, <2>1
  <2> QED
    BY <2>1, <2>2
<1> HIDE DEF s
<1>11. Rooted(s)
  <2>1. s # <<>> /\ s[1].url = Root /\ s[1].depth = 0
    BY <1>1, <1>9, <1>10
  <2>2. ASSUME NEW i \in DOMAIN s \ {1} PROVE s[i].url \in Proxies /\ s[i].depth >= 1
    BY <1>1, <1>6, <1>8, <1>9, <1>10
  <2> QED
    BY <2>1, <2>2 DEF Rooted
<1> QED
  BY <1>1, <1>3, <1>8, <1>9, <1>10, <1>11 DEF Table, A, n, c, d, s, b, StitchedAs

\* The cases of a repair.
LEMMA RepairCases ==
  ASSUME NEW k, NEW from, NEW c
  PROVE  LET f == PosOf(k, from)
             w == Cut(k, f, c)
             t == PosOf(w, c)
             r == Deepest(w)
             p == Former(w, t, w[r].url)
         IN  /\ f = 0 => Repair(k, from, c) = NoRepair(k)
             /\ f # 0 /\ (t = 0 \/ w[t].refcount = 0) =>
                  Repair(k, from, c) = NoRepair(Without(w, c))
             /\ f # 0 /\ t # 0 /\ w[t].refcount # 0 =>
                  /\ Repair(k, from, c).known = Without(Stitched(w, f, t, r), c)
                  /\ Repair(k, from, c).replacement = w[r].url
                  /\ Repair(k, from, c).former = (IF p = 0 THEN None ELSE w[p].url)
                  /\ Repair(k, from, c).adopted = Adopted(w, t, w[r].url)
BY DEF Repair, Cut

\* A repair without a replacement names nobody.
LEMMA NoRepairIs ==
  ASSUME NEW k
  PROVE  /\ NoRepair(k).known = k /\ NoRepair(k).replacement = None
         /\ NoRepair(k).former = None /\ NoRepair(k).adopted = <<>>
BY DEF NoRepair

\* Whatever is asked, a repair leaves a table and names proxies.
LEMMA RepairTable ==
  ASSUME NEW k, Table(k), NEW from, NEW c \in Proxies
  PROVE  /\ Table(Repair(k, from, c).known)
         /\ Repair(k, from, c).replacement \in Proxies \cup {None}
         /\ Repair(k, from, c).adopted \in Seq(Proxies)
<1> USE TableFacts
<1> DEFINE f == PosOf(k, from)
           w == Cut(k, f, c)
           t == PosOf(w, c)
           r == Deepest(w)
           rep == Repair(k, from, c)
<1> HIDE DEF f, w, t, r, rep
<1>1. CASE f = 0
  <2>1. rep = NoRepair(k)
    BY <1>1, RepairCases DEF f, rep
  <2>2. rep.known = k /\ rep.replacement = None /\ rep.adopted = <<>>
    BY <2>1, NoRepairIs
  <2> QED
    BY <2>2 DEF rep
<1>2. CASE f # 0
  <2>1. f \in DOMAIN k
    BY <1>2, PosOfIs DEF f
  <2>2. Table(w) /\ DOMAIN w = DOMAIN k
    BY <2>1, CutIs DEF w
  <2>3. CASE t = 0 \/ w[t].refcount = 0
    <3>1. rep = NoRepair(Without(w, c))
      BY <1>2, <2>3, RepairCases DEF f, w, t, rep
    <3>2. /\ rep.known = Without(w, c) /\ rep.replacement = None
          /\ rep.adopted = <<>>
      BY <3>1, NoRepairIs
    <3>3. Table(Without(w, c))
      BY <2>2, WithoutTable
    <3> QED
      BY <3>2, <3>3 DEF rep
  <2>4. CASE t # 0 /\ w[t].refcount # 0
    <3>1. t \in DOMAIN w /\ w[t].url = c
      BY <2>2, <2>4, PosOfIs DEF t
    <3>2. r \in DOMAIN w /\ w[t].depth <= w[r].depth
      BY <2>2, <3>1, DeepestIs DEF r
    <3>3. r # 1
      <4>1. t # 1
        BY <2>2, <3>1, NodesAssumption, CountAssumption
      <4>2. w[t].depth >= 1 /\ w[t].depth \in Nat /\ w[r].depth \in Nat
        BY <2>2, <3>1, <3>2, <4>1, EntryTyped
      <4> QED
        BY <2>2, <3>2, <4>2
    <3>4. Table(Stitched(w, f, t, r)) /\ Adopted(w, t, w[r].url) \in Seq(Proxies)
      <4>1. StitchedAs(Stitched(w, f, t, r), w, f, t, r)
        BY <2>1, <2>2, <3>1, <3>2, <3>3, StitchedIs
      <4> QED
        BY <4>1 DEF StitchedAs
    <3>5. Table(Without(Stitched(w, f, t, r), c))
      BY <3>4, WithoutTable
    <3>6. w[r].url \in Proxies
      BY <2>2, <3>2, <3>3
    <3> QED
      BY <1>2, <2>4, <3>4, <3>5, <3>6, RepairCases DEF f, w, t, r
  <2> QED
    BY <2>3, <2>4
<1> QED
  BY <1>1, <1>2


-----------------------------------------------------------------------------
(***************************************************************************)
(* repair_tbon on a tree, for a child that the entry at f lists.           *)
(***************************************************************************)
Good(e) == e.refcount = Len(e.child) /\ Distinct(e.child)

\* A child that is listed is taken away once.
LEMMA RemoveFromGood ==
  ASSUME NEW e \in Entries, Good(e), NEW c, Lists(e, c)
  PROVE  Good(RemoveFrom(e, c)) /\ RemoveFrom(e, c).refcount = e.refcount - 1
<1>1. e.child \in Seq(Proxies) /\ e.refcount \in Int
  BY DEF Entries
<1>2. Len(Retain(e.child, {c})) = Len(e.child) - 1
  BY <1>1, RetainOne, ListsHas DEF Good
<1>3. Distinct(Retain(e.child, {c}))
  BY <1>1, RetainHas DEF Good
<1> QED
  BY <1>1, <1>2, <1>3, RemoveFromIs DEF Good

\* A child that is not listed yet is counted once.
LEMMA MapToGood ==
  ASSUME NEW e \in Entries, Good(e), NEW c \in Proxies, ~Lists(e, c)
  PROVE  Good(MapTo(e, c)) /\ MapTo(e, c).refcount = e.refcount + 1
<1>1. e.child \in Seq(Proxies) /\ e.refcount \in Int
  BY DEF Entries
<1>2. Len(Append(e.child, c)) = Len(e.child) + 1 /\ Distinct(Append(e.child, c))
  BY <1>1, AppendHas, ListsHas DEF Good
<1> QED
  BY <1>1, <1>2, MapToIs DEF Good

\* Where the removed child is.
LEMMA CutChild ==
  ASSUME NEW k, Table(k), TreeOn(k, DOMAIN k), NEW f \in DOMAIN k, NEW c \in Proxies,
         Lists(k[f], c)
  PROVE  LET t == PosOf(Cut(k, f, c), c)
         IN  /\ t \in DOMAIN k /\ t # 1 /\ t # f /\ k[t].url = c
             /\ k[t].depth = k[f].depth + 1 /\ Cut(k, f, c)[t] = k[t]
             /\ \A i \in DOMAIN k : k[i].url = c => i = t
<1> DEFINE w == Cut(k, f, c)
           t == PosOf(w, c)
<1>1. /\ Table(w) /\ DOMAIN w = DOMAIN k
      /\ \A i \in DOMAIN k : (i # f => w[i] = k[i]) /\ w[i].url = k[i].url
  BY CutIs
<1> HIDE DEF w
<1>2. PICK j \in DOMAIN k \ {1} : k[j].url = c /\ k[j].depth = k[f].depth + 1
  BY DEF TreeOn, Listed
<1>3. t \in DOMAIN k /\ w[t].url = c
  BY <1>1, <1>2, PosOfIs, TableFacts
<1>4. t = j
  BY <1>1, <1>2, <1>3 DEF TreeOn, Unique
<1>5. t # f
  <2>1. k[f].depth \in Nat
    BY EntryTyped, TableFacts
  <2> QED
    BY <1>2, <1>4, <2>1
<1>6. \A i \in DOMAIN k : k[i].url = c => i = t
  BY <1>2, <1>4 DEF TreeOn, Unique
<1> QED
  BY <1>1, <1>2, <1>3, <1>4, <1>5, <1>6 DEF w

\* The counts after the cut.
LEMMA CutGood ==
  ASSUME NEW k, Table(k), TreeOn(k, DOMAIN k), NEW f \in DOMAIN k, NEW c \in Proxies,
         Lists(k[f], c)
  PROVE  /\ \A i \in DOMAIN k : Good(Cut(k, f, c)[i]) /\ Cut(k, f, c)[i].refcount <= Branches
         /\ Cut(k, f, c)[f].refcount < Branches
<1> DEFINE w == Cut(k, f, c)
<1>1. /\ w[f] = RemoveFrom(k[f], c) /\ \A i \in DOMAIN k : i # f => w[i] = k[i]
  BY CutIs
<1>2. \A i \in DOMAIN k : Good(k[i]) /\ k[i].refcount <= Branches
  BY DEF TreeOn, Counted, Good
<1>3. k[f] \in Entries /\ k[f].refcount \in Int
  BY EntryTyped, TableFacts
<1>4. Good(RemoveFrom(k[f], c)) /\ RemoveFrom(k[f], c).refcount = k[f].refcount - 1
  BY <1>2, <1>3, RemoveFromGood
<1> HIDE DEF w
<1>5. Good(w[f]) /\ w[f].refcount = k[f].refcount - 1
  BY <1>1, <1>4
<1>6. w[f].refcount < Branches
  BY <1>2, <1>3, <1>5, BoundsAssumption
<1>7. w[f].refcount <= Branches
  BY <1>3, <1>5, <1>6, BoundsAssumption
<1> QED
  BY <1>1, <1>2, <1>5, <1>6, <1>7 DEF w

\* The removed proxy has no children: it is just dropped.
LEMMA CutTree ==
  ASSUME NEW k, Table(k), TreeOn(k, DOMAIN k), NEW f \in DOMAIN k, NEW c \in Proxies,
         Lists(k[f], c), \A x : ~Lists(k[PosOf(Cut(k, f, c), c)], x)
  PROVE  IsTree(Without(Cut(k, f, c), c))
<1> DEFINE w == Cut(k, f, c)
           t == PosOf(w, c)
           I == {i \in DOMAIN w : w[i].url # c}
<1>1. /\ Table(w) /\ DOMAIN w = DOMAIN k
      /\ \A i \in DOMAIN k : w[i].url = k[i].url /\ w[i].depth = k[i].depth
      /\ \A i \in DOMAIN k : \A x : Lists(w[i], x) <=> Lists(k[i], x) /\ ~(i = f /\ x = c)
  BY CutIs
<1>2. t \in DOMAIN k /\ k[t].url = c /\ \A i \in DOMAIN k : k[i].url = c => i = t
  BY CutChild
<1>3. \A x : ~Lists(k[t], x)
  OBVIOUS
<1>4. \A i \in DOMAIN k : Good(w[i]) /\ w[i].refcount <= Branches
  BY CutGood
<1> HIDE DEF w, t
<1>5. \A i : i \in I <=> i \in DOMAIN k /\ i # t
  BY <1>1, <1>2
<1> HIDE DEF I
<1>6. Unique(w, I)
  BY <1>1, <1>5 DEF TreeOn, Unique
<1>7. Counted(w, I)
  BY <1>4, <1>5 DEF Counted, Good
<1>8. Listed(w, I)
  <2> SUFFICES ASSUME NEW i \in I, NEW x \in Proxies, Lists(w[i], x)
               PROVE  \E j \in I \ {1} : w[j].url = x /\ w[j].depth = w[i].depth + 1
    BY DEF Listed
  <2>1. i \in DOMAIN k /\ Lists(k[i], x) /\ ~(i = f /\ x = c)
    BY <1>1, <1>5
  <2>2. PICK j \in DOMAIN k \ {1} : k[j].url = x /\ k[j].depth = k[i].depth + 1
    BY <2>1 DEF TreeOn, Listed
  <2>3. x # c
    BY <2>1 DEF TreeOn, OneParent
  <2> QED
    BY <1>1, <1>2, <1>5, <2>1, <2>2, <2>3
<1>9. OneParent(w, I)
  BY <1>1, <1>5 DEF TreeOn, OneParent
<1>10. HasParent(w, I)
  <2> SUFFICES ASSUME NEW j \in I \ {1} PROVE \E i \in I : Lists(w[i], w[j].url)
    BY DEF HasParent
  <2>1. j \in DOMAIN k \ {1} /\ k[j].url # c
    BY <1>2, <1>5
  <2>2. PICK i \in DOMAIN k : Lists(k[i], k[j].url)
    BY <2>1 DEF TreeOn, HasParent
  <2> QED
    BY <1>1, <1>3, <1>5, <2>1, <2>2
<1> QED
  BY <1>1, <1>6, <1>7, <1>8, <1>9, <1>10, WithoutTree DEF TreeOn, w, I

\* Who takes the place of the removed proxy: a leaf that is neither the removed
\* proxy nor its parent.
LEMMA Replacement ==
  ASSUME NEW k, Table(k), TreeOn(k, DOMAIN k), NEW f \in DOMAIN k, NEW c \in Proxies,
         Lists(k[f], c), Cut(k, f, c)[PosOf(Cut(k, f, c), c)].refcount # 0
  PROVE  LET w == Cut(k, f, c)
             t == PosOf(w, c)
             r == Deepest(w)
         IN  /\ r \in DOMAIN k /\ r # 1 /\ r # t /\ r # f
             /\ w[r] = k[r] /\ k[r].url \in Proxies /\ k[r].url # c
             /\ k[r].child = <<>> /\ k[r].refcount = 0 /\ \A x : ~Lists(k[r], x)
<1> DEFINE w == Cut(k, f, c)
           t == PosOf(w, c)
           r == Deepest(w)
<1>1. /\ Table(w) /\ DOMAIN w = DOMAIN k
      /\ \A i \in DOMAIN k : (i # f => w[i] = k[i]) /\ w[i].depth = k[i].depth
  BY CutIs
<1>2. /\ t \in DOMAIN k /\ t # 1 /\ t # f /\ k[t].url = c /\ w[t] = k[t]
      /\ \A i \in DOMAIN k : k[i].url = c => i = t
  BY CutChild
<1>3. r \in DOMAIN k /\ \A j \in DOMAIN k : k[j].depth <= k[r].depth
  BY <1>1, DeepestIs, TableFacts
<1>4. w[t].refcount # 0
  OBVIOUS
<1> HIDE DEF w, t, r
<1>5. k[r].refcount = 0 /\ \A x : ~Lists(k[r], x)
  BY <1>3, DeepestIsLeaf
<1>6. r # t /\ r # f
  BY <1>2, <1>4, <1>5
<1>7. r # 1
  <2>1. k[t].depth >= 1 /\ k[1].depth = 0 /\ k[t].depth \in Nat
    BY <1>2, EntryTyped, TableFacts
  <2> QED
    BY <1>2, <1>3, <2>1
<1>8. k[r].url \in Proxies /\ k[r].url # c
  BY <1>2, <1>3, <1>6, <1>7, TableFacts
<1>9. k[r].child = <<>>
  <2>1. k[r].child \in Seq(Proxies) /\ Len(k[r].child) = 0
    BY <1>3, <1>5, EntryTyped, TableFacts DEF TreeOn, Counted
  <2> QED
    BY <2>1
<1> QED
  BY <1>1, <1>3, <1>5, <1>6, <1>7, <1>8, <1>9 DEF w, t, r

\* The proxy that has to give it up.
LEMMA FormerIs ==
  ASSUME NEW k, Table(k), TreeOn(k, DOMAIN k), NEW f \in DOMAIN k, NEW c \in Proxies,
         Lists(k[f], c), Cut(k, f, c)[PosOf(Cut(k, f, c), c)].refcount # 0
  PROVE  LET w == Cut(k, f, c)
             t == PosOf(w, c)
             u == k[Deepest(w)].url
             p == Former(w, t, u)
         IN  \/ p = 0 /\ Lists(k[t], u)
             \/ /\ p \in DOMAIN k /\ p # t /\ p # Deepest(w) /\ Lists(k[p], u)
                /\ ~Lists(k[t], u)
<1> DEFINE w == Cut(k, f, c)
           t == PosOf(w, c)
           r == Deepest(w)
           u == k[r].url
           p == Former(w, t, u)
<1>1. /\ Table(w) /\ DOMAIN w = DOMAIN k
      /\ \A i \in DOMAIN k : \A x : Lists(w[i], x) <=> Lists(k[i], x) /\ ~(i = f /\ x = c)
  BY CutIs
<1>2. t \in DOMAIN k /\ w[t] = k[t]
  BY CutChild
<1>3. r \in DOMAIN k /\ r # 1 /\ u # c /\ u \in Proxies /\ \A x : ~Lists(k[r], x)
  <2>1. r \in DOMAIN k /\ r # 1 /\ u # c /\ u \in Proxies
    BY Replacement
  <2>2. \A x : ~Lists(k[r], x)
    BY Replacement
  <2> QED
    BY <2>1, <2>2
<1>4. p = IF Lists(w[t], u) THEN 0 ELSE ParentOf(w, u)
  BY DEF Former, ParentOf
<1> HIDE DEF w, t, r, u, p
<1>5. PICK i \in DOMAIN k : Lists(k[i], u)
  BY <1>3 DEF TreeOn, HasParent, u
<1>6. Lists(w[i], u)
  BY <1>1, <1>3, <1>5
<1>7. ParentOf(w, u) \in DOMAIN k /\ Lists(w[ParentOf(w, u)], u)
  BY <1>1, <1>5, <1>6, ParentOfIs, TableFacts
<1>8. CASE Lists(k[t], u)
  BY <1>2, <1>4, <1>8 DEF p, t, u, w, r
<1>9. CASE ~Lists(k[t], u)
  <2>1. p = ParentOf(w, u)
    BY <1>2, <1>4, <1>9
  <2>2. p \in DOMAIN k /\ Lists(k[p], u)
    BY <1>1, <1>7, <2>1
  <2> QED
    BY <1>3, <1>9, <2>2 DEF p, t, u, w, r
<1> QED
  BY <1>8, <1>9

\* The stitched table s against the one before the repair.
StitchedTo(s, k, f, c, t, r) ==
  LET u == k[r].url
  IN  /\ Table(s) /\ DOMAIN s = DOMAIN k
      /\ \A i \in DOMAIN k : s[i].url = k[i].url /\ (i # r => s[i].depth = k[i].depth)
      /\ s[r].depth = k[f].depth + 1
      /\ \A x : Lists(s[r], x) <=> Lists(k[t], x) /\ x # u
      /\ \A i \in DOMAIN k : \A x : i # r /\ i # t =>
           (Lists(s[i], x) <=> \/ Lists(k[i], x) /\ ~(i = f /\ x = c) /\ x # u
                               \/ i = f /\ x = u)

\* In a tree: who lists whom after the replacement has moved.
LEMMA StitchedLists ==
  ASSUME NEW k, Table(k), TreeOn(k, DOMAIN k), NEW f \in DOMAIN k, NEW c \in Proxies,
         Lists(k[f], c), Cut(k, f, c)[PosOf(Cut(k, f, c), c)].refcount # 0
  PROVE  LET w == Cut(k, f, c)
             t == PosOf(w, c)
             r == Deepest(w)
         IN  StitchedTo(Stitched(w, f, t, r), k, f, c, t, r)
<1> DEFINE w == Cut(k, f, c)
           t == PosOf(w, c)
           r == Deepest(w)
           s == Stitched(w, f, t, r)
           u == k[r].url
           p == Former(w, t, u)
           b == Adopted(w, t, u)
           A(i) == Attach(w, f, t, r, i)
<1>1. /\ Table(w) /\ DOMAIN w = DOMAIN k
      /\ \A i \in DOMAIN k : w[i].url = k[i].url /\ w[i].depth = k[i].depth
      /\ \A i \in DOMAIN k : \A x : Lists(w[i], x) <=> Lists(k[i], x) /\ ~(i = f /\ x = c)
  BY CutIs
<1>2. t \in DOMAIN k /\ w[t] = k[t] /\ t # f
  BY CutChild
<1>3. /\ r \in DOMAIN k /\ r # 1 /\ r # t /\ r # f /\ w[r] = k[r] /\ u \in Proxies /\ u # c
      /\ k[r].child = <<>>
  BY Replacement
<1>4. \/ p = 0 /\ Lists(k[t], u)
      \/ p \in DOMAIN k /\ p # t /\ p # r /\ Lists(k[p], u) /\ ~Lists(k[t], u)
  BY FormerIs
<1>5. w[r].url = u
  BY <1>3
<1>6. ASSUME NEW i \in DOMAIN k
      PROVE  \A x : Lists(A(i), x) <=> \/ Lists(w[i], x) /\ ~(i = p /\ x = u)
                                       \/ i = f /\ x = u
  BY <1>1, <1>2, <1>3, <1>5, AttachIs
<1>7. /\ Table(s) /\ DOMAIN s = DOMAIN k /\ b \in Seq(Proxies)
      /\ \A i \in DOMAIN k : /\ s[i].url = w[i].url
                             /\ i # r => s[i] = A(i) /\ s[i].depth = w[i].depth
      /\ s[r].depth = w[f].depth + 1 /\ s[r].child = A(r).child \o b
  <2> DEFINE B == Adopted(w, t, w[r].url)
  <2>1. /\ Table(s) /\ DOMAIN s = DOMAIN w /\ B \in Seq(Proxies)
        /\ \A i \in DOMAIN w : /\ s[i].url = w[i].url
                               /\ i # r => s[i] = A(i)
                               /\ i # r => s[i].depth = w[i].depth
        /\ s[r].depth = w[f].depth + 1 /\ s[r].child = A(r).child \o B
    <3>1. Table(w) /\ f \in DOMAIN w /\ t \in DOMAIN w /\ r \in DOMAIN w /\ r # 1
      BY <1>1, <1>2, <1>3
    <3> HIDE DEF w, t, r
    <3>2. StitchedAs(s, w, f, t, r)
      BY <3>1, StitchedIs
    <3> HIDE DEF s
    <3> QED
      BY <3>2 DEF StitchedAs
  <2>2. B = b
    BY <1>5
  <2> HIDE DEF w, t, r, u, s, b, B, A
  <2> QED
    BY <1>1, <2>1, <2>2
<1>8. A(r) = w[r]
  <2>1. r # p
    BY <1>3, <1>4, <1>1, TableFacts
  <2> QED
    BY <1>3, <1>5, <2>1 DEF Attach, Detach
<1>9. b = Retain(k[t].child, {u})
  BY <1>2 DEF Adopted
<1> HIDE DEF w, t, r, s, u, p, b, A
<1>10. s[r].child = b
  BY <1>3, <1>7, <1>8
<1>11. k[t].child \in Seq(Proxies)
  BY <1>2, EntryTyped, TableFacts
<1>12. \A x : Has(b, x) <=> Has(k[t].child, x) /\ x # u
  BY <1>9, <1>11, RetainHas
<1>13. \A x : Lists(s[r], x) <=> Lists(k[t], x) /\ x # u
  BY <1>10, <1>12, ListsHas
<1>14. ASSUME NEW i \in DOMAIN k, NEW x, i # r, i # t
       PROVE  Lists(s[i], x) <=> \/ Lists(k[i], x) /\ ~(i = f /\ x = c) /\ x # u
                                 \/ i = f /\ x = u
  <2>1. Lists(k[i], u) => i = p
    BY <1>2, <1>3, <1>4, <1>14 DEF TreeOn, OneParent
  <2>2. Lists(s[i], x) <=> \/ Lists(w[i], x) /\ ~(i = p /\ x = u)
                           \/ i = f /\ x = u
    BY <1>6, <1>7, <1>14
  <2>3. Lists(w[i], x) <=> Lists(k[i], x) /\ ~(i = f /\ x = c)
    BY <1>1
  <2> QED
    BY <2>1, <2>2, <2>3
<1>15. /\ \A i \in DOMAIN k : s[i].url = k[i].url /\ (i # r => s[i].depth = k[i].depth)
       /\ s[r].depth = k[f].depth + 1
  BY <1>1, <1>7
<1> QED
  BY <1>7, <1>13, <1>14, <1>15 DEF w, t, r, s, u, StitchedTo

\* The counts of the stitched table.
LEMMA StitchedGood ==
  ASSUME NEW k, Table(k), TreeOn(k, DOMAIN k), NEW f \in DOMAIN k, NEW c \in Proxies,
         Lists(k[f], c), Cut(k, f, c)[PosOf(Cut(k, f, c), c)].refcount # 0
  PROVE  LET w == Cut(k, f, c)
             t == PosOf(w, c)
             r == Deepest(w)
             s == Stitched(w, f, t, r)
         IN  \A i \in DOMAIN k : i # t => Good(s[i]) /\ s[i].refcount <= Branches
<1> DEFINE w == Cut(k, f, c)
           t == PosOf(w, c)
           r == Deepest(w)
           s == Stitched(w, f, t, r)
           u == k[r].url
           p == Former(w, t, u)
           b == Adopted(w, t, u)
           D(i) == Detach(w, t, r, i)
           A(i) == Attach(w, f, t, r, i)
<1>1. /\ Table(w) /\ DOMAIN w = DOMAIN k
      /\ \A i \in DOMAIN k : \A x : Lists(w[i], x) <=> Lists(k[i], x) /\ ~(i = f /\ x = c)
  BY CutIs
<1>2. t \in DOMAIN k /\ w[t] = k[t] /\ t # f
  BY CutChild
<1>3. /\ r \in DOMAIN k /\ r # 1 /\ r # t /\ r # f /\ w[r] = k[r] /\ u \in Proxies /\ u # c
      /\ k[r].child = <<>> /\ k[r].refcount = 0
  BY Replacement
<1>4. \/ p = 0 /\ Lists(k[t], u)
      \/ p \in DOMAIN k /\ p # t /\ p # r /\ Lists(k[p], u) /\ ~Lists(k[t], u)
  BY FormerIs
<1>5. /\ \A i \in DOMAIN k : Good(w[i]) /\ w[i].refcount <= Branches
      /\ w[f].refcount < Branches
  BY CutGood
<1>6. w[r].url = u
  BY <1>3
<1>7. StitchedAs(s, w, f, t, r)
  <2>1. f \in DOMAIN w /\ t \in DOMAIN w /\ r \in DOMAIN w
    BY <1>1, <1>2, <1>3
  <2> HIDE DEF w, t, r
  <2> QED
    BY <1>1, <1>3, <2>1, StitchedIs
<1>8. b = Retain(k[t].child, {u})
  BY <1>2 DEF Adopted
<1>9. \A i : D(i) = IF i = p THEN RemoveFrom(w[i], u) ELSE w[i]
  BY <1>6 DEF Detach
<1>10. \A i : A(i) = IF i = f THEN MapTo(D(i), u) ELSE D(i)
  BY <1>6 DEF Attach
<1>11. /\ \A i \in DOMAIN k : i # r => s[i] = A(i)
       /\ s[r].refcount = A(r).refcount + Len(b) /\ s[r].child = A(r).child \o b
       /\ b \in Seq(Proxies)
  <2> HIDE DEF w, t, r, s, u
  <2>1. b = Adopted(w, t, w[r].url)
    BY <1>6
  <2> HIDE DEF b
  <2> QED
    BY <1>1, <1>7, <2>1 DEF StitchedAs
<1> HIDE DEF w, t, r, s, u, p, b, D, A
<1>12. \A i \in DOMAIN k : w[i] \in Entries /\ w[i].refcount \in Int
  BY <1>1, EntryTyped, TableFacts
<1>13. ASSUME NEW i \in DOMAIN k, i # t
       PROVE  /\ D(i) \in Entries /\ D(i).refcount \in Int
              /\ Good(D(i)) /\ D(i).refcount <= w[i].refcount /\ ~Lists(D(i), u)
  <2>1. CASE i = p
    <3> DEFINE e == RemoveFrom(w[i], u)
    <3>1. Lists(w[i], u)
      BY <1>1, <1>3, <1>4, <1>13, <2>1, TableFacts
    <3>2. e \in Entries /\ Good(e) /\ e.refcount = w[i].refcount - 1 /\ ~Lists(e, u)
      BY <1>5, <1>12, <3>1, RemoveFromIs, RemoveFromGood
    <3>3. D(i) = e
      BY <1>9, <2>1
    <3> HIDE DEF e
    <3> QED
      BY <1>12, <3>2, <3>3
  <2>2. CASE i # p
    <3>1. D(i) = w[i]
      BY <1>9, <2>2
    <3>2. ~Lists(k[i], u)
      BY <1>2, <1>3, <1>4, <1>13, <2>2 DEF TreeOn, OneParent
    <3> QED
      BY <1>1, <1>5, <1>12, <3>1, <3>2
  <2> QED
    BY <2>1, <2>2
<1>14. ASSUME NEW i \in DOMAIN k, i # t, i # r PROVE Good(s[i]) /\ s[i].refcount <= Branches
  <2>1. s[i] = A(i)
    BY <1>11, <1>14
  <2>2. CASE i = f
    <3>1. A(i) = MapTo(D(i), u)
      BY <1>10, <2>2
    <3>2. Good(MapTo(D(i), u)) /\ MapTo(D(i), u).refcount = D(i).refcount + 1
      BY <1>3, <1>13, <1>14, MapToGood
    <3>3. D(i).refcount < Branches /\ D(i).refcount \in Int
      <4>1. D(i).refcount \in Int /\ D(i).refcount <= w[f].refcount /\ w[f].refcount \in Int
        BY <1>12, <1>13, <1>14, <2>2
      <4> QED
        BY <1>5, <4>1, BoundsAssumption
    <3>4. s[i].refcount = D(i).refcount + 1 /\ Good(s[i])
      BY <2>1, <3>1, <3>2
    <3> QED
      BY <3>3, <3>4, BoundsAssumption
  <2>3. CASE i # f
    <3>1. s[i] = D(i)
      BY <1>10, <2>1, <2>3
    <3>2. D(i).refcount \in Int /\ D(i).refcount <= w[i].refcount /\ w[i].refcount <= Branches
      BY <1>5, <1>13, <1>14
    <3>3. D(i).refcount <= Branches
      BY <1>12, <3>2, BoundsAssumption
    <3> QED
      BY <1>13, <1>14, <3>1, <3>3
  <2> QED
    BY <2>2, <2>3
<1>15. Good(s[r]) /\ s[r].refcount <= Branches
  <2>1. A(r) = w[r]
    <3>1. r # p
      BY <1>3, <1>4, TableFacts
    <3> QED
      BY <1>3, <1>9, <1>10, <3>1
  <2>2. s[r].child = b /\ s[r].refcount = Len(b)
    BY <1>3, <1>11, <2>1
  <2>3. k[t].child \in Seq(Proxies) /\ Distinct(k[t].child) /\ Len(k[t].child) <= Branches
    BY <1>2, EntryTyped, TableFacts DEF TreeOn, Counted
  <2>4. Distinct(b) /\ Len(b) <= Len(k[t].child)
    <3>1. Len(k[t].child) \in Nat
      BY <2>3
    <3>2. Distinct(b)
      BY <1>8, <2>3, RetainHas
    <3>3. Len(b) = Len(k[t].child) - 1 \/ Len(b) = Len(k[t].child)
      BY <1>8, <2>3, RetainOne
    <3> QED
      BY <3>1, <3>2, <3>3
  <2>5. Len(b) \in Nat /\ Len(k[t].child) \in Nat
    BY <1>11, <2>3
  <2>6. Len(b) <= Branches
    BY <2>3, <2>4, <2>5, BoundsAssumption
  <2> QED
    BY <2>2, <2>4, <2>6 DEF Good
<1> QED
  BY <1>14, <1>15 DEF w, t, r, s

\* The replacement takes the place of the removed proxy: the others form a tree.
LEMMA StitchedTree ==
  ASSUME NEW k, Table(k), TreeOn(k, DOMAIN k), NEW f \in DOMAIN k, NEW c \in Proxies,
         Lists(k[f], c), Cut(k, f, c)[PosOf(Cut(k, f, c), c)].refcount # 0
  PROVE  LET w == Cut(k, f, c) IN IsTree(Without(Stitched(w, f, PosOf(w, c), Deepest(w)), c))
<1> DEFINE w == Cut(k, f, c)
           t == PosOf(w, c)
           r == Deepest(w)
           s == Stitched(w, f, t, r)
           u == k[r].url
           I == {i \in DOMAIN s : s[i].url # c}
<1>1. /\ t \in DOMAIN k /\ t # 1 /\ t # f /\ k[t].url = c /\ k[t].depth = k[f].depth + 1
      /\ \A i \in DOMAIN k : k[i].url = c => i = t
  BY CutChild
<1>2. /\ r \in DOMAIN k /\ r # 1 /\ r # t /\ r # f /\ u \in Proxies /\ u # c
      /\ \A x : ~Lists(k[r], x)
  <2>1. r \in DOMAIN k /\ r # 1 /\ r # t /\ r # f /\ u \in Proxies /\ u # c
    BY Replacement
  <2>2. \A x : ~Lists(k[r], x)
    BY Replacement
  <2> QED
    BY <2>1, <2>2
<1>3. /\ Table(s) /\ DOMAIN s = DOMAIN k
      /\ \A i \in DOMAIN k : s[i].url = k[i].url /\ (i # r => s[i].depth = k[i].depth)
      /\ s[r].depth = k[f].depth + 1
      /\ \A x : Lists(s[r], x) <=> Lists(k[t], x) /\ x # u
      /\ \A i \in DOMAIN k : \A x : i # r /\ i # t =>
           (Lists(s[i], x) <=> \/ Lists(k[i], x) /\ ~(i = f /\ x = c) /\ x # u
                               \/ i = f /\ x = u)
  <2>1. StitchedTo(s, k, f, c, t, r)
    BY StitchedLists
  <2> HIDE DEF w, t, r, s
  <2> QED
    BY <2>1 DEF StitchedTo
<1>4. \A i \in DOMAIN k : i # t => Good(s[i]) /\ s[i].refcount <= Branches
  BY StitchedGood
<1> HIDE DEF w, t, r, s
<1>5. \A i : i \in I <=> i \in DOMAIN k /\ i # t
  BY <1>1, <1>3
<1> HIDE DEF I, u
<1>6. \A i \in DOMAIN k : k[i].url = u => i = r
  BY <1>2 DEF TreeOn, Unique, u
<1>7. Unique(s, I)
  BY <1>3, <1>5 DEF TreeOn, Unique
<1>8. Counted(s, I)
  BY <1>4, <1>5 DEF Counted, Good
<1>9. Listed(s, I)
  <2> SUFFICES ASSUME NEW i \in I, NEW x \in Proxies, Lists(s[i], x)
               PROVE  \E j \in I \ {1} : s[j].url = x /\ s[j].depth = s[i].depth + 1
    BY DEF Listed
  <2>0. i \in DOMAIN k /\ i # t
    BY <1>5
  <2>1. CASE i = r
    <3>1. Lists(k[t], x) /\ x # u
      BY <1>3, <2>1
    <3>2. PICK j \in DOMAIN k \ {1} : k[j].url = x /\ k[j].depth = k[t].depth + 1
      BY <1>1, <3>1 DEF TreeOn, Listed
    <3>3. j # t
      <4>1. k[t].depth \in Nat
        BY <1>1, EntryTyped, TableFacts
      <4> QED
        BY <3>2, <4>1
    <3>4. j # r
      BY <1>2, <3>1, <3>2 DEF u
    <3>5. j \in I \ {1} /\ s[j].url = x /\ s[j].depth = s[i].depth + 1
      BY <1>1, <1>3, <1>5, <2>1, <3>2, <3>3, <3>4
    <3> QED
      BY <3>5
  <2>2. CASE i = f /\ x = u
    <3>1. r \in I \ {1} /\ s[r].url = x /\ s[r].depth = s[i].depth + 1
      BY <1>2, <1>3, <1>5, <2>2 DEF u
    <3> QED
      BY <3>1
  <2>3. CASE i # r /\ ~(i = f /\ x = u)
    <3>1. Lists(k[i], x) /\ ~(i = f /\ x = c) /\ x # u
      BY <1>3, <2>0, <2>3
    <3>2. PICK j \in DOMAIN k \ {1} : k[j].url = x /\ k[j].depth = k[i].depth + 1
      BY <2>0, <3>1 DEF TreeOn, Listed
    <3>3. x # c
      BY <2>0, <3>1 DEF TreeOn, OneParent
    <3>4. j # t /\ j # r
      BY <1>1, <1>2, <3>1, <3>2, <3>3 DEF u
    <3>5. j \in I \ {1} /\ s[j].url = x /\ s[j].depth = s[i].depth + 1
      BY <1>3, <1>5, <2>0, <2>3, <3>2, <3>4
    <3> QED
      BY <3>5
  <2> QED
    BY <2>1, <2>2, <2>3
<1>10. OneParent(s, I)
  <2> SUFFICES ASSUME NEW i \in I, NEW l \in I, NEW x \in Proxies, Lists(s[i], x), Lists(s[l], x)
               PROVE  i = l
    BY DEF OneParent
  <2>0. i \in DOMAIN k /\ i # t /\ l \in DOMAIN k /\ l # t
    BY <1>5
  <2>1. CASE x = u
    BY <1>3, <2>0, <2>1
  <2>2. CASE x # u
    <3> DEFINE From(j) == IF j = r THEN t ELSE j
    <3>1. Lists(k[From(i)], x) /\ Lists(k[From(l)], x) /\ From(i) \in DOMAIN k /\ From(l) \in DOMAIN k
      BY <1>1, <1>3, <2>0, <2>2
    <3>2. From(i) = From(l)
      <4> HIDE DEF From
      <4> QED
        BY <3>1 DEF TreeOn, OneParent
    <3> QED
      BY <2>0, <3>2
  <2> QED
    BY <2>1, <2>2
<1>11. HasParent(s, I)
  <2> SUFFICES ASSUME NEW j \in I \ {1} PROVE \E i \in I : Lists(s[i], s[j].url)
    BY DEF HasParent
  <2>0. j \in DOMAIN k \ {1} /\ j # t
    BY <1>5
  <2>1. CASE j = r
    <3>1. f \in I /\ Lists(s[f], u) /\ s[j].url = u
      BY <1>1, <1>2, <1>3, <1>5, <2>1 DEF u
    <3> QED
      BY <3>1
  <2>2. CASE j # r
    <3>1. k[j].url # u /\ k[j].url # c /\ s[j].url = k[j].url
      BY <1>1, <1>3, <1>6, <2>0, <2>2
    <3>2. PICK i \in DOMAIN k : Lists(k[i], k[j].url)
      BY <2>0 DEF TreeOn, HasParent
    <3>3. CASE i = t
      <4>1. r \in I /\ Lists(s[r], s[j].url)
        BY <1>2, <1>3, <1>5, <3>1, <3>2, <3>3
      <4> QED
        BY <4>1
    <3>4. CASE i # t
      <4>1. i # r
        BY <1>2, <3>2
      <4>2. i \in I /\ Lists(s[i], s[j].url)
        BY <1>3, <1>5, <3>1, <3>2, <3>4, <4>1
      <4> QED
        BY <4>2
    <3> QED
      BY <3>3, <3>4
  <2> QED
    BY <2>1, <2>2
<1> QED
  BY <1>3, <1>7, <1>8, <1>9, <1>10, <1>11, WithoutTree DEF TreeOn, w, t, r, s, I

\* An entry whose count is 0 lists nobody.
LEMMA NoChildren ==
  ASSUME NEW k, Table(k), TreeOn(k, DOMAIN k), NEW t \in DOMAIN k, k[t].refcount = 0
  PROVE  \A x : ~Lists(k[t], x)
<1>1. k[t].child \in Seq(Proxies) /\ Len(k[t].child) = 0
  BY EntryTyped, TableFacts DEF TreeOn, Counted
<1>2. DOMAIN k[t].child = {}
  BY <1>1
<1> QED
  BY <1>2 DEF Lists

\* A repair that fits the table keeps it a tree.
LEMMA RepairTree ==
  ASSUME NEW k, Table(k), IsTree(k), NEW from, NEW c \in Proxies,
         PosOf(k, from) # 0 => Lists(k[PosOf(k, from)], c)
  PROVE  IsTree(Repair(k, from, c).known)
<1> DEFINE f == PosOf(k, from)
           w == Cut(k, f, c)
           t == PosOf(w, c)
           rep == Repair(k, from, c)
<1>0. TreeOn(k, DOMAIN k)
  BY TreeIs
<1>1. CASE f = 0
  <2>1. rep = NoRepair(k)
    BY <1>1, RepairCases
  <2> HIDE DEF rep
  <2> QED
    BY <2>1, NoRepairIs DEF rep
<1>2. CASE f # 0
  <2>1. f \in DOMAIN k /\ Lists(k[f], c)
    BY <1>2, PosOfIs, TableFacts
  <2>2. t \in DOMAIN k /\ w[t] = k[t]
    <3> HIDE DEF f
    <3> QED
      BY <1>0, <2>1, CutChild
  <2>3. t # 0
    BY <2>2, TableFacts
  <2>4. CASE w[t].refcount = 0
    <3>1. rep = NoRepair(Without(w, c))
      BY <1>2, <2>4, RepairCases
    <3>2. rep.known = Without(w, c)
      <4> HIDE DEF rep, w
      <4> QED
        BY <3>1, NoRepairIs
    <3>3. \A x : ~Lists(k[t], x)
      <4> HIDE DEF w, t
      <4> QED
        BY <1>0, <2>2, <2>4, NoChildren
    <3>4. IsTree(Without(w, c))
      <4> HIDE DEF f
      <4> QED
        BY <1>0, <2>1, <3>3, CutTree
    <3> QED
      BY <3>2, <3>4
  <2>5. CASE w[t].refcount # 0
    <3>1. rep.known = Without(Stitched(w, f, t, Deepest(w)), c)
      BY <1>2, <2>3, <2>5, RepairCases
    <3>2. IsTree(Without(Stitched(w, f, t, Deepest(w)), c))
      <4> HIDE DEF f
      <4> QED
        BY <1>0, <2>1, <2>5, StitchedTree
    <3> QED
      BY <3>1, <3>2
  <2> QED
    BY <2>4, <2>5
<1> QED
  BY <1>1, <1>2

-----------------------------------------------------------------------------
(***************************************************************************)
(* The actions.  TableInv says of the table that it is one, that it is a   *)
(* tree as long as every request fits it, and of the rest its type.        *)
(***************************************************************************)
Lifes == {"starting", "pivoted", "member", "down", "terminated"}

RestTyped ==
  /\ proc \in [Nodes -> Lifes]
  /\ pivot \in [Proxies -> Nodes \cup {None}]
  /\ scrapes \in [Nodes -> SUBSET Proxies]
  /\ wiring \in [Nodes -> SUBSET Proxies]
  /\ leaving \subseteq Proxies \X Nodes
  /\ faults \in 0 .. MaxFaults
  /\ stray \in BOOLEAN
  /\ cut \subseteq Proxies

TableOK == Table(known) /\ TreeUnlessStray

\* The invariant, as what is said of the table and of the rest.
LEMMA TableInvIs == TableInv <=> TableOK /\ RestTyped
BY DEF TableInv, TypeOK, RestTyped, TableOK, Table, Lifes

\* The same, in the next state.
LEMMA TableInvIsPrimed == TableInv' <=> TableOK' /\ RestTyped'
BY DEF TableInv, TypeOK, RestTyped, TableOK, Table, Lifes

\* The root is a node and no proxy.
LEMMA RootIsNode == Root \in Nodes /\ None \notin Nodes /\ Root \notin Proxies /\ Proxies \subseteq Nodes
BY NodesAssumption, CountAssumption DEF Nodes

\* Init: the table holds the root alone.
LEMMA InitTable == Init => TableInv
<1> SUFFICES ASSUME Init PROVE TableInv
  OBVIOUS
<1> DEFINE e == NewPivot(Root, 0)
<1>1. e \in Entries /\ e.url = Root /\ e.depth = 0 /\ e.refcount = 0 /\ e.child = <<>>
      /\ \A x : ~Lists(e, x)
  BY NewPivotIs, RootIsNode
<1> HIDE DEF e
<1>2. known = <<e>>
  BY DEF Init, e
<1>3. known \in Seq(Entries) /\ DOMAIN known = {1} /\ known[1] = e /\ known # <<>>
  BY <1>1, <1>2
<1>4. Table(known)
  BY <1>1, <1>3 DEF Table, Rooted
<1>5. TreeOn(known, DOMAIN known)
  <2>1. Unique(known, DOMAIN known) /\ OneParent(known, DOMAIN known)
    BY <1>3 DEF Unique, OneParent
  <2>2. Counted(known, DOMAIN known)
    BY <1>1, <1>3, BoundsAssumption DEF Counted, Distinct
  <2>3. Listed(known, DOMAIN known) /\ HasParent(known, DOMAIN known)
    BY <1>1, <1>3 DEF Listed, HasParent
  <2> QED
    BY <2>1, <2>2, <2>3 DEF TreeOn
<1>6. TableOK
  BY <1>4, <1>5, TreeIs DEF TableOK, TreeUnlessStray
<1>7. RestTyped
  <2>1. proc \in [Nodes -> Lifes] /\ pivot \in [Proxies -> Nodes \cup {None}]
    BY DEF Init, Lifes
  <2>2. scrapes \in [Nodes -> SUBSET Proxies] /\ wiring \in [Nodes -> SUBSET Proxies]
    BY DEF Init
  <2>3. leaving \subseteq Proxies \X Nodes /\ stray \in BOOLEAN /\ cut \subseteq Proxies
    BY DEF Init
  <2>4. faults \in 0 .. MaxFaults
    BY BoundsAssumption DEF Init
  <2> QED
    BY <2>1, <2>2, <2>3, <2>4 DEF RestTyped
<1> QED
  BY <1>6, <1>7, TableInvIs

\* A request for a parent.
LEMMA EnterTable ==
  ASSUME TableInv, NEW n \in Proxies, Enter(n)
  PROVE  TableOK' /\ stray' \in BOOLEAN /\ known[TargetNode(known)].url \in Nodes
<1>1. Table(known) /\ TreeUnlessStray /\ stray \in BOOLEAN
  BY TableInvIs DEF TableOK, RestTyped
<1>2. known' = Entered(known, n) /\ stray' = (stray \/ PosOf(known, n) # 0)
  BY DEF Enter, Entered, TargetPos
<1>3. Table(known')
  BY <1>1, <1>2, EnteredIs
<1>4. ~stray' => IsTree(known')
  <2> SUFFICES ASSUME ~stray' PROVE IsTree(Entered(known, n))
    BY <1>2
  <2>1. IsTree(known) /\ PosOf(known, n) = 0
    BY <1>1, <1>2 DEF TreeUnlessStray
  <2>2. n \notin Urls(known)
    BY <1>1, <2>1, PosOfIs, TableFacts DEF Urls
  <2> QED
    BY <1>1, <2>1, <2>2, EnteredTree
<1>5. TargetNode(known) \in DOMAIN known
  BY <1>1, TargetNodeIs, TableFacts
<1>6. known[TargetNode(known)].url \in Nodes
  BY <1>1, <1>5, EntryTyped, TableFacts
<1> QED
  BY <1>1, <1>2, <1>3, <1>4, <1>6 DEF TableOK, TreeUnlessStray

\* A request for a repair.
LEMMA RepairInv ==
  ASSUME TableInv, NEW p, NEW c \in Proxies,
         known' = Repair(known, p, c).known, stray' = (stray \/ StrayRepair(p, c))
  PROVE  TableOK' /\ stray' \in BOOLEAN
<1>1. Table(known) /\ TreeUnlessStray /\ stray \in BOOLEAN
  BY TableInvIs DEF TableOK, RestTyped
<1>2. Table(known')
  BY <1>1, RepairTable
<1>3. ~stray' => IsTree(known')
  <2> SUFFICES ASSUME ~stray' PROVE IsTree(Repair(known, p, c).known)
    OBVIOUS
  <2>1. IsTree(known) /\ ~StrayRepair(p, c)
    BY <1>1 DEF TreeUnlessStray
  <2>2. PosOf(known, p) # 0 => Lists(known[PosOf(known, p)], c)
    BY <2>1 DEF StrayRepair
  <2> QED
    BY <1>1, <2>1, <2>2, RepairTree
<1> QED
  BY <1>1, <1>2, <1>3 DEF TableOK, TreeUnlessStray

\* What reaches a proxy of a list, and the scrapers after a repair.
LEMMA GetParamIs ==
  ASSUME NEW s \in Seq(Proxies)
  PROVE  GetParam(s) \in Seq(Proxies)
<1>1. CASE s = <<>>
  BY <1>1 DEF GetParam
<1>2. CASE s # <<>>
  <2>1. GetParam(s) = SubSeq(s, 1, 1) /\ Len(s) >= 1
    BY <1>2 DEF GetParam
  <2> QED
    BY <2>1
<1> QED
  BY <1>1, <1>2

\* /join/multiple is about proxies.
LEMMA ReachedTyped ==
  ASSUME NEW s \in Seq(Proxies)
  PROVE  Reached(s) \subseteq Proxies
<1>1. \A i \in DOMAIN GetParam(s) : GetParam(s)[i] \in Proxies
  BY GetParamIs
<1> QED
  BY <1>1 DEF Reached

\* So are the names that are cut off.
LEMMA CutOffTyped ==
  ASSUME NEW s \in Seq(Proxies)
  PROVE  CutOff(s) \subseteq Proxies
BY DEF CutOff

\* The scrapers are of proxies after the requests of a repair.
LEMMA RewiredTyped ==
  ASSUME NEW s \in [Nodes -> SUBSET Proxies], NEW rep, rep.adopted \in Seq(Proxies)
  PROVE  Rewired(s, rep) \in [Nodes -> SUBSET Proxies]
<1>1. Reached(rep.adopted) \subseteq Proxies
  BY ReachedTyped
<1> QED
  BY <1>1 DEF Rewired

\* A report, right or wrong, leaves a table, and a tree unless it is stray.
LEMMA RemoveTyped ==
  ASSUME TableInv, NEW p \in Nodes, NEW c \in Proxies, Remove(p, c), faults' \in 0 .. MaxFaults
  PROVE  TableInv'
<1> DEFINE rep == Repair(known, p, c)
<1>1. Table(known) /\ RestTyped
  BY TableInvIs DEF TableOK
<1>2. rep.replacement \in Proxies \cup {None} /\ rep.adopted \in Seq(Proxies)
  BY <1>1, RepairTable
<1>3. /\ known' = rep.known
      /\ scrapes' = Rewired([scrapes EXCEPT ![p] = @ \ {c}], rep)
      /\ wiring' = IF rep.replacement = None THEN wiring
                   ELSE [wiring EXCEPT ![p] = @ \cup {rep.replacement}]
      /\ stray' = (stray \/ StrayRepair(p, c))
      /\ cut' = cut \cup CutOff(rep.adopted)
      /\ UNCHANGED <<proc, pivot, leaving>>
  BY DEF Remove
<1>4. TableOK' /\ stray' \in BOOLEAN
  BY <1>3, RepairInv
<1> HIDE DEF rep
<1>5. [scrapes EXCEPT ![p] = @ \ {c}] \in [Nodes -> SUBSET Proxies]
  BY <1>1 DEF RestTyped
<1>6. scrapes' \in [Nodes -> SUBSET Proxies]
  BY <1>2, <1>3, <1>5, RewiredTyped
<1>7. wiring' \in [Nodes -> SUBSET Proxies]
  BY <1>1, <1>2, <1>3 DEF RestTyped
<1>9. cut' \subseteq Proxies
  BY <1>1, <1>2, <1>3, CutOffTyped DEF RestTyped
<1>8. RestTyped'
  BY <1>1, <1>3, <1>4, <1>6, <1>7, <1>9 DEF RestTyped
<1> QED
  BY <1>4, <1>8, TableInvIsPrimed

\* Faults stay within their bound.
LEMMA FaultTyped ==
  ASSUME faults \in 0 .. MaxFaults, NEW kind, Fault(kind)
  PROVE  faults' \in 0 .. MaxFaults
BY BoundsAssumption DEF Fault

\* A process that stops leaves the table as it is.
LEMMA StopTyped ==
  ASSUME TableInv, NEW n \in Proxies, NEW how \in {"down", "terminated"}, Stop(n, how),
         faults' \in 0 .. MaxFaults
  PROVE  TableInv'
<1>1. TableOK /\ RestTyped
  BY TableInvIs
<1>2. n \in Nodes
  BY RootIsNode
<1>3. RestTyped'
  BY <1>1, <1>2 DEF Stop, RestTyped, Lifes
<1>4. TableOK'
  BY <1>1 DEF Stop, TableOK, TreeUnlessStray
<1> QED
  BY <1>3, <1>4, TableInvIsPrimed

\* One step of the system.
LEMMA TableStep ==
  ASSUME TableInv, [Next]_vars
  PROVE  TableInv'
<1>0. Table(known) /\ TableOK /\ RestTyped /\ faults \in 0 .. MaxFaults
  BY TableInvIs DEF TableOK, RestTyped
<1>u. ASSUME UNCHANGED <<known, stray>> PROVE TableOK'
  BY <1>0, <1>u DEF TableOK, TreeUnlessStray
<1>1. ASSUME NEW n \in Proxies, Pivot(n) PROVE TableInv'
  <2>1. TableOK' /\ stray' \in BOOLEAN /\ known[TargetNode(known)].url \in Nodes
    BY <1>1, EnterTable DEF Pivot
  <2> DEFINE u == known[TargetNode(known)].url
  <2>2. /\ pivot' = [pivot EXCEPT ![n] = u] /\ proc' = [proc EXCEPT ![n] = "pivoted"]
        /\ UNCHANGED <<scrapes, wiring, leaving, faults, cut>>
    BY <1>1 DEF Pivot
  <2> HIDE DEF u
  <2>3. u \in Nodes
    BY <2>1 DEF u
  <2>4. proc' \in [Nodes -> Lifes] /\ pivot' \in [Proxies -> Nodes \cup {None}]
    BY <1>0, <2>2, <2>3 DEF RestTyped, Lifes
  <2>5. RestTyped'
    BY <1>0, <2>1, <2>2, <2>4 DEF RestTyped
  <2> QED
    BY <2>1, <2>5, TableInvIsPrimed
<1>2. ASSUME NEW n \in Proxies, PivotRetried(n) PROVE TableInv'
  <2>1. TableOK' /\ stray' \in BOOLEAN
    BY <1>2, EnterTable DEF PivotRetried
  <2>2. faults' \in 0 .. MaxFaults
    BY <1>0, <1>2, FaultTyped DEF PivotRetried
  <2>3. RestTyped'
    BY <1>0, <1>2, <2>1, <2>2 DEF PivotRetried, RestTyped
  <2> QED
    BY <2>1, <2>3, TableInvIsPrimed
<1>3. ASSUME NEW n \in Proxies, Join(n) PROVE TableInv'
  <2> DEFINE ok == Up(pivot[n])
  <2>1. /\ proc' = [proc EXCEPT ![n] = IF ok THEN "member" ELSE "down"]
        /\ scrapes' = [scrapes EXCEPT ![pivot[n]] = IF ok THEN @ \cup {n} ELSE @,
                                      ![n] = IF ok THEN @ ELSE {}]
        /\ wiring' = [wiring EXCEPT ![n] = IF ok THEN @ ELSE {}]
        /\ pivot' = [pivot EXCEPT ![n] = None]
        /\ UNCHANGED <<known, leaving, faults, stray, cut>>
    BY <1>3 DEF Join
  <2> HIDE DEF ok
  <2>2. n \in Nodes
    BY RootIsNode
  <2>3. proc' \in [Nodes -> Lifes] /\ pivot' \in [Proxies -> Nodes \cup {None}]
    BY <1>0, <2>1, <2>2 DEF RestTyped, Lifes
  <2>4. wiring' \in [Nodes -> SUBSET Proxies]
    BY <1>0, <2>1, <2>2 DEF RestTyped
  <2>5. scrapes' \in [Nodes -> SUBSET Proxies]
    <3>1. scrapes \in [Nodes -> SUBSET Proxies]
      BY <1>0 DEF RestTyped
    <3> DEFINE v == pivot[n]
    <3> HIDE DEF v
    <3>2. scrapes' = [scrapes EXCEPT ![v] = IF ok THEN @ \cup {n} ELSE @,
                                     ![n] = IF ok THEN @ ELSE {}]
      BY <2>1 DEF v
    <3> QED
      BY <2>2, <3>1, <3>2
  <2>6. RestTyped'
    BY <1>0, <2>1, <2>3, <2>4, <2>5 DEF RestTyped
  <2> QED
    BY <1>u, <2>1, <2>6, TableInvIsPrimed
<1>4. ASSUME NEW n \in Proxies, Crash(n) \/ SigTerm(n) PROVE TableInv'
  <2>1. faults' \in 0 .. MaxFaults
    BY <1>0, <1>4, FaultTyped DEF Crash, SigTerm
  <2>2. Stop(n, "down") \/ Stop(n, "terminated")
    BY <1>4 DEF Crash, SigTerm
  <2> QED
    BY <2>1, <2>2, StopTyped
<1>5. ASSUME NEW n \in Proxies, Restart(n) PROVE TableInv'
  <2>1. faults' \in 0 .. MaxFaults
    BY <1>0, <1>5, FaultTyped DEF Restart
  <2>2. RestTyped'
    BY <1>0, <1>5, <2>1, RootIsNode DEF Restart, RestTyped, Lifes
  <2> QED
    BY <1>u, <1>5, <2>2, TableInvIsPrimed DEF Restart
<1>6. ASSUME NEW p \in Nodes, NEW c \in Proxies, ScrapeFails(p, c) \/ Suspect(p, c)
      PROVE  TableInv'
  <2>1. Remove(p, c)
    BY <1>6 DEF ScrapeFails, Suspect
  <2>2. faults' \in 0 .. MaxFaults
    BY <1>0, <1>6, FaultTyped DEF ScrapeFails, Suspect
  <2> QED
    BY <2>1, <2>2, RemoveTyped
<1>7. ASSUME NEW p \in Nodes, NEW c \in Proxies, RemoveRetried(p, c) PROVE TableInv'
  <2> DEFINE rep == Repair(known, p, c)
  <2>1. Table(rep.known) /\ rep.adopted \in Seq(Proxies)
    BY <1>0, RepairTable
  <2>2. /\ known' = Repair(rep.known, p, c).known /\ stray' = TRUE
        /\ scrapes' = Rewired([scrapes EXCEPT ![p] = @ \ {c}], rep)
        /\ cut' = cut \cup CutOff(rep.adopted)
        /\ UNCHANGED <<proc, pivot, wiring, leaving>>
    BY <1>7 DEF RemoveRetried
  <2> HIDE DEF rep
  <2>3. Table(known')
    BY <2>1, <2>2, RepairTable
  <2>4. TableOK'
    BY <2>2, <2>3 DEF TableOK, TreeUnlessStray
  <2>5. [scrapes EXCEPT ![p] = @ \ {c}] \in [Nodes -> SUBSET Proxies]
    BY <1>0 DEF RestTyped
  <2>6. scrapes' \in [Nodes -> SUBSET Proxies]
    BY <2>1, <2>2, <2>5, RewiredTyped
  <2>7. faults' \in 0 .. MaxFaults
    BY <1>0, <1>7, FaultTyped DEF RemoveRetried
  <2>9. cut' \subseteq Proxies
    BY <1>0, <2>1, <2>2, CutOffTyped DEF RestTyped
  <2>8. RestTyped'
    BY <1>0, <2>2, <2>6, <2>7, <2>9 DEF RestTyped
  <2> QED
    BY <2>4, <2>8, TableInvIsPrimed
<1>8. ASSUME NEW p \in Nodes, NEW c \in Proxies, Wire(p, c) PROVE TableInv'
  <2>1. RestTyped'
    BY <1>0, <1>8 DEF Wire, RestTyped
  <2> QED
    BY <1>u, <1>8, <2>1, TableInvIsPrimed DEF Wire
<1>9. ASSUME NEW n \in Proxies, BeginLeave(n) PROVE TableInv'
  <2> DEFINE i == ParentOf(known, n)
             u == known[i].url
  <2>1. /\ i # 0 /\ leaving' = leaving \cup {<<n, u>>}
        /\ scrapes' = [scrapes EXCEPT ![u] = @ \ {n}]
        /\ UNCHANGED <<known, proc, pivot, wiring, stray, cut>>
    BY <1>9 DEF BeginLeave, ParentOf
  <2>2. i \in DOMAIN known
    BY <1>0, <2>1, ParentOfIs, TableFacts
  <2>3. u \in Nodes
    <3> HIDE DEF i
    <3> QED
      BY <1>0, <2>2, EntryTyped, TableFacts
  <2> HIDE DEF i, u
  <2>4. faults' \in 0 .. MaxFaults
    BY <1>0, <1>9, FaultTyped DEF BeginLeave
  <2>5. leaving' \subseteq Proxies \X Nodes
    BY <1>0, <2>1, <2>3 DEF RestTyped
  <2>6. scrapes' \in [Nodes -> SUBSET Proxies]
    BY <1>0, <2>1, <2>3 DEF RestTyped
  <2>7. RestTyped'
    BY <1>0, <2>1, <2>4, <2>5, <2>6 DEF RestTyped
  <2> QED
    BY <1>u, <2>1, <2>7, TableInvIsPrimed
<1>10. ASSUME NEW p \in Nodes, NEW n \in Proxies, EndLeave(n, p) PROVE TableInv'
  <2> DEFINE rep == Repair(known, p, n)
             s == Rewired(scrapes, rep)
  <2>1. rep.replacement \in Proxies \cup {None} /\ rep.adopted \in Seq(Proxies)
    BY <1>0, RepairTable
  <2>2. /\ leaving' = leaving \ {<<n, p>>} /\ known' = rep.known
        /\ scrapes' = IF rep.replacement # None /\ Up(p) /\ Up(rep.replacement)
                        THEN [s EXCEPT ![p] = @ \cup {rep.replacement}] ELSE s
        /\ stray' = (stray \/ StrayRepair(p, n))
        /\ cut' = cut \cup CutOff(rep.adopted)
        /\ UNCHANGED <<proc, pivot, wiring, faults>>
    BY <1>10 DEF EndLeave
  <2>3. TableOK' /\ stray' \in BOOLEAN
    BY <2>2, RepairInv
  <2> HIDE DEF rep
  <2>4. s \in [Nodes -> SUBSET Proxies]
    BY <1>0, <2>1, RewiredTyped DEF RestTyped
  <2> HIDE DEF s
  <2>5. scrapes' \in [Nodes -> SUBSET Proxies]
    BY <2>1, <2>2, <2>4
  <2>7. cut' \subseteq Proxies
    BY <1>0, <2>1, <2>2, CutOffTyped DEF RestTyped
  <2>6. RestTyped'
    BY <1>0, <2>2, <2>3, <2>5, <2>7 DEF RestTyped
  <2> QED
    BY <2>3, <2>6, TableInvIsPrimed
<1>11. ASSUME UNCHANGED vars PROVE TableInv'
  <2>1. RestTyped'
    BY <1>0, <1>11 DEF vars, RestTyped
  <2> QED
    BY <1>u, <1>11, <2>1, TableInvIsPrimed DEF vars
<1> QED
  BY <1>1, <1>2, <1>3, <1>4, <1>5, <1>6, <1>7, <1>8, <1>9, <1>10, <1>11
  DEF Next, ProxyStep, FaultStep

\* The inductive invariant of the table holds in every state.
THEOREM TableInvariant == Spec => []TableInv
<1>1. TableInv /\ [Next]_vars => TableInv'
  BY TableStep
<1> QED
  BY <1>1, InitTable, PTL DEF Spec

(***************************************************************************)
(* TypeOK holds in every state, whatever requests arrive and however often *)
(* they are retried: repair_tbon and handle_pivot never leave an entry     *)
(* without a depth, nor name a proxy that does not exist.                  *)
(***************************************************************************)
THEOREM TreeTypeCorrect == Spec => []TypeOK
<1>1. TableInv => TypeOK
  BY DEF TableInv
<1> QED
  BY <1>1, TableInvariant, PTL

(***************************************************************************)
(* TreeUnlessStray holds in every state, for any number of proxies and any *)
(* arity: joins, crashes, leaves and repairs in whatever order keep the    *)
(* table of webserver.rs a tree with one parent per proxy and at most      *)
(* `branches' children, as long as every request fits the table.           *)
(***************************************************************************)
THEOREM TreeStaysTree == Spec => []TreeUnlessStray
<1>1. TableInv => TreeUnlessStray
  BY DEF TableInv
<1> QED
  BY <1>1, TableInvariant, PTL

-----------------------------------------------------------------------------
(***************************************************************************)
(* The children that a table lists for a proxy.                            *)
(***************************************************************************)
LEMMA KidsAt ==
  ASSUME NEW k, Table(k), Unique(k, DOMAIN k), NEW i \in DOMAIN k
  PROVE  \A x : x \in Kids(k, k[i].url) <=> Lists(k[i], x)
<1>1. \A x : Lists(k[i], x) => x \in Proxies
  BY ChildrenAre, TableFacts
<1> QED
  BY <1>1 DEF Kids, Unique

\* A tracked url is that of some entry.
LEMMA UrlsAt ==
  ASSUME NEW k, NEW u \in Urls(k)
  PROVE  \E i \in DOMAIN k : k[i].url = u
BY DEF Urls

\* Taking out an entry takes out its url and its children.
LEMMA WithoutKids ==
  ASSUME NEW k, Table(k), NEW c
  PROVE  /\ Urls(Without(k, c)) = Urls(k) \ {c}
         /\ \A u : u # c => Kids(Without(k, c), u) = Kids(k, u)
<1> DEFINE w == Without(k, c)
<1>1. PICK p \in [DOMAIN w -> {i \in DOMAIN k : k[i].url # c}] :
        /\ \A i, j \in DOMAIN w : i < j => p[i] < p[j]
        /\ \A i \in DOMAIN w : w[i] = k[p[i]]
        /\ \A j \in DOMAIN k : k[j].url # c => \E i \in DOMAIN w : p[i] = j
  BY WithoutIs, SMTT(30) DEF Table
<1> HIDE DEF w
<1>2. \A i \in DOMAIN w : p[i] \in DOMAIN k /\ k[p[i]].url # c /\ w[i] = k[p[i]]
  BY <1>1
<1>3. \A j \in DOMAIN k : k[j].url # c => \E i \in DOMAIN w : w[i] = k[j]
  BY <1>1, <1>2
<1>4. Urls(w) = Urls(k) \ {c}
  <2>1. ASSUME NEW u \in Urls(w) PROVE u \in Urls(k) \ {c}
    BY <1>2 DEF Urls
  <2>2. ASSUME NEW u \in Urls(k) \ {c} PROVE u \in Urls(w)
    <3>1. PICK j \in DOMAIN k : k[j].url = u
      BY UrlsAt
    <3>2. PICK i \in DOMAIN w : w[i] = k[j]
      BY <1>3, <3>1
    <3> QED
      BY <3>1, <3>2 DEF Urls
  <2> QED
    BY <2>1, <2>2
<1>5. ASSUME NEW u, u # c PROVE Kids(w, u) = Kids(k, u)
  <2>1. ASSUME NEW x \in Kids(w, u) PROVE x \in Kids(k, u)
    BY <1>2 DEF Kids
  <2>2. ASSUME NEW x \in Kids(k, u) PROVE x \in Kids(w, u)
    <3>1. PICK j \in DOMAIN k : k[j].url = u /\ Lists(k[j], x)
      BY DEF Kids
    <3>2. PICK i \in DOMAIN w : w[i] = k[j]
      BY <1>3, <1>5, <3>1
    <3> QED
      BY <3>1, <3>2 DEF Kids
  <2> QED
    BY <2>1, <2>2
<1> QED
  BY <1>4, <1>5 DEF w

\* In a tree the children are in the table, have one parent and are not the root.
LEMMA TreeKids ==
  ASSUME NEW k, Table(k), IsTree(k)
  PROVE  /\ Urls(k) \subseteq Nodes /\ Root \in Urls(k)
         /\ \A u, x : x \in Kids(k, u) => u \in Urls(k) /\ x \in Urls(k) /\ x \in Proxies /\ x # u
         /\ \A u, v, x : x \in Kids(k, u) /\ x \in Kids(k, v) => u = v
<1>0. TreeOn(k, DOMAIN k)
  BY TreeIs
<1>1. Urls(k) \subseteq Nodes /\ Root \in Urls(k)
  BY EntryTyped, TableFacts DEF Urls
<1>2. ASSUME NEW u, NEW x \in Kids(k, u)
      PROVE  u \in Urls(k) /\ x \in Urls(k) /\ x \in Proxies /\ x # u
  <2>1. PICK i \in DOMAIN k : k[i].url = u /\ Lists(k[i], x)
    BY DEF Kids
  <2>2. x \in Proxies
    BY DEF Kids
  <2>3. PICK j \in DOMAIN k : k[j].url = x /\ k[j].depth = k[i].depth + 1
    BY <1>0, <2>1, <2>2 DEF TreeOn, Listed
  <2>4. x # u
    <3>1. k[i].depth \in Nat
      BY EntryTyped, TableFacts
    <3>2. i # j
      BY <2>3, <3>1
    <3> QED
      BY <1>0, <2>1, <2>3, <3>2 DEF TreeOn, Unique
  <2> QED
    BY <2>1, <2>2, <2>3, <2>4 DEF Urls
<1>3. ASSUME NEW u, NEW v, NEW x, x \in Kids(k, u), x \in Kids(k, v) PROVE u = v
  <2>1. PICK i \in DOMAIN k : k[i].url = u /\ Lists(k[i], x)
    BY <1>3 DEF Kids
  <2>2. PICK j \in DOMAIN k : k[j].url = v /\ Lists(k[j], x)
    BY <1>3 DEF Kids
  <2>3. x \in Proxies
    BY <1>3 DEF Kids
  <2> QED
    BY <1>0, <2>1, <2>2, <2>3 DEF TreeOn, OneParent
<1> QED
  BY <1>1, <1>2, <1>3

\* handle_pivot adds one child.
LEMMA EnteredKids ==
  ASSUME NEW k, Table(k), IsTree(k), NEW n \in Proxies, n \notin Urls(k)
  PROVE  LET v == k[TargetNode(k)].url
             w == Entered(k, n)
         IN  /\ v \in Urls(k) /\ Urls(w) = Urls(k) \cup {n}
             /\ Kids(w, n) = {} /\ Kids(w, v) = Kids(k, v) \cup {n}
             /\ \A u \in Urls(k) : u # v => Kids(w, u) = Kids(k, u)
<1> DEFINE t == TargetPos(k)
           w == Entered(k, n)
           z == Len(k) + 1
           v == k[TargetNode(k)].url
           e == NewPivot(n, k[t].depth + 1)
<1>0. TreeOn(k, DOMAIN k) /\ IsTree(w)
  BY TreeIs, EnteredTree
<1>1. /\ t \in DOMAIN k /\ k[t].url = v
      /\ Table(w) /\ DOMAIN w = DOMAIN k \cup {z} /\ z \notin DOMAIN k
      /\ w[t] = MapTo(k[t], n) /\ w[z] = e
      /\ \A i \in DOMAIN k : i # t => w[i] = k[i]
  BY EnteredIs
<1>2. TreeOn(w, DOMAIN w)
  BY <1>0, <1>1, TreeIs
<1> HIDE DEF t, w, z, v
<1>3. k[t] \in Entries /\ k[t].depth + 1 \in Nat /\ n \in Nodes
  BY <1>1, EntryTyped, TableFacts DEF Nodes
<1>4. e.url = n /\ \A x : ~Lists(e, x)
  BY <1>3, NewPivotIs
<1>5. w[t].url = v /\ \A x : Lists(w[t], x) <=> Lists(k[t], x) \/ x = n
  BY <1>1, <1>3, MapToIs
<1> HIDE DEF e
<1>6. Unique(k, DOMAIN k) /\ Unique(w, DOMAIN w)
  BY <1>0, <1>2 DEF TreeOn
<1>7. v \in Urls(k) /\ Urls(w) = Urls(k) \cup {n}
  BY <1>1, <1>4, <1>5 DEF Urls
<1>8. Kids(w, n) = {}
  BY <1>1, <1>4, <1>6, KidsAt
<1>9. Kids(w, v) = Kids(k, v) \cup {n}
  BY <1>1, <1>5, <1>6, KidsAt
<1>10. ASSUME NEW u \in Urls(k), u # v PROVE Kids(w, u) = Kids(k, u)
  <2>1. PICK i \in DOMAIN k : k[i].url = u
    BY UrlsAt
  <2>2. w[i] = k[i] /\ i \in DOMAIN w
    BY <1>1, <1>10, <2>1
  <2>3. \A x : x \in Kids(w, u) <=> Lists(w[i], x)
    BY <1>1, <1>6, <2>1, <2>2, KidsAt
  <2>4. \A x : x \in Kids(k, u) <=> Lists(k[i], x)
    BY <1>6, <2>1, KidsAt
  <2> QED
    BY <2>2, <2>3, <2>4
<1> QED
  BY <1>7, <1>8, <1>9, <1>10 DEF v, w

(***************************************************************************)
(* What a repair does to the children: a child without children is dropped,*)
(* another one is replaced by a leaf, which is taken from its former       *)
(* parent and adopts the children that are left.                           *)
(***************************************************************************)
Dropped(k, p, c, rep) ==
  /\ rep.replacement = None /\ rep.former = None
  /\ \A u \in Urls(k) \ {c} : Kids(rep.known, u) = Kids(k, u) \ {c}

Replaced(k, p, c, rep) ==
  LET x == rep.replacement IN
  /\ x \in Urls(k) \ {c, p} /\ x \in Proxies /\ Kids(k, x) = {}
  /\ rep.former \in (Urls(k) \ {c, x}) \cup {None}
  /\ \A u \in Urls(k) \ {c} : u # rep.former => x \notin Kids(k, u)
  /\ Kids(rep.known, x) = Kids(k, c) \ {x}
  /\ Kids(rep.known, p) = (Kids(k, p) \ {c}) \cup {x}
  /\ \A u \in Urls(k) \ {c, p, x} : Kids(rep.known, u) = Kids(k, u) \ {x}
  /\ rep.adopted \in Seq(Proxies) /\ Len(rep.adopted) <= Branches
  /\ \A y : Has(rep.adopted, y) <=> y \in Kids(k, c) \ {x}

\* The position of a proxy whose child is known.
LEMMA KidPos ==
  ASSUME NEW k, Table(k), TreeOn(k, DOMAIN k), NEW p, NEW c \in Kids(k, p)
  PROVE  PosOf(k, p) \in DOMAIN k /\ PosOf(k, p) # 0 /\ k[PosOf(k, p)].url = p /\ Lists(k[PosOf(k, p)], c)
<1>1. PICK i \in DOMAIN k : k[i].url = p /\ Lists(k[i], c)
  BY DEF Kids
<1>2. PosOf(k, p) \in DOMAIN k /\ k[PosOf(k, p)].url = p
  BY <1>1, PosOfIs, TableFacts
<1>3. PosOf(k, p) = i
  BY <1>1, <1>2 DEF TreeOn, Unique
<1> QED
  BY <1>1, <1>2, <1>3, TableFacts

\* A proxy without children is removed: its parent loses it, and that is all.
LEMMA DroppedKids ==
  ASSUME NEW k, Table(k), TreeOn(k, DOMAIN k), NEW f \in DOMAIN k, NEW c \in Proxies,
         Lists(k[f], c)
  PROVE  LET v == Without(Cut(k, f, c), c)
         IN  /\ Urls(v) = Urls(k) \ {c}
             /\ \A u \in Urls(k) \ {c} : Kids(v, u) = Kids(k, u) \ {c}
<1> DEFINE w == Cut(k, f, c)
           v == Without(w, c)
<1>1. /\ Table(w) /\ DOMAIN w = DOMAIN k
      /\ \A i \in DOMAIN k : w[i].url = k[i].url
      /\ \A i \in DOMAIN k : \A x : Lists(w[i], x) <=> Lists(k[i], x) /\ ~(i = f /\ x = c)
  BY CutIs
<1> HIDE DEF w
<1>2. Unique(k, DOMAIN k) /\ Unique(w, DOMAIN w)
  BY <1>1 DEF TreeOn, Unique
<1>3. Urls(w) = Urls(k)
  BY <1>1 DEF Urls
<1>4. Urls(v) = Urls(k) \ {c} /\ \A u : u # c => Kids(v, u) = Kids(w, u)
  BY <1>1, <1>3, WithoutKids
<1> HIDE DEF v
<1>5. ASSUME NEW u \in Urls(k) \ {c} PROVE Kids(v, u) = Kids(k, u) \ {c}
  <2>1. PICK i \in DOMAIN k : k[i].url = u
    BY UrlsAt
  <2>2. \A x : x \in Kids(w, u) <=> Lists(w[i], x)
    BY <1>1, <1>2, <2>1, KidsAt
  <2>3. \A x : x \in Kids(k, u) <=> Lists(k[i], x)
    BY <1>2, <2>1, KidsAt
  <2>4. Lists(k[i], c) => i = f
    BY DEF TreeOn, OneParent
  <2>5. \A x : x \in Kids(w, u) <=> x \in Kids(k, u) /\ x # c
    BY <1>1, <2>2, <2>3, <2>4
  <2> QED
    BY <1>4, <2>5
<1> QED
  BY <1>4, <1>5 DEF v, w

\* A proxy with children is removed: its parent gets the replacement, which gets the
\* children in its turn.
LEMMA ReplacedKids ==
  ASSUME NEW k, Table(k), TreeOn(k, DOMAIN k), NEW f \in DOMAIN k, NEW c \in Proxies,
         Lists(k[f], c), Cut(k, f, c)[PosOf(Cut(k, f, c), c)].refcount # 0, NEW rep,
         LET w == Cut(k, f, c)
             t == PosOf(w, c)
             r == Deepest(w)
             p == Former(w, t, w[r].url)
         IN  /\ rep.known = Without(Stitched(w, f, t, r), c)
             /\ rep.replacement = w[r].url
             /\ rep.former = (IF p = 0 THEN None ELSE w[p].url)
             /\ rep.adopted = Adopted(w, t, w[r].url)
  PROVE  Urls(rep.known) = Urls(k) \ {c} /\ Replaced(k, k[f].url, c, rep)
<1> DEFINE w == Cut(k, f, c)
           t == PosOf(w, c)
           r == Deepest(w)
           s == Stitched(w, f, t, r)
           x == k[r].url
           p == Former(w, t, x)
           v == Without(s, c)
           b == Adopted(w, t, x)
<1>1. /\ t \in DOMAIN k /\ t # f /\ k[t].url = c /\ w[t] = k[t]
      /\ \A i \in DOMAIN k : k[i].url = c => i = t
  BY CutChild
<1>2. r \in DOMAIN k /\ r # t /\ r # f /\ w[r] = k[r] /\ x \in Proxies /\ x # c
  BY Replacement
<1>3. \A y : ~Lists(k[r], y)
  BY Replacement
<1>4. \/ p = 0 /\ Lists(k[t], x)
      \/ p \in DOMAIN k /\ p # t /\ p # r /\ Lists(k[p], x) /\ ~Lists(k[t], x)
  BY FormerIs
<1>5. /\ Table(s) /\ DOMAIN s = DOMAIN k
      /\ \A i \in DOMAIN k : s[i].url = k[i].url /\ (i # r => s[i].depth = k[i].depth)
      /\ s[r].depth = k[f].depth + 1
      /\ \A y : Lists(s[r], y) <=> Lists(k[t], y) /\ y # x
      /\ \A i \in DOMAIN k : \A y : i # r /\ i # t =>
           (Lists(s[i], y) <=> \/ Lists(k[i], y) /\ ~(i = f /\ y = c) /\ y # x
                               \/ i = f /\ y = x)
  <2>1. StitchedTo(s, k, f, c, t, r)
    BY StitchedLists
  <2> HIDE DEF w, t, r, s
  <2> QED
    BY <2>1 DEF StitchedTo
<1>6. \A i \in DOMAIN k : w[i].url = k[i].url
  BY CutIs
<1>7. w[r].url = x
  BY <1>2
<1>8. /\ rep.known = v /\ rep.replacement = x /\ rep.adopted = b
      /\ rep.former = (IF p = 0 THEN None ELSE w[p].url)
  <2> HIDE DEF w, t, r, x
  <2> QED
    BY <1>7 DEF w, t, r
<1>9. b = Retain(k[t].child, {x})
  BY <1>1 DEF Adopted
<1> HIDE DEF w, t, r, s, x, p, b
<1>10. Unique(k, DOMAIN k) /\ Unique(s, DOMAIN s)
  BY <1>5 DEF TreeOn, Unique
<1>11. Urls(s) = Urls(k)
  BY <1>5 DEF Urls
<1>12. Urls(v) = Urls(k) \ {c} /\ \A u : u # c => Kids(v, u) = Kids(s, u)
  BY <1>5, <1>11, WithoutKids
<1> HIDE DEF v
<1>13. ASSUME NEW i \in DOMAIN k
       PROVE  /\ \A y : y \in Kids(k, k[i].url) <=> Lists(k[i], y)
              /\ i # t => \A y : y \in Kids(v, k[i].url) <=> Lists(s[i], y)
              /\ k[i].url \in Urls(k) /\ (i # t => k[i].url # c)
  <2>1. \A y : y \in Kids(k, k[i].url) <=> Lists(k[i], y)
    BY <1>10, KidsAt
  <2>2. \A y : y \in Kids(s, k[i].url) <=> Lists(s[i], y)
    BY <1>5, <1>10, KidsAt
  <2>3. k[i].url \in Urls(k) /\ (i # t => k[i].url # c)
    BY <1>1 DEF Urls
  <2> QED
    BY <1>12, <2>1, <2>2, <2>3
<1> DEFINE o == k[f].url
<1>14. o # x /\ o # c
  BY <1>1, <1>2, <1>10 DEF Unique, x
<1>15. x \in Urls(k) /\ Kids(k, x) = {}
  BY <1>2, <1>3, <1>13 DEF x
<1>16. rep.former \in (Urls(k) \ {c, x}) \cup {None}
  <2>1. CASE p = 0
    BY <1>8, <2>1
  <2>2. CASE p # 0
    <3>1. rep.former = k[p].url /\ p \in DOMAIN k /\ p # t /\ p # r
      BY <1>4, <1>6, <1>8, <2>2
    <3>2. k[p].url # x /\ k[p].url # c
      BY <1>1, <1>2, <1>10, <3>1 DEF Unique, x
    <3> QED
      BY <1>13, <3>1, <3>2
  <2> QED
    BY <2>1, <2>2
<1>17. ASSUME NEW u \in Urls(k) \ {c}, u # rep.former PROVE x \notin Kids(k, u)
  <2> SUFFICES ASSUME x \in Kids(k, u) PROVE FALSE
    OBVIOUS
  <2>1. PICK i \in DOMAIN k : k[i].url = u
    BY UrlsAt
  <2>2. i # t /\ Lists(k[i], x)
    BY <1>1, <1>13, <1>17, <2>1
  <2>3. i = p /\ p # 0
    <3>1. \A l \in DOMAIN k : Lists(k[l], x) => l = i
      BY <1>2, <2>2 DEF TreeOn, OneParent
    <3> QED
      BY <1>1, <1>4, <2>2, <3>1, TableFacts
  <2>4. rep.former = k[p].url
    BY <1>6, <1>8, <2>3
  <2> QED
    BY <1>17, <2>1, <2>3, <2>4
<1>18. Kids(v, x) = Kids(k, c) \ {x}
  <2>1. \A y : y \in Kids(v, x) <=> Lists(s[r], y)
    BY <1>2, <1>13 DEF x
  <2>2. \A y : y \in Kids(k, c) <=> Lists(k[t], y)
    BY <1>1, <1>13
  <2> QED
    BY <1>5, <2>1, <2>2
<1>19. Kids(v, o) = (Kids(k, o) \ {c}) \cup {x}
  <2>1. \A y : (y \in Kids(v, o) <=> Lists(s[f], y)) /\ (y \in Kids(k, o) <=> Lists(k[f], y))
    BY <1>1, <1>13
  <2>2. \A y : Lists(s[f], y) <=> (Lists(k[f], y) /\ y # c /\ y # x) \/ y = x
    BY <1>1, <1>2, <1>5
  <2> HIDE DEF o
  <2> QED
    BY <2>1, <2>2, <1>2
<1>20. ASSUME NEW u \in Urls(k) \ {c, o, x} PROVE Kids(v, u) = Kids(k, u) \ {x}
  <2>1. PICK i \in DOMAIN k : k[i].url = u
    BY UrlsAt
  <2>2. i # t /\ i # f /\ i # r
    BY <1>1, <2>1 DEF x
  <2>3. \A y : (y \in Kids(v, u) <=> Lists(s[i], y)) /\ (y \in Kids(k, u) <=> Lists(k[i], y))
    BY <1>13, <2>1, <2>2
  <2>4. \A y : Lists(s[i], y) <=> Lists(k[i], y) /\ y # x
    BY <1>5, <2>2
  <2> QED
    BY <2>3, <2>4
<1>21. b \in Seq(Proxies) /\ Len(b) <= Branches /\ \A y : Has(b, y) <=> y \in Kids(k, c) \ {x}
  <2>1. k[t].child \in Seq(Proxies) /\ Distinct(k[t].child) /\ Len(k[t].child) <= Branches
    BY <1>1, EntryTyped, TableFacts DEF TreeOn, Counted
  <2>2. b \in Seq(Proxies) /\ \A y : Has(b, y) <=> Has(k[t].child, y) /\ y # x
    BY <1>9, <2>1, RetainHas
  <2>3. Len(b) = Len(k[t].child) - 1 \/ Len(b) = Len(k[t].child)
    BY <1>9, <2>1, RetainOne
  <2>4. Len(b) \in Nat /\ Len(k[t].child) \in Nat
    BY <2>1, <2>2
  <2>5. Len(b) <= Branches
    BY <2>1, <2>3, <2>4, BoundsAssumption
  <2>6. \A y : y \in Kids(k, c) <=> Lists(k[t], y)
    BY <1>1, <1>13
  <2> QED
    BY <2>2, <2>5, <2>6, ListsHas
<1> HIDE DEF o
<1>22. Replaced(k, o, c, rep)
  BY <1>2, <1>8, <1>14, <1>15, <1>16, <1>17, <1>18, <1>19, <1>20, <1>21 DEF Replaced
<1> QED
  BY <1>8, <1>12, <1>22 DEF o

\* A repair for a listed child does one or the other.
LEMMA RepairKids ==
  ASSUME NEW k, Table(k), IsTree(k), NEW p, NEW c \in Kids(k, p)
  PROVE  LET rep == Repair(k, p, c)
         IN  /\ Urls(rep.known) = Urls(k) \ {c}
             /\ Dropped(k, p, c, rep) \/ Replaced(k, p, c, rep)
<1> DEFINE f == PosOf(k, p)
           w == Cut(k, f, c)
           t == PosOf(w, c)
           r == Deepest(w)
           rep == Repair(k, p, c)
<1>0. TreeOn(k, DOMAIN k) /\ c \in Proxies
  BY TreeIs DEF Kids
<1>1. f \in DOMAIN k /\ f # 0 /\ k[f].url = p /\ Lists(k[f], c)
  BY <1>0, KidPos
<1>2. t \in DOMAIN k
  <2> HIDE DEF f
  <2> QED
    BY <1>0, <1>1, CutChild
<1>3. t # 0
  BY <1>2, TableFacts
<1>4. CASE w[t].refcount = 0
  <2>1. rep = NoRepair(Without(w, c))
    BY <1>1, <1>4, RepairCases
  <2>2. rep.known = Without(w, c) /\ rep.replacement = None /\ rep.former = None
    <3> HIDE DEF rep, w
    <3> QED
      BY <2>1, NoRepairIs
  <2>3. /\ Urls(Without(w, c)) = Urls(k) \ {c}
        /\ \A u \in Urls(k) \ {c} : Kids(Without(w, c), u) = Kids(k, u) \ {c}
    <3> HIDE DEF f
    <3> QED
      BY <1>0, <1>1, DroppedKids
  <2> HIDE DEF rep, w
  <2> QED
    BY <2>2, <2>3 DEF Dropped, rep
<1>5. CASE w[t].refcount # 0
  <2>1. /\ rep.known = Without(Stitched(w, f, t, r), c)
        /\ rep.replacement = w[r].url
        /\ rep.former = (IF Former(w, t, w[r].url) = 0 THEN None ELSE w[Former(w, t, w[r].url)].url)
        /\ rep.adopted = Adopted(w, t, w[r].url)
    BY <1>1, <1>3, <1>5, RepairCases
  <2> HIDE DEF rep
  <2>2. Urls(rep.known) = Urls(k) \ {c} /\ Replaced(k, k[f].url, c, rep)
    <3> HIDE DEF f
    <3> QED
      BY <1>0, <1>1, <1>5, <2>1, ReplacedKids
  <2> QED
    BY <1>1, <2>2 DEF rep
<1> QED
  BY <1>4, <1>5

-----------------------------------------------------------------------------
(***************************************************************************)
(* The scrapers.  What arrives of a list is part of it, and what does not  *)
(* arrive was cut off.                                                     *)
(***************************************************************************)
LEMMA ReachedSome ==
  ASSUME NEW s \in Seq(Proxies)
  PROVE  \A y : y \in Reached(s) => Has(s, y)
<1> DEFINE to == GetParam(s)
<1>1. CASE s = <<>>
  <2>1. DOMAIN to = {}
    BY <1>1 DEF GetParam
  <2> QED
    BY <2>1 DEF Reached
<1>2. CASE s # <<>>
  <2>1. to = SubSeq(s, 1, 1) /\ Len(s) >= 1 /\ 1 \in DOMAIN s
    BY <1>2 DEF GetParam
  <2>2. DOMAIN to = {1} /\ to[1] = s[1]
    BY <2>1
  <2>3. \A y \in Reached(s) : \E i \in DOMAIN to : y = to[i]
    BY DEF Reached
  <2> HIDE DEF to
  <2> QED
    BY <2>1, <2>2, <2>3 DEF Has
<1> QED
  BY <1>1, <1>2

\* When the proxies of a list are up, one that it names is reached or cut off.
LEMMA ReachedOrCut ==
  ASSUME NEW s \in Seq(Proxies), \A y : Has(s, y) => Up(y), NEW y, Has(s, y)
  PROVE  y \in Reached(s) \cup CutOff(s)
<1> DEFINE to == GetParam(s)
<1>1. PICK i \in DOMAIN s : s[i] = y
  BY DEF Has
<1>2. to = SubSeq(s, 1, 1) /\ Len(s) >= 1 /\ s # <<>>
  BY <1>1 DEF GetParam
<1>3. DOMAIN to = {1} /\ to[1] = s[1]
  BY <1>2
<1>4. CASE i = 1
  <2>1. Up(to[1])
    BY <1>1, <1>3, <1>4
  <2>2. Reached(s) = {to[l] : l \in {j \in DOMAIN to : \A l \in 1 .. j : Up(to[l])}}
    BY DEF Reached
  <2> HIDE DEF to
  <2>3. 1 \in {j \in DOMAIN to : \A l \in 1 .. j : Up(to[l])}
    BY <1>3, <2>1
  <2> QED
    BY <1>1, <1>3, <1>4, <2>2, <2>3
<1>5. CASE i # 1
  <2>1. i \in DOMAIN s \ DOMAIN GetParam(s)
    BY <1>1, <1>3, <1>5
  <2> QED
    BY <1>1, <2>1 DEF CutOff
<1> QED
  BY <1>4, <1>5

\* The scrapers z after a repair of the table k that found them at s.
RewiredTo(z, s, k, p, c, rep) ==
  LET x == rep.replacement IN
  /\ IsTree(rep.known) /\ Urls(rep.known) = Urls(k) \ {c}
  /\ \A u \in Urls(k) \ {c} :
       Matches(z[u], IF u = p THEN Kids(rep.known, u) \ {x} ELSE Kids(rep.known, u),
               cut \cup CutOff(rep.adopted))
  /\ \A n \in Nodes : n = c \/ n \notin Urls(k) => z[n] = s[n]
  /\ x = None \/ (x \in Kids(rep.known, p) /\ x \in Urls(k) \ {c})

\* That is what they are when nobody but the removed proxy is down.
LEMMA RewiredKids ==
  ASSUME NEW k, Table(k), IsTree(k), NEW p, NEW c \in Kids(k, p),
         NEW s \in [Nodes -> SUBSET Proxies],
         \A u \in Urls(k) \ {c} : Up(u),
         Matches(s[p], Kids(k, p) \ {c}, cut),
         \A u \in Urls(k) \ {c, p} : Matches(s[u], Kids(k, u), cut)
  PROVE  RewiredTo(Rewired(s, Repair(k, p, c)), s, k, p, c, Repair(k, p, c))
<1> DEFINE rep == Repair(k, p, c)
           x == rep.replacement
<1>0. TreeOn(k, DOMAIN k) /\ c \in Proxies
  BY TreeIs DEF Kids
<1>1. IsTree(rep.known)
  <2>1. Lists(k[PosOf(k, p)], c)
    BY <1>0, KidPos
  <2> QED
    BY <1>0, <2>1, RepairTree
<1>2. Urls(rep.known) = Urls(k) \ {c} /\ (Dropped(k, p, c, rep) \/ Replaced(k, p, c, rep))
  BY RepairKids
<1>3. /\ Urls(k) \subseteq Nodes /\ p \in Urls(k) /\ p # c /\ None \notin Nodes
      /\ \A u, v, y : y \in Kids(k, u) /\ y \in Kids(k, v) => u = v
      /\ \A u, y : y \in Kids(k, u) => y \in Urls(k) /\ y # u
  BY TreeKids, RootIsNode
<1> HIDE DEF rep
<1>4. \A n \in Nodes : Rewired(s, rep)[n] =
        IF ~Up(n) THEN s[n]
        ELSE (IF n = rep.former THEN s[n] \ {x} ELSE s[n])
               \cup (IF n = x THEN Reached(rep.adopted) ELSE {})
  BY DEF Rewired
<1>5. CASE Dropped(k, p, c, rep)
  <2>1. x = None /\ rep.former = None /\ \A u \in Urls(k) \ {c} : Kids(rep.known, u) = Kids(k, u) \ {c}
    BY <1>5 DEF Dropped
  <2>2. ASSUME NEW n \in Nodes PROVE Rewired(s, rep)[n] = s[n]
    <3>1. n # rep.former /\ n # x
      BY <1>3, <2>1
    <3>2. Rewired(s, rep)[n] = IF ~Up(n) THEN s[n] ELSE s[n] \cup {}
      BY <1>4, <3>1
    <3> QED
      BY <3>2
  <2>3. ASSUME NEW u \in Urls(k) \ {c}
        PROVE  Matches(Rewired(s, rep)[u],
                       IF u = p THEN Kids(rep.known, u) \ {x} ELSE Kids(rep.known, u),
                       cut \cup CutOff(rep.adopted))
    <3>1. None \notin Kids(rep.known, u)
      BY RootIsNode DEF Kids
    <3> DEFINE K == Kids(rep.known, u)
    <3>2. CASE u = p
      <4>1. Rewired(s, rep)[u] = s[p] /\ K = Kids(k, p) \ {c} /\ K \ {x} = K
        BY <1>3, <2>1, <2>2, <3>1, <3>2
      <4> HIDE DEF K
      <4> QED
        BY <3>2, <4>1 DEF K, Matches
    <3>3. CASE u # p
      <4>1. c \notin Kids(k, u)
        BY <1>3, <3>3
      <4>2. K = Kids(k, u) /\ Rewired(s, rep)[u] = s[u]
        <5>1. K = Kids(k, u) \ {c}
          BY <2>1
        <5>2. u \in Nodes
          BY <1>3
        <5> QED
          BY <2>2, <4>1, <5>1, <5>2
      <4>3. Matches(s[u], Kids(k, u), cut)
        BY <3>3
      <4> QED
        BY <3>3, <4>2, <4>3 DEF Matches
    <3> QED
      BY <3>2, <3>3
  <2> QED
    BY <1>1, <1>2, <2>1, <2>2, <2>3 DEF rep, RewiredTo
<1>6. CASE Replaced(k, p, c, rep)
  <2>1. /\ x \in Urls(k) \ {c, p} /\ x \in Proxies /\ Kids(k, x) = {}
        /\ rep.former \in (Urls(k) \ {c, x}) \cup {None}
        /\ \A u \in Urls(k) \ {c} : u # rep.former => x \notin Kids(k, u)
        /\ Kids(rep.known, x) = Kids(k, c) \ {x}
        /\ Kids(rep.known, p) = (Kids(k, p) \ {c}) \cup {x}
        /\ \A u \in Urls(k) \ {c, p, x} : Kids(rep.known, u) = Kids(k, u) \ {x}
        /\ rep.adopted \in Seq(Proxies) /\ Len(rep.adopted) <= Branches
        /\ \A y : Has(rep.adopted, y) <=> y \in Kids(k, c) \ {x}
    BY <1>6 DEF Replaced
  <2>2. Matches(Reached(rep.adopted), Kids(k, c) \ {x}, cut \cup CutOff(rep.adopted))
    <3>1. \A y : Has(rep.adopted, y) => Up(y)
      BY <1>3, <2>1
    <3>2. Reached(rep.adopted) \subseteq Kids(k, c) \ {x}
      BY <2>1, ReachedSome
    <3>3. \A y : Has(rep.adopted, y) => y \in Reached(rep.adopted) \cup CutOff(rep.adopted)
      BY <2>1, <3>1, ReachedOrCut
    <3> QED
      BY <2>1, <3>2, <3>3 DEF Matches
  <2> HIDE DEF x
  <2>3. ASSUME NEW n \in Nodes, n = c \/ n \notin Urls(k) PROVE Rewired(s, rep)[n] = s[n]
    <3>1. n # rep.former /\ n # x
      BY <1>3, <2>1, <2>3
    <3>2. Rewired(s, rep)[n] = IF ~Up(n) THEN s[n] ELSE s[n] \cup {}
      BY <1>4, <3>1
    <3> QED
      BY <3>2
  <2>4. ASSUME NEW u \in Urls(k) \ {c}
        PROVE  Matches(Rewired(s, rep)[u],
                       IF u = p THEN Kids(rep.known, u) \ {x} ELSE Kids(rep.known, u),
                       cut \cup CutOff(rep.adopted))
    <3>1. Rewired(s, rep)[u] = (IF u = rep.former THEN s[u] \ {x} ELSE s[u])
               \cup (IF u = x THEN Reached(rep.adopted) ELSE {})
      BY <1>3, <1>4
    <3>2. CASE u = x
      <4>1. s[u] = {} /\ u # rep.former /\ u # p
        BY <1>3, <2>1, <3>2 DEF Matches
      <4>2. Rewired(s, rep)[u] = Reached(rep.adopted)
        BY <3>1, <3>2, <4>1
      <4> QED
        BY <2>1, <2>2, <3>2, <4>1, <4>2
    <3>3. CASE u = p
      <4>1. Rewired(s, rep)[u] = IF u = rep.former THEN s[u] \ {x} ELSE s[u]
        BY <2>1, <3>1, <3>3
      <4>2. x \notin Kids(k, p) \/ p = rep.former
        BY <1>3, <2>1
      <4>3. Kids(rep.known, p) \ {x} = Kids(k, p) \ {c, x}
        BY <2>1
      <4> QED
        BY <3>3, <4>1, <4>2, <4>3 DEF Matches
    <3>4. CASE u # p /\ u # x
      <4>1. Rewired(s, rep)[u] = IF u = rep.former THEN s[u] \ {x} ELSE s[u]
        BY <2>1, <3>1, <3>4
      <4>2. x \notin Kids(k, u) \/ u = rep.former
        BY <2>1
      <4>3. Kids(rep.known, u) = Kids(k, u) \ {x} /\ Matches(s[u], Kids(k, u), cut)
        BY <2>1, <3>4
      <4> QED
        BY <3>4, <4>1, <4>2, <4>3 DEF Matches
    <3> QED
      BY <3>2, <3>3, <3>4
  <2> QED
    BY <1>1, <1>2, <2>1, <2>3, <2>4 DEF rep, x, RewiredTo
<1> QED
  BY <1>2, <1>5, <1>6

-----------------------------------------------------------------------------
(***************************************************************************)
(* CalmInv, action by action.                                              *)
(***************************************************************************)
CalmRest == proc[Root] = "member" /\ OneTrouble /\ JoinsInTable /\ UnderWay /\ ScrapesListed

\* The invariant, as what is said of the table and of the rest.
LEMMA CalmIs == CalmInv <=> Table(known) /\ IsTree(known) /\ RestTyped /\ CalmRest
BY DEF CalmInv, CalmRest, TypeOK, RestTyped, Table, Lifes

\* The same, in the next state.
LEMMA CalmIsPrimed == CalmInv' <=> (Table(known) /\ IsTree(known) /\ RestTyped /\ CalmRest)'
BY DEF CalmInv, CalmRest, TypeOK, RestTyped, Table, Lifes

\* What most steps use of the invariant.
LEMMA CalmTyped ==
  ASSUME CalmInv
  PROVE  /\ TableInv /\ Table(known) /\ IsTree(known) /\ CalmRest
         /\ Tracked = Urls(known) /\ Tracked \subseteq Nodes /\ Root \in Tracked
         /\ proc \in [Nodes -> Lifes] /\ pivot \in [Proxies -> Nodes \cup {None}]
         /\ scrapes \in [Nodes -> SUBSET Proxies] /\ wiring \in [Nodes -> SUBSET Proxies]
         /\ leaving \subseteq Proxies \X Nodes
<1>1. Table(known) /\ IsTree(known) /\ RestTyped /\ CalmRest
  BY CalmIs
<1>2. TableInv
  BY <1>1, TableInvIs DEF TableOK, TreeUnlessStray
<1>3. Tracked = Urls(known) /\ Tracked \subseteq Nodes /\ Root \in Tracked
  BY <1>1, TreeKids DEF Tracked
<1> QED
  BY <1>1, <1>2, <1>3 DEF RestTyped

\* While a proxy joins everything else is in order.
LEMMA JoiningQuiet ==
  ASSUME CalmInv, NEW n \in Proxies, proc[n] \in {"starting", "pivoted"}
  PROVE  /\ \A u \in Tracked : Up(u)
         /\ \A m \in Nodes : wiring[m] = {}
         /\ leaving = {}
<1>1. OneTrouble
  BY CalmTyped DEF CalmRest
<1>2. Joining # {}
  BY DEF Joining
<1>3. Lost = {} /\ Unwired = {} /\ leaving = {}
  BY <1>1, <1>2 DEF OneTrouble
<1> QED
  BY <1>3 DEF Lost, Unwired

\* Without joins and requests under way the scrapers match the table.
LEMMA QuietScrapes ==
  ASSUME CalmInv, Joining = {}, Unwired = {}, leaving = {}
  PROVE  \A u \in Tracked : Up(u) => Matches(scrapes[u], Kids(known, u), cut)
<1> SUFFICES ASSUME NEW u \in Tracked, Up(u) PROVE Matches(scrapes[u], Kids(known, u), cut)
  OBVIOUS
<1>1. ScrapesListed /\ u \in Nodes
  BY CalmTyped DEF CalmRest
<1> DEFINE T == {c \in Kids(known, u) :
                   proc[c] # "pivoted" /\ c \notin wiring[u] /\ <<c, u>> \notin leaving}
<1>2. Matches(scrapes[u], T, cut)
  BY <1>1 DEF ScrapesListed, Lost
<1>3. wiring[u] = {}
  BY <1>1 DEF Unwired
<1>4. \A c \in Kids(known, u) : proc[c] # "pivoted"
  BY DEF Joining, Kids
<1>5. T = Kids(known, u)
  BY <1>3, <1>4
<1> QED
  BY <1>2, <1>5

\* A proxy that is up scrapes only children that the table lists for it.
LEMMA ScrapedListed ==
  ASSUME CalmInv, NEW u \in Tracked, Up(u), NEW c \in scrapes[u]
  PROVE  c \in Kids(known, u) /\ c \in Tracked
<1>1. ScrapesListed
  BY CalmTyped DEF CalmRest
<1>2. c \in Kids(known, u)
  BY <1>1 DEF ScrapesListed, Lost, Matches
<1> QED
  BY <1>2, CalmTyped, TreeKids

\* Once the tree has settled there is no trouble of any kind.
LEMMA SettledQuiet ==
  ASSUME CalmInv, Settled
  PROVE  /\ Joining = {} /\ Lost = {} /\ Unwired = {} /\ leaving = {}
         /\ \A u \in Tracked : Up(u) /\ Matches(scrapes[u], Kids(known, u), cut)
         /\ \A n \in Nodes : Up(n) => proc[n] = "member"
         /\ \A n \in Proxies : ~Up(n) => n \notin Tracked
<1>1. proc[Root] = "member" /\ Tracked \subseteq Nodes
  BY CalmTyped DEF CalmRest
<1>2. \A n \in Nodes : proc[n] = "member" \/ (~Up(n) /\ n \notin Tracked)
  BY <1>1 DEF Settled, Nodes
<1>3. Joining = {}
  BY DEF Settled, Joining, Up
<1>4. \A u \in Tracked : Up(u)
  BY <1>1, <1>2 DEF Up
<1>5. Lost = {} /\ Unwired = {} /\ leaving = {}
  BY <1>4 DEF Lost, Unwired, Settled
<1>6. \A u \in Tracked : Matches(scrapes[u], Kids(known, u), cut)
  BY <1>3, <1>4, <1>5, QuietScrapes
<1>7. \A n \in Proxies : ~Up(n) => n \notin Tracked
  BY <1>4
<1> QED
  BY <1>2, <1>3, <1>4, <1>5, <1>6, <1>7

\* Nobody has joined yet.
LEMMA InitCalm == Init => CalmInv
<1> SUFFICES ASSUME Init PROVE CalmInv
  OBVIOUS
<1>1. TableInv
  BY InitTable
<1>2. Table(known) /\ IsTree(known) /\ RestTyped
  BY <1>1, TableInvIs DEF TableOK, TreeUnlessStray, Init
<1> DEFINE e == NewPivot(Root, 0)
<1>3. e.url = Root /\ \A x : ~Lists(e, x)
  BY NewPivotIs, RootIsNode
<1> HIDE DEF e
<1>4. DOMAIN known = {1} /\ known[1] = e
  BY DEF Init, e
<1>5. Tracked = {Root} /\ \A u : Kids(known, u) = {}
  BY <1>3, <1>4 DEF Tracked, Urls, Kids
<1>6. proc[Root] = "member" /\ \A n \in Proxies : proc[n] = "starting"
  BY RootIsNode DEF Init
<1>7. /\ \A n \in Nodes : scrapes[n] = {} /\ wiring[n] = {}
      /\ leaving = {}
  BY DEF Init
<1>8. Lost = {} /\ Unwired = {}
  BY <1>5, <1>6, <1>7 DEF Lost, Unwired, Up
<1>9. OneTrouble
  BY <1>7, <1>8 DEF OneTrouble
<1>10. JoinsInTable
  BY <1>5, <1>6, <1>7, RootIsNode DEF JoinsInTable, Up
<1>11. UnderWay
  BY <1>7 DEF UnderWay
<1>12. ScrapesListed
  BY <1>5, <1>7, RootIsNode DEF ScrapesListed, Matches
<1> QED
  BY <1>2, <1>6, <1>9, <1>10, <1>11, <1>12, CalmIs DEF CalmRest

\* A new proxy is entered: the root lists it, nobody scrapes it yet.
LEMMA PivotCalm ==
  ASSUME CalmInv, NEW n \in Proxies, Pivot(n)
  PROVE  IsTree(known') /\ CalmRest'
<1> DEFINE v == known[TargetNode(known)].url
<1>1. /\ Table(known) /\ IsTree(known) /\ Tracked = Urls(known) /\ Tracked \subseteq Nodes
      /\ proc \in [Nodes -> Lifes] /\ pivot \in [Proxies -> Nodes \cup {None}]
      /\ proc[Root] = "member" /\ JoinsInTable /\ ScrapesListed
  BY CalmTyped DEF CalmRest
<1>2. /\ proc[n] = "starting" /\ known' = Entered(known, n)
      /\ pivot' = [pivot EXCEPT ![n] = v] /\ proc' = [proc EXCEPT ![n] = "pivoted"]
      /\ UNCHANGED <<scrapes, wiring, leaving, cut>>
  BY DEF Pivot, Enter, Entered, TargetPos
<1>3. (\A u \in Tracked : Up(u)) /\ (\A m \in Nodes : wiring[m] = {}) /\ leaving = {}
  BY <1>2, JoiningQuiet
<1>4. n \notin Tracked /\ scrapes[n] = {}
  BY <1>1, <1>2 DEF JoinsInTable
<1>5. IsTree(known')
  BY <1>1, <1>2, <1>4, EnteredTree
<1>6. /\ v \in Tracked /\ Urls(known') = Tracked \cup {n}
      /\ Kids(known', n) = {} /\ Kids(known', v) = Kids(known, v) \cup {n}
      /\ \A u \in Tracked : u # v => Kids(known', u) = Kids(known, u)
  BY <1>1, <1>2, <1>4, EnteredKids
<1> HIDE DEF v
<1>7. Tracked' = Tracked \cup {n}
  BY <1>6 DEF Tracked
<1>8. /\ \A m \in Nodes : m # n => proc'[m] = proc[m] /\ (Up(m)' <=> Up(m))
      /\ proc'[n] = "pivoted" /\ Up(n)' /\ n \in Nodes /\ n # Root
  BY <1>1, <1>2, RootIsNode DEF Up
<1>9. Lost' = {} /\ Unwired' = {} /\ leaving' = {}
  <2>1. \A u \in Tracked' : Up(u)'
    BY <1>1, <1>3, <1>7, <1>8
  <2> QED
    BY <1>2, <1>3, <2>1 DEF Lost, Unwired
<1>10. OneTrouble'
  BY <1>9 DEF OneTrouble
<1>11. JoinsInTable'
  <2> SUFFICES ASSUME NEW m \in Proxies
               PROVE  /\ proc'[m] = "starting" => m \notin Tracked' /\ scrapes'[m] = {}
                      /\ proc'[m] = "pivoted" => pivot'[m] \in Tracked' /\ m \in Kids(known', pivot'[m])
                      /\ ~Up(m)' => scrapes'[m] = {}
    BY DEF JoinsInTable
  <2>1. CASE m = n
    <3>1. pivot'[n] = v
      BY <1>1, <1>2
    <3> QED
      BY <1>6, <1>7, <1>8, <2>1, <3>1
  <2>2. CASE m # n
    <3>1. m \in Nodes /\ pivot'[m] = pivot[m] /\ scrapes'[m] = scrapes[m]
      BY <1>1, <1>2, <2>2, RootIsNode
    <3>2. /\ proc[m] = "starting" => m \notin Tracked /\ scrapes[m] = {}
          /\ proc[m] = "pivoted" => pivot[m] \in Tracked /\ m \in Kids(known, pivot[m])
          /\ ~Up(m) => scrapes[m] = {}
      BY <1>1 DEF JoinsInTable
    <3>3. \A u \in Tracked : m \in Kids(known, u) => m \in Kids(known', u)
      BY <1>6
    <3> QED
      BY <1>7, <1>8, <2>2, <3>1, <3>2, <3>3
  <2> QED
    BY <2>1, <2>2
<1>12. UnderWay'
  BY <1>2, <1>3, <1>9 DEF UnderWay
<1>13. ScrapesListed'
  <2> SUFFICES ASSUME NEW u \in Tracked' \ Lost'
               PROVE  Matches(scrapes'[u], {c \in Kids(known', u) :
                         /\ proc'[c] # "pivoted" /\ c \notin wiring'[u]
                         /\ <<c, u>> \notin leaving'}, cut)
    BY <1>2 DEF ScrapesListed
  <2> DEFINE T == {c \in Kids(known', u) :
                     /\ proc'[c] # "pivoted" /\ c \notin wiring'[u] /\ <<c, u>> \notin leaving'}
  <2>1. u \in Nodes /\ wiring'[u] = {} /\ leaving' = {}
    BY <1>1, <1>2, <1>3, <1>7, <1>8
  <2>2. CASE u = n
    BY <1>2, <1>4, <1>6, <2>2 DEF Matches
  <2>3. CASE u # n
    <3> DEFINE S == {c \in Kids(known, u) :
                       proc[c] # "pivoted" /\ c \notin wiring[u] /\ <<c, u>> \notin leaving}
    <3>1. u \in Tracked /\ u \notin Lost
      BY <1>3, <1>7, <2>3 DEF Lost
    <3>2. Matches(scrapes[u], S, cut)
      BY <1>1, <3>1 DEF ScrapesListed
    <3>3. \A c \in Kids(known, u) : c \in Nodes /\ c # n
      BY <1>1, <1>4, RootIsNode, TreeKids
    <3>4. \A c \in Kids(known, u) : proc'[c] = proc[c]
      BY <1>8, <3>3
    <3>5. \A c : c \in Kids(known', u) => c \in Kids(known, u) \/ c = n
      BY <1>6, <3>1
    <3>6. \A c \in Kids(known, u) : c \in Kids(known', u)
      BY <1>6, <3>1
    <3>7. scrapes'[u] = scrapes[u] /\ wiring[u] = {} /\ leaving = {}
      BY <1>2, <1>3, <2>1
    <3>8. S = T
      BY <1>8, <2>1, <3>4, <3>5, <3>6, <3>7
    <3> QED
      BY <3>2, <3>7, <3>8
  <2> QED
    BY <2>2, <2>3
<1>14. proc'[Root] = "member"
  BY <1>1, <1>8, RootIsNode
<1> QED
  BY <1>5, <1>10, <1>11, <1>12, <1>13, <1>14 DEF CalmRest

\* It registers at its parent, which is up: from now on that one scrapes it.
LEMMA JoinCalm ==
  ASSUME CalmInv, NEW n \in Proxies, Join(n)
  PROVE  IsTree(known') /\ CalmRest'
<1> DEFINE v == pivot[n]
<1>1. /\ Table(known) /\ IsTree(known) /\ Tracked = Urls(known) /\ Tracked \subseteq Nodes
      /\ proc \in [Nodes -> Lifes] /\ pivot \in [Proxies -> Nodes \cup {None}]
      /\ scrapes \in [Nodes -> SUBSET Proxies] /\ wiring \in [Nodes -> SUBSET Proxies]
      /\ proc[Root] = "member" /\ JoinsInTable /\ ScrapesListed
  BY CalmTyped DEF CalmRest
<1>2. proc[n] = "pivoted"
  BY DEF Join
<1>3. (\A u \in Tracked : Up(u)) /\ (\A m \in Nodes : wiring[m] = {}) /\ leaving = {}
  BY <1>2, JoiningQuiet
<1>4. v \in Tracked /\ n \in Kids(known, v) /\ Up(v)
  BY <1>1, <1>2, <1>3 DEF JoinsInTable
<1>5. n # v /\ n \in Nodes /\ v \in Nodes /\ n # Root /\ Root \in Nodes
  BY <1>1, <1>4, TreeKids, RootIsNode
<1>6. /\ proc' = [proc EXCEPT ![n] = "member"] /\ pivot' = [pivot EXCEPT ![n] = None]
      /\ scrapes' = [scrapes EXCEPT ![v] = @ \cup {n}, ![n] = @]
      /\ wiring' = [wiring EXCEPT ![n] = @] /\ UNCHANGED <<known, leaving, cut>>
  BY <1>4 DEF Join
<1> HIDE DEF v
<1>7. /\ scrapes'[v] = scrapes[v] \cup {n}
      /\ \A m \in Nodes : m # v => scrapes'[m] = scrapes[m]
      /\ \A m \in Nodes : wiring'[m] = {} /\ leaving' = {}
  BY <1>1, <1>3, <1>5, <1>6
<1>8. /\ proc'[n] = "member" /\ Up(n)' /\ Tracked' = Tracked
      /\ \A m \in Nodes : m # n => proc'[m] = proc[m] /\ (Up(m)' <=> Up(m))
  BY <1>1, <1>5, <1>6 DEF Up, Tracked
<1>9. Lost' = {} /\ Unwired' = {} /\ leaving' = {}
  <2>1. \A u \in Tracked' : Up(u)'
    BY <1>1, <1>3, <1>8
  <2> QED
    BY <1>3, <1>6, <1>7, <2>1 DEF Lost, Unwired
<1>10. OneTrouble'
  BY <1>9 DEF OneTrouble
<1>11. JoinsInTable'
  <2> SUFFICES ASSUME NEW m \in Proxies
               PROVE  /\ proc'[m] = "starting" => m \notin Tracked' /\ scrapes'[m] = {}
                      /\ proc'[m] = "pivoted" => pivot'[m] \in Tracked' /\ m \in Kids(known', pivot'[m])
                      /\ ~Up(m)' => scrapes'[m] = {}
    BY DEF JoinsInTable
  <2>1. CASE m = n
    BY <1>8, <2>1
  <2>2. CASE m # n
    <3>1. m \in Nodes /\ pivot'[m] = pivot[m] /\ known' = known
      BY <1>1, <1>6, <2>2, RootIsNode
    <3>2. /\ proc[m] = "starting" => m \notin Tracked /\ scrapes[m] = {}
          /\ proc[m] = "pivoted" => pivot[m] \in Tracked /\ m \in Kids(known, pivot[m])
          /\ ~Up(m) => scrapes[m] = {}
      BY <1>1 DEF JoinsInTable
    <3> QED
      BY <1>4, <1>7, <1>8, <2>2, <3>1, <3>2
  <2> QED
    BY <2>1, <2>2
<1>12. UnderWay'
  BY <1>7, <1>9 DEF UnderWay
<1>13. ScrapesListed'
  <2> SUFFICES ASSUME NEW u \in Tracked' \ Lost'
               PROVE  Matches(scrapes'[u], {c \in Kids(known', u) :
                         /\ proc'[c] # "pivoted" /\ c \notin wiring'[u]
                         /\ <<c, u>> \notin leaving'}, cut)
    BY <1>6 DEF ScrapesListed
  <2> DEFINE T == {c \in Kids(known', u) :
                     /\ proc'[c] # "pivoted" /\ c \notin wiring'[u] /\ <<c, u>> \notin leaving'}
  <2>1. u \in Tracked /\ u \in Nodes /\ wiring'[u] = {} /\ wiring[u] = {} /\ leaving' = {}
    BY <1>1, <1>3, <1>7, <1>8, <1>9
  <2>2. Matches(scrapes[u], {c \in Kids(known, u) :
                  proc[c] # "pivoted" /\ c \notin wiring[u] /\ <<c, u>> \notin leaving}, cut)
    BY <1>1, <1>3, <2>1 DEF ScrapesListed, Lost
  <2>3. \A c \in Kids(known, u) : c \in Nodes
    BY RootIsNode DEF Kids
  <2>4. \A c \in Kids(known, u) : c # n => proc'[c] = proc[c]
    BY <1>8, <2>3
  <2> DEFINE K == Kids(known, u)
             S == {c \in K : proc[c] # "pivoted"}
             Z == {c \in K : proc'[c] # "pivoted"}
  <2>a. Matches(scrapes[u], S, cut)
    <3>1. {c \in K : proc[c] # "pivoted" /\ c \notin wiring[u] /\ <<c, u>> \notin leaving} = S
      BY <1>3, <2>1
    <3> QED
      BY <2>2, <3>1
  <2>b. T = Z
    BY <1>6, <2>1
  <2> HIDE DEF K
  <2>5. CASE u = v
    <3>1. n \in K /\ scrapes'[u] = scrapes[u] \cup {n}
      BY <1>4, <1>7, <2>5 DEF K
    <3>2. \A c : c \in Z <=> c \in S \/ c = n
      BY <1>8, <2>4, <3>1 DEF K
    <3>3. Z = S \cup {n}
      BY <3>2
    <3>4. Matches(scrapes'[u], Z, cut)
      <4> HIDE DEF S, Z
      <4> QED
        BY <2>a, <3>1, <3>3 DEF Matches
    <3> QED
      BY <2>b, <3>4
  <2>6. CASE u # v
    <3>1. n \notin K
      BY <1>1, <1>4, <2>6, TreeKids DEF K
    <3>2. scrapes'[u] = scrapes[u]
      BY <1>7, <2>1, <2>6
    <3>3. Z = S
      BY <2>4, <3>1 DEF K
    <3> QED
      BY <2>a, <2>b, <3>2, <3>3
  <2> QED
    BY <2>5, <2>6
<1>14. proc'[Root] = "member"
  BY <1>1, <1>5, <1>8
<1> QED
  BY <1>1, <1>6, <1>10, <1>11, <1>12, <1>13, <1>14 DEF CalmRest

\* A process stops in a settled tree, or a stopped one starts again.
LEMMA StopCalm ==
  ASSUME CalmInv, Settled, NEW n \in Proxies, NEW how \in {"down", "terminated"}, Stop(n, how)
  PROVE  IsTree(known') /\ CalmRest'
<1>1. /\ IsTree(known) /\ Tracked = Urls(known) /\ Tracked \subseteq Nodes
      /\ proc \in [Nodes -> Lifes] /\ scrapes \in [Nodes -> SUBSET Proxies]
      /\ wiring \in [Nodes -> SUBSET Proxies]
      /\ proc[Root] = "member" /\ JoinsInTable
  BY CalmTyped DEF CalmRest
<1>2. /\ Joining = {} /\ Unwired = {} /\ leaving = {}
      /\ \A u \in Tracked : Up(u) /\ Matches(scrapes[u], Kids(known, u), cut)
  BY SettledQuiet
<1>3. n \in Nodes /\ n # Root /\ Root \in Nodes
  BY RootIsNode
<1>4. /\ proc' = [proc EXCEPT ![n] = how] /\ scrapes' = [scrapes EXCEPT ![n] = {}]
      /\ wiring' = [wiring EXCEPT ![n] = {}] /\ UNCHANGED <<known, leaving, cut>>
  BY DEF Stop
<1>5. /\ proc'[n] = how /\ ~Up(n)' /\ scrapes'[n] = {} /\ Tracked' = Tracked
      /\ \A m \in Nodes : m # n => /\ proc'[m] = proc[m] /\ (Up(m)' <=> Up(m))
                                   /\ scrapes'[m] = scrapes[m]
  BY <1>1, <1>3, <1>4 DEF Up, Tracked
<1>6. \A m \in Nodes : wiring'[m] = {}
  BY <1>1, <1>2, <1>3, <1>4 DEF Unwired
<1>7. \A m \in Proxies : proc'[m] \notin {"starting", "pivoted"}
  BY <1>2, <1>5, RootIsNode DEF Joining
<1>8. Joining' = {} /\ Unwired' = {} /\ leaving' = {} /\ Lost' \subseteq {n}
  <2>1. \A u \in Tracked' : u # n => Up(u)'
    BY <1>1, <1>2, <1>5
  <2> QED
    BY <1>2, <1>4, <1>6, <1>7, <2>1 DEF Joining, Unwired, Lost
<1>9. OneTrouble'
  BY <1>8 DEF OneTrouble
<1>10. JoinsInTable'
  <2> SUFFICES ASSUME NEW m \in Proxies, ~Up(m)' PROVE scrapes'[m] = {}
    BY <1>7 DEF JoinsInTable
  <2> QED
    BY <1>1, <1>5, RootIsNode DEF JoinsInTable
<1>11. UnderWay'
  BY <1>6, <1>8 DEF UnderWay
<1>12. ScrapesListed'
  <2> SUFFICES ASSUME NEW u \in Tracked' \ Lost'
               PROVE  Matches(scrapes'[u], {c \in Kids(known', u) :
                         /\ proc'[c] # "pivoted" /\ c \notin wiring'[u]
                         /\ <<c, u>> \notin leaving'}, cut)
    BY <1>4 DEF ScrapesListed
  <2> DEFINE T == {c \in Kids(known', u) :
                     /\ proc'[c] # "pivoted" /\ c \notin wiring'[u] /\ <<c, u>> \notin leaving'}
  <2>1. u # n /\ u \in Tracked /\ u \in Nodes
    BY <1>1, <1>5 DEF Lost
  <2>2. Matches(scrapes'[u], Kids(known', u), cut) /\ wiring'[u] = {} /\ leaving' = {}
    BY <1>2, <1>4, <1>5, <1>6, <1>8, <2>1
  <2>3. \A c \in Kids(known', u) : proc'[c] # "pivoted"
    BY <1>7 DEF Kids
  <2>4. T = Kids(known', u)
    BY <2>2, <2>3
  <2> QED
    BY <2>2, <2>4
<1>13. proc'[Root] = "member"
  BY <1>1, <1>3, <1>5
<1> QED
  BY <1>1, <1>4, <1>9, <1>10, <1>11, <1>12, <1>13 DEF CalmRest

\* A proxy that starts again was removed from the table before.
LEMMA RestartCalm ==
  ASSUME CalmInv, Settled, NEW n \in Proxies, Restart(n)
  PROVE  IsTree(known') /\ CalmRest'
<1>1. /\ IsTree(known) /\ Tracked = Urls(known) /\ Tracked \subseteq Nodes
      /\ proc \in [Nodes -> Lifes] /\ proc[Root] = "member" /\ JoinsInTable
  BY CalmTyped DEF CalmRest
<1>2. /\ Joining = {} /\ Unwired = {} /\ leaving = {}
      /\ \A u \in Tracked : Up(u) /\ Matches(scrapes[u], Kids(known, u), cut)
      /\ \A m \in Proxies : ~Up(m) => m \notin Tracked
  BY SettledQuiet
<1>3. n \in Nodes /\ n # Root /\ Root \in Nodes
  BY RootIsNode
<1>4. /\ ~Up(n) /\ proc' = [proc EXCEPT ![n] = "starting"]
      /\ UNCHANGED <<known, scrapes, wiring, leaving, cut>>
  BY DEF Restart
<1>5. /\ proc'[n] = "starting" /\ Up(n)' /\ Tracked' = Tracked /\ n \notin Tracked
      /\ \A m \in Nodes : m # n => proc'[m] = proc[m] /\ (Up(m)' <=> Up(m))
  BY <1>1, <1>2, <1>3, <1>4 DEF Up, Tracked
<1>6. \A m \in Nodes : wiring'[m] = {}
  BY <1>2, <1>4 DEF Unwired
<1>7. \A m \in Proxies : proc'[m] # "pivoted"
  BY <1>2, <1>5, RootIsNode DEF Joining
<1>8. Unwired' = {} /\ leaving' = {} /\ Lost' = {}
  <2>1. \A u \in Tracked' : Up(u)'
    BY <1>1, <1>2, <1>5
  <2> QED
    BY <1>2, <1>4, <1>6, <2>1 DEF Unwired, Lost
<1>9. OneTrouble'
  BY <1>8 DEF OneTrouble
<1>10. JoinsInTable'
  <2> SUFFICES ASSUME NEW m \in Proxies
               PROVE  /\ proc'[m] = "starting" => m \notin Tracked' /\ scrapes'[m] = {}
                      /\ ~Up(m)' => scrapes'[m] = {}
    BY <1>7 DEF JoinsInTable
  <2>1. /\ proc[m] = "starting" => m \notin Tracked /\ scrapes[m] = {}
        /\ ~Up(m) => scrapes[m] = {}
    BY <1>1 DEF JoinsInTable
  <2>2. m \in Nodes /\ scrapes'[m] = scrapes[m]
    BY <1>4, RootIsNode
  <2> QED
    BY <1>4, <1>5, <2>1, <2>2
<1>11. UnderWay'
  BY <1>6, <1>8 DEF UnderWay
<1>12. ScrapesListed'
  <2> SUFFICES ASSUME NEW u \in Tracked' \ Lost'
               PROVE  Matches(scrapes'[u], {c \in Kids(known', u) :
                         /\ proc'[c] # "pivoted" /\ c \notin wiring'[u]
                         /\ <<c, u>> \notin leaving'}, cut)
    BY <1>4 DEF ScrapesListed
  <2> DEFINE T == {c \in Kids(known', u) :
                     /\ proc'[c] # "pivoted" /\ c \notin wiring'[u] /\ <<c, u>> \notin leaving'}
  <2>1. u \in Tracked /\ u \in Nodes
    BY <1>1, <1>5
  <2>2. Matches(scrapes'[u], Kids(known', u), cut) /\ wiring'[u] = {} /\ leaving' = {}
    BY <1>2, <1>4, <1>6, <1>8, <2>1
  <2>3. \A c \in Kids(known', u) : proc'[c] # "pivoted"
    BY <1>7 DEF Kids
  <2>4. T = Kids(known', u)
    BY <2>2, <2>3
  <2> QED
    BY <2>2, <2>4
<1>13. proc'[Root] = "member"
  BY <1>1, <1>3, <1>5
<1> QED
  BY <1>1, <1>4, <1>9, <1>10, <1>11, <1>12, <1>13 DEF CalmRest

\* A proxy that the table does not hold gives up a scraper: the root repairs nothing.
LEMMA NoRewire ==
  ASSUME NEW k, Table(k), NEW p, p \notin Urls(k), NEW c, NEW s \in [Nodes -> SUBSET Proxies]
  PROVE  /\ Repair(k, p, c) = NoRepair(k)
         /\ Repair(k, p, c).known = k /\ Repair(k, p, c).replacement = None
         /\ Rewired(s, Repair(k, p, c)) = s
<1> DEFINE rep == Repair(k, p, c)
<1>1. PosOf(k, p) = 0
  BY PosOfIs, TableFacts DEF Urls
<1>2. rep = NoRepair(k)
  BY <1>1, RepairCases
<1> HIDE DEF rep
<1>3. rep.known = k /\ rep.replacement = None /\ rep.former = None
  BY <1>2, NoRepairIs
<1>4. Rewired(s, rep) = [n \in Nodes |->
     IF ~Up(n) THEN s[n]
     ELSE (IF n = rep.former THEN s[n] \ {rep.replacement} ELSE s[n])
            \cup (IF n = rep.replacement THEN Reached(rep.adopted) ELSE {})]
  BY DEF Rewired
<1>5. \A n \in Nodes : Rewired(s, rep)[n] = s[n]
  <2> SUFFICES ASSUME NEW n \in Nodes PROVE Rewired(s, rep)[n] = s[n]
    OBVIOUS
  <2>1. n # rep.former /\ n # rep.replacement
    BY <1>3, RootIsNode
  <2>2. Rewired(s, rep)[n] = IF ~Up(n) THEN s[n] ELSE s[n] \cup {}
    BY <1>4, <2>1
  <2> QED
    BY <2>2
<1>6. Rewired(s, rep) = s
  <2> DEFINE z == Rewired(s, rep)
  <2>1. z = [n \in Nodes |-> z[n]]
    BY <1>4
  <2> HIDE DEF z
  <2> QED
    BY <1>5, <2>1 DEF z
<1> QED
  BY <1>2, <1>3, <1>6 DEF rep

\* What a proxy outside the table drops concerns nobody.
LEMMA UntrackedCalm ==
  ASSUME CalmInv, NEW p \in Nodes, p \notin Tracked, NEW c,
         scrapes' = [scrapes EXCEPT ![p] = @ \ {c}],
         UNCHANGED <<known, proc, pivot, wiring, leaving>>, cut \subseteq cut'
  PROVE  IsTree(known') /\ CalmRest'
<1>1. /\ IsTree(known) /\ scrapes \in [Nodes -> SUBSET Proxies] /\ Tracked \subseteq Nodes
      /\ proc[Root] = "member" /\ OneTrouble /\ JoinsInTable /\ UnderWay /\ ScrapesListed
  BY CalmTyped DEF CalmRest
<1>2. /\ \A m \in Nodes : scrapes[m] = {} => scrapes'[m] = {}
      /\ \A m \in Nodes : m # p => scrapes'[m] = scrapes[m]
  BY <1>1
<1>3. Tracked' = Tracked /\ Lost' = Lost /\ Joining' = Joining /\ Unwired' = Unwired
  BY DEF Tracked, Lost, Joining, Unwired, Up
<1>4. OneTrouble'
  BY <1>1, <1>3 DEF OneTrouble
<1>5. UnderWay'
  <2>1. \A m : Up(m)' <=> Up(m)
    BY DEF Up
  <2> QED
    BY <1>1, <1>3, <2>1 DEF UnderWay
<1>6. JoinsInTable'
  <2> SUFFICES ASSUME NEW m \in Proxies
               PROVE  /\ proc'[m] = "starting" => m \notin Tracked' /\ scrapes'[m] = {}
                      /\ proc'[m] = "pivoted" => pivot'[m] \in Tracked' /\ m \in Kids(known', pivot'[m])
                      /\ ~Up(m)' => scrapes'[m] = {}
    BY DEF JoinsInTable
  <2>1. /\ proc[m] = "starting" => m \notin Tracked /\ scrapes[m] = {}
        /\ proc[m] = "pivoted" => pivot[m] \in Tracked /\ m \in Kids(known, pivot[m])
        /\ ~Up(m) => scrapes[m] = {}
    BY <1>1 DEF JoinsInTable
  <2>2. m \in Nodes /\ (Up(m)' <=> Up(m))
    BY RootIsNode DEF Up
  <2> QED
    BY <1>2, <1>3, <2>1, <2>2
<1>7. ScrapesListed'
  <2>1. \A u \in Tracked \ Lost : scrapes'[u] = scrapes[u]
    BY <1>1, <1>2
  <2> QED
    BY <1>1, <1>3, <2>1 DEF ScrapesListed, Matches
<1> QED
  BY <1>1, <1>4, <1>5, <1>6, <1>7 DEF CalmRest

\* A repair while the removed proxy is the only trouble.
LEMMA RemoveCalm ==
  ASSUME CalmInv, NEW p \in Tracked, Up(p), NEW c \in scrapes[p], Remove(p, c),
         Joining = {}, Unwired = {}, leaving = {}, \A u \in Tracked \ {c} : Up(u)
  PROVE  IsTree(known') /\ CalmRest'
<1> DEFINE rep == Repair(known, p, c)
           x == rep.replacement
           s == [scrapes EXCEPT ![p] = @ \ {c}]
<1>1. /\ Table(known) /\ IsTree(known) /\ Tracked = Urls(known) /\ Tracked \subseteq Nodes
      /\ proc \in [Nodes -> Lifes] /\ scrapes \in [Nodes -> SUBSET Proxies]
      /\ wiring \in [Nodes -> SUBSET Proxies]
      /\ proc[Root] = "member" /\ JoinsInTable
  BY CalmTyped DEF CalmRest
<1>2. \A u \in Tracked : Up(u) => Matches(scrapes[u], Kids(known, u), cut)
  BY QuietScrapes
<1>3. c \in Kids(known, p) /\ p # c /\ c \in Proxies
  <2>1. c \in Kids(known, p)
    BY <1>2 DEF Matches
  <2> QED
    BY <1>1, <2>1, TreeKids
<1>4. /\ s \in [Nodes -> SUBSET Proxies] /\ Matches(s[p], Kids(known, p) \ {c}, cut)
      /\ \A m \in Nodes : m # p => s[m] = scrapes[m]
  <2>1. /\ s \in [Nodes -> SUBSET Proxies] /\ s[p] = scrapes[p] \ {c}
        /\ \A m \in Nodes : m # p => s[m] = scrapes[m]
    BY <1>1
  <2>2. Matches(scrapes[p], Kids(known, p), cut)
    BY <1>2
  <2> QED
    BY <2>1, <2>2 DEF Matches
<1>5. \A u \in Tracked \ {c, p} : Matches(s[u], Kids(known, u), cut)
  BY <1>1, <1>2, <1>4
<1>6. /\ IsTree(rep.known) /\ Urls(rep.known) = Tracked \ {c}
      /\ \A u \in Tracked \ {c} :
           Matches(Rewired(s, rep)[u],
                   IF u = p THEN Kids(rep.known, u) \ {x} ELSE Kids(rep.known, u),
                   cut \cup CutOff(rep.adopted))
      /\ \A n \in Nodes : n = c \/ n \notin Tracked => Rewired(s, rep)[n] = s[n]
      /\ x = None \/ (x \in Kids(rep.known, p) /\ x \in Tracked \ {c})
  <2> HIDE DEF s
  <2>1. RewiredTo(Rewired(s, rep), s, known, p, c, rep)
    BY <1>1, <1>3, <1>4, <1>5, RewiredKids
  <2> HIDE DEF rep
  <2> QED
    BY <1>1, <2>1 DEF RewiredTo
<1>7. /\ known' = rep.known /\ scrapes' = Rewired(s, rep)
      /\ wiring' = IF x = None THEN wiring ELSE [wiring EXCEPT ![p] = @ \cup {x}]
      /\ cut' = cut \cup CutOff(rep.adopted) /\ UNCHANGED <<proc, leaving>>
  BY DEF Remove
<1> HIDE DEF rep, x, s
<1>8. IsTree(known') /\ Tracked' = Tracked \ {c} /\ \A m : Up(m)' <=> Up(m)
  BY <1>6, <1>7 DEF Tracked, Up
<1>9. /\ \A m \in Nodes : m # p => wiring'[m] = {}
      /\ wiring'[p] = IF x = None THEN {} ELSE {x}
  <2>1. \A m \in Nodes : wiring[m] = {}
    BY DEF Unwired
  <2> QED
    BY <1>1, <1>7, <2>1
<1>10. \A m \in Proxies : proc'[m] \notin {"starting", "pivoted"}
  BY <1>7 DEF Joining
<1>11. Joining' = {} /\ Lost' = {} /\ leaving' = {}
  BY <1>7, <1>8, <1>10 DEF Joining, Lost
<1>12. OneTrouble'
  BY <1>11 DEF OneTrouble
<1>13. JoinsInTable'
  <2> SUFFICES ASSUME NEW m \in Proxies, ~Up(m)' PROVE scrapes'[m] = {}
    BY <1>10 DEF JoinsInTable
  <2>1. ~Up(m) /\ m \in Nodes /\ scrapes[m] = {} /\ m # p
    BY <1>1, <1>8, RootIsNode DEF JoinsInTable
  <2>2. m = c \/ m \notin Tracked
    BY <2>1
  <2> QED
    BY <1>4, <1>6, <1>7, <2>1, <2>2
<1>14. UnderWay'
  <2> SUFFICES ASSUME NEW m \in Nodes, wiring'[m] # {}
               PROVE  m \in Tracked' /\ wiring'[m] \subseteq {d \in Kids(known', m) : Up(d)'}
    BY <1>11 DEF UnderWay
  <2>1. m = p /\ x # None /\ wiring'[m] = {x}
    BY <1>9
  <2>2. PICK y : y = x
    OBVIOUS
  <2>3. Up(y) /\ y \in Kids(known', p)
    BY <1>6, <1>7, <2>1, <2>2
  <2>4. Up(y)' /\ p \in Tracked'
    BY <1>3, <1>8, <2>3
  <2> QED
    BY <2>1, <2>2, <2>3, <2>4
<1>15. ScrapesListed'
  <2> SUFFICES ASSUME NEW u \in Tracked' \ Lost'
               PROVE  Matches(scrapes'[u], {d \in Kids(known', u) :
                         /\ proc'[d] # "pivoted" /\ d \notin wiring'[u]
                         /\ <<d, u>> \notin leaving'}, cut')
    BY DEF ScrapesListed
  <2> DEFINE T == {d \in Kids(known', u) :
                     /\ proc'[d] # "pivoted" /\ d \notin wiring'[u] /\ <<d, u>> \notin leaving'}
  <2>1. u \in Tracked \ {c} /\ u \in Nodes
    BY <1>1, <1>8
  <2>2. Matches(scrapes'[u], IF u = p THEN Kids(known', u) \ {x} ELSE Kids(known', u), cut')
    BY <1>6, <1>7, <2>1
  <2>3. \A d \in Kids(known', u) : proc'[d] # "pivoted" /\ d # None
    BY <1>10, RootIsNode DEF Kids
  <2>4. CASE u = p
    <3>1. T = Kids(known', u) \ {x}
      BY <1>9, <1>11, <2>3, <2>4
    <3> QED
      BY <2>2, <2>4, <3>1
  <2>5. CASE u # p
    <3>1. T = Kids(known', u)
      BY <1>9, <1>11, <2>1, <2>3, <2>5
    <3> QED
      BY <2>2, <2>5, <3>1
  <2> QED
    BY <2>4, <2>5
<1>16. proc'[Root] = "member"
  BY <1>1, <1>7
<1> QED
  BY <1>8, <1>12, <1>13, <1>14, <1>15, <1>16 DEF CalmRest

\* The parent joins the replacement, which is up.
LEMMA WireCalm ==
  ASSUME CalmInv, NEW p \in Nodes, NEW r \in Proxies, Wire(p, r)
  PROVE  IsTree(known') /\ CalmRest'
<1>1. /\ IsTree(known) /\ Tracked = Urls(known) /\ Tracked \subseteq Nodes
      /\ scrapes \in [Nodes -> SUBSET Proxies] /\ wiring \in [Nodes -> SUBSET Proxies]
      /\ proc[Root] = "member" /\ OneTrouble /\ JoinsInTable /\ UnderWay /\ ScrapesListed
  BY CalmTyped DEF CalmRest
<1>2. /\ Up(p) /\ r \in wiring[p] /\ wiring' = [wiring EXCEPT ![p] = @ \ {r}]
      /\ UNCHANGED <<known, proc, leaving, cut>>
  BY DEF Wire
<1>3. p \in Unwired
  BY <1>2 DEF Unwired
<1>4. Joining = {} /\ Lost = {} /\ leaving = {}
  BY <1>1, <1>3 DEF OneTrouble
<1>5. r \in Kids(known, p) /\ Up(r)
  BY <1>1, <1>2 DEF UnderWay
<1>6. scrapes' = [scrapes EXCEPT ![p] = @ \cup {r}]
  BY <1>5 DEF Wire
<1>7. Tracked' = Tracked /\ \A m : Up(m)' <=> Up(m)
  BY <1>2 DEF Tracked, Up
<1>8. Joining' = {} /\ Lost' = {} /\ leaving' = {}
  BY <1>2, <1>4, <1>7 DEF Joining, Lost
<1>9. OneTrouble'
  BY <1>8 DEF OneTrouble
<1>10. \A m \in Proxies : proc'[m] \notin {"starting", "pivoted"}
  BY <1>8 DEF Joining
<1>11. JoinsInTable'
  <2> SUFFICES ASSUME NEW m \in Proxies, ~Up(m)' PROVE scrapes'[m] = {}
    BY <1>10 DEF JoinsInTable
  <2>1. ~Up(m) /\ m \in Nodes /\ scrapes[m] = {} /\ m # p
    BY <1>1, <1>2, <1>7, RootIsNode DEF JoinsInTable
  <2> QED
    BY <1>1, <1>6, <2>1
<1>12. UnderWay'
  <2> SUFFICES ASSUME NEW m \in Nodes, wiring'[m] # {}
               PROVE  m \in Tracked' /\ wiring'[m] \subseteq {d \in Kids(known', m) : Up(d)'}
    BY <1>8 DEF UnderWay
  <2>1. wiring'[m] \subseteq wiring[m] /\ wiring[m] # {}
    BY <1>1, <1>2
  <2>2. m \in Tracked /\ wiring[m] \subseteq {d \in Kids(known, m) : Up(d)}
    BY <1>1, <2>1 DEF UnderWay
  <2>3. known' = known
    BY <1>2
  <2> QED
    BY <1>7, <2>1, <2>2, <2>3
<1>13. ScrapesListed'
  <2> SUFFICES ASSUME NEW u \in Tracked' \ Lost'
               PROVE  Matches(scrapes'[u], {d \in Kids(known', u) :
                         /\ proc'[d] # "pivoted" /\ d \notin wiring'[u]
                         /\ <<d, u>> \notin leaving'}, cut)
    BY <1>2 DEF ScrapesListed
  <2> DEFINE T == {d \in Kids(known', u) :
                     /\ proc'[d] # "pivoted" /\ d \notin wiring'[u] /\ <<d, u>> \notin leaving'}
  <2>1. u \in Tracked /\ u \in Nodes
    BY <1>1, <1>7
  <2> DEFINE S == {d \in Kids(known, u) :
                     proc[d] # "pivoted" /\ d \notin wiring[u] /\ <<d, u>> \notin leaving}
  <2>2. Matches(scrapes[u], S, cut)
    BY <1>1, <1>4, <2>1 DEF ScrapesListed
  <2>3. \A d \in Kids(known, u) : proc[d] # "pivoted"
    BY <1>4 DEF Joining, Kids
  <2>4. S = {d \in Kids(known, u) : d \notin wiring[u]}
    BY <1>4, <2>3
  <2>5. T = {d \in Kids(known, u) : d \notin wiring'[u]}
    BY <1>2, <1>8, <2>3
  <2> HIDE DEF S, T
  <2>6. CASE u = p
    <3>1. wiring'[u] = wiring[u] \ {r} /\ scrapes'[u] = scrapes[u] \cup {r}
      BY <1>1, <1>2, <1>6, <2>6
    <3>2. T = S \cup {r}
      BY <1>5, <2>4, <2>5, <2>6, <3>1
    <3>3. Matches(scrapes'[u], T, cut)
      BY <2>2, <3>1, <3>2 DEF Matches
    <3> QED
      BY <3>3 DEF T
  <2>7. CASE u # p
    <3>1. wiring'[u] = wiring[u] /\ scrapes'[u] = scrapes[u]
      BY <1>1, <1>2, <1>6, <2>1, <2>7
    <3>2. T = S
      BY <2>4, <2>5, <3>1
    <3> QED
      BY <2>2, <3>1, <3>2 DEF T
  <2> QED
    BY <2>6, <2>7
<1>14. proc'[Root] = "member"
  BY <1>1, <1>2
<1> QED
  BY <1>1, <1>2, <1>9, <1>11, <1>12, <1>13, <1>14 DEF CalmRest

\* A proxy asks to leave: its parent drops it before the table does.
LEMMA BeginLeaveCalm ==
  ASSUME CalmInv, Settled, NEW n \in Proxies, BeginLeave(n)
  PROVE  IsTree(known') /\ CalmRest'
<1> DEFINE i == ParentOf(known, n)
           v == known[i].url
<1>1. /\ Table(known) /\ IsTree(known) /\ Tracked = Urls(known) /\ Tracked \subseteq Nodes
      /\ scrapes \in [Nodes -> SUBSET Proxies] /\ proc[Root] = "member" /\ JoinsInTable
  BY CalmTyped DEF CalmRest
<1>2. /\ Joining = {} /\ Lost = {} /\ Unwired = {} /\ leaving = {}
      /\ \A u \in Tracked : Up(u) /\ Matches(scrapes[u], Kids(known, u), cut)
  BY SettledQuiet
<1>3. /\ i # 0 /\ leaving' = leaving \cup {<<n, v>>}
      /\ scrapes' = [scrapes EXCEPT ![v] = @ \ {n}]
      /\ UNCHANGED <<known, proc, wiring, cut>>
  BY DEF BeginLeave, ParentOf
<1>4. i \in DOMAIN known /\ Lists(known[i], n)
  BY <1>1, <1>3, ParentOfIs, TableFacts
<1>5. n \in Kids(known, v) /\ v \in Tracked
  <2> HIDE DEF i
  <2> QED
    BY <1>1, <1>4 DEF Kids, Urls
<1> HIDE DEF v
<1>6. PICK w : w = v
  OBVIOUS
<1>7. leaving' = {<<n, w>>} /\ n \in Kids(known', w) /\ w \in Tracked /\ w \in Nodes
  BY <1>1, <1>2, <1>3, <1>5, <1>6
<1>8. scrapes'[w] = scrapes[w] \ {n} /\ \A m \in Nodes : m # w => scrapes'[m] = scrapes[m]
  BY <1>1, <1>3, <1>6, <1>7
<1>9. Tracked' = Tracked /\ \A m : Up(m)' <=> Up(m)
  BY <1>3 DEF Tracked, Up
<1>10. Joining' = {} /\ Lost' = {} /\ Unwired' = {}
  BY <1>2, <1>3, <1>9 DEF Joining, Lost, Unwired
<1>11. OneTrouble'
  BY <1>7, <1>10 DEF OneTrouble
<1>12. \A m \in Proxies : proc'[m] \notin {"starting", "pivoted"}
  BY <1>10 DEF Joining
<1>13. \A m \in Nodes : wiring'[m] = {}
  BY <1>10 DEF Unwired
<1>14. JoinsInTable'
  <2> SUFFICES ASSUME NEW m \in Proxies, ~Up(m)' PROVE scrapes'[m] = {}
    BY <1>12 DEF JoinsInTable
  <2>1. ~Up(m) /\ m \in Nodes /\ scrapes[m] = {}
    BY <1>1, <1>9, RootIsNode DEF JoinsInTable
  <2> QED
    BY <1>8, <2>1
<1>15. UnderWay'
  BY <1>7, <1>9, <1>13 DEF UnderWay
<1>16. ScrapesListed'
  <2> SUFFICES ASSUME NEW u \in Tracked' \ Lost'
               PROVE  Matches(scrapes'[u], {d \in Kids(known', u) :
                         /\ proc'[d] # "pivoted" /\ d \notin wiring'[u]
                         /\ <<d, u>> \notin leaving'}, cut)
    BY <1>3 DEF ScrapesListed
  <2> DEFINE T == {d \in Kids(known', u) :
                     /\ proc'[d] # "pivoted" /\ d \notin wiring'[u] /\ <<d, u>> \notin leaving'}
  <2>1. u \in Tracked /\ u \in Nodes /\ Matches(scrapes[u], Kids(known', u), cut) /\ wiring'[u] = {}
    BY <1>1, <1>2, <1>3, <1>9, <1>13
  <2>2. \A d \in Kids(known', u) : proc'[d] # "pivoted"
    BY <1>12 DEF Kids
  <2>3. CASE u = w
    <3>1. \A d : <<d, u>> \in leaving' <=> d = n
      BY <1>7, <2>3
    <3>2. T = Kids(known', u) \ {n}
      BY <2>1, <2>2, <3>1
    <3>3. scrapes'[u] = scrapes[u] \ {n}
      BY <1>8, <2>3
    <3>4. Matches(scrapes'[u], Kids(known', u) \ {n}, cut)
      BY <2>1, <3>3 DEF Matches
    <3> QED
      BY <3>2, <3>4
  <2>4. CASE u # w
    <3>1. \A d : <<d, u>> \notin leaving'
      BY <1>7, <2>4
    <3>2. T = Kids(known', u)
      BY <2>1, <2>2, <3>1
    <3>3. scrapes'[u] = scrapes[u]
      BY <1>8, <2>1, <2>4
    <3> QED
      BY <2>1, <3>2, <3>3
  <2> QED
    BY <2>3, <2>4
<1>17. proc'[Root] = "member"
  BY <1>1, <1>3
<1> QED
  BY <1>1, <1>3, <1>11, <1>14, <1>15, <1>16, <1>17 DEF CalmRest

\* The root repairs the table, the parent joins the replacement.
LEMMA EndLeaveCalm ==
  ASSUME CalmInv, NEW p \in Nodes, NEW n \in Proxies, EndLeave(n, p)
  PROVE  IsTree(known') /\ CalmRest'
<1> DEFINE rep == Repair(known, p, n)
           x == rep.replacement
           z == Rewired(scrapes, rep)
<1>1. /\ Table(known) /\ IsTree(known) /\ Tracked = Urls(known) /\ Tracked \subseteq Nodes
      /\ scrapes \in [Nodes -> SUBSET Proxies]
      /\ proc[Root] = "member" /\ OneTrouble /\ JoinsInTable /\ UnderWay /\ ScrapesListed
  BY CalmTyped DEF CalmRest
<1>2. /\ <<n, p>> \in leaving /\ leaving' = leaving \ {<<n, p>>} /\ known' = rep.known
      /\ scrapes' = IF x # None /\ Up(p) /\ Up(x) THEN [z EXCEPT ![p] = @ \cup {x}] ELSE z
      /\ cut' = cut \cup CutOff(rep.adopted) /\ UNCHANGED <<proc, wiring>>
  BY DEF EndLeave
<1>3. leaving = {<<n, p>>} /\ Joining = {} /\ Lost = {} /\ Unwired = {}
  BY <1>1, <1>2 DEF OneTrouble
<1>4. p \in Tracked /\ n \in Kids(known, p) /\ p # n
  <2>1. p \in Tracked /\ n \in Kids(known, p)
    <3>1. <<n, p>>[2] \in Tracked /\ <<n, p>>[1] \in Kids(known, <<n, p>>[2])
      BY <1>1, <1>2 DEF UnderWay
    <3> QED
      BY <3>1
  <2> QED
    BY <1>1, <2>1, TreeKids
<1>5. \A u \in Tracked : Up(u)
  BY <1>3 DEF Lost
<1>6. \A m \in Nodes : wiring[m] = {}
  BY <1>3 DEF Unwired
<1>7. ASSUME NEW u \in Tracked
      PROVE  Matches(scrapes[u], IF u = p THEN Kids(known, u) \ {n} ELSE Kids(known, u), cut)
  <2> DEFINE S == {d \in Kids(known, u) :
                     proc[d] # "pivoted" /\ d \notin wiring[u] /\ <<d, u>> \notin leaving}
  <2>1. Matches(scrapes[u], S, cut)
    BY <1>1, <1>3 DEF ScrapesListed
  <2>2. \A d \in Kids(known, u) : proc[d] # "pivoted"
    BY <1>3 DEF Joining, Kids
  <2>3. \A d : <<d, u>> \in leaving <=> d = n /\ u = p
    BY <1>3
  <2>4. wiring[u] = {}
    BY <1>1, <1>6
  <2>5. S = IF u = p THEN Kids(known, u) \ {n} ELSE Kids(known, u)
    BY <2>2, <2>3, <2>4
  <2> QED
    BY <2>1, <2>5
<1>8. /\ IsTree(rep.known) /\ Urls(rep.known) = Tracked \ {n}
      /\ \A u \in Tracked \ {n} :
           Matches(z[u], IF u = p THEN Kids(rep.known, u) \ {x} ELSE Kids(rep.known, u), cut')
      /\ \A m \in Nodes : m = n \/ m \notin Tracked => z[m] = scrapes[m]
      /\ x = None \/ (x \in Kids(rep.known, p) /\ x \in Tracked \ {n})
  <2>1. /\ Matches(scrapes[p], Kids(known, p) \ {n}, cut)
        /\ \A u \in Urls(known) \ {n, p} : Matches(scrapes[u], Kids(known, u), cut)
    BY <1>1, <1>4, <1>7
  <2>2. RewiredTo(z, scrapes, known, p, n, rep)
    BY <1>1, <1>4, <1>5, <2>1, RewiredKids
  <2> HIDE DEF rep, z
  <2> QED
    BY <1>1, <1>2, <2>2 DEF RewiredTo
<1>9. DOMAIN z = Nodes
  BY DEF Rewired
<1> HIDE DEF rep, x, z
<1>10. /\ \A u \in Tracked \ {n} : Matches(scrapes'[u], Kids(known', u), cut')
       /\ \A m \in Nodes : m = n \/ m \notin Tracked => scrapes'[m] = scrapes[m]
  <2>1. CASE x = None
    <3>1. scrapes' = z /\ known' = rep.known
      BY <1>2, <2>1
    <3>2. Kids(rep.known, p) \ {x} = Kids(rep.known, p)
      BY <2>1, RootIsNode DEF Kids
    <3> QED
      BY <1>8, <3>1, <3>2
  <2>2. CASE x # None
    <3>1. scrapes' = [z EXCEPT ![p] = @ \cup {x}] /\ x \in Kids(rep.known, p) /\ known' = rep.known
      BY <1>2, <1>4, <1>5, <1>8, <2>2
    <3>2. scrapes'[p] = z[p] \cup {x} /\ \A m \in Nodes : m # p => scrapes'[m] = z[m]
      BY <1>9, <3>1
    <3>3. Matches(z[p], Kids(known', p) \ {x}, cut')
      BY <1>4, <1>8, <3>1
    <3>4. Matches(scrapes'[p], Kids(known', p), cut')
      BY <3>1, <3>2, <3>3 DEF Matches
    <3> QED
      BY <1>1, <1>4, <1>8, <3>1, <3>2, <3>4
  <2> QED
    BY <2>1, <2>2
<1>11. IsTree(known') /\ Tracked' = Tracked \ {n} /\ \A m : Up(m)' <=> Up(m)
  BY <1>2, <1>8 DEF Tracked, Up
<1>12. Joining' = {} /\ Lost' = {} /\ Unwired' = {} /\ leaving' = {}
  BY <1>2, <1>3, <1>5, <1>11 DEF Joining, Lost, Unwired
<1>13. OneTrouble'
  BY <1>12 DEF OneTrouble
<1>14. (\A m \in Proxies : proc'[m] \notin {"starting", "pivoted"}) /\ \A m \in Nodes : wiring'[m] = {}
  BY <1>12 DEF Joining, Unwired
<1>15. JoinsInTable'
  <2> SUFFICES ASSUME NEW m \in Proxies, ~Up(m)' PROVE scrapes'[m] = {}
    BY <1>14 DEF JoinsInTable
  <2>1. ~Up(m) /\ m \in Nodes /\ scrapes[m] = {} /\ m \notin Tracked
    BY <1>1, <1>5, <1>11, RootIsNode DEF JoinsInTable
  <2> QED
    BY <1>10, <2>1
<1>16. UnderWay'
  BY <1>12, <1>14 DEF UnderWay
<1>17. ScrapesListed'
  <2> SUFFICES ASSUME NEW u \in Tracked' \ Lost'
               PROVE  Matches(scrapes'[u], {d \in Kids(known', u) :
                         /\ proc'[d] # "pivoted" /\ d \notin wiring'[u]
                         /\ <<d, u>> \notin leaving'}, cut')
    BY DEF ScrapesListed
  <2> DEFINE T == {d \in Kids(known', u) :
                     /\ proc'[d] # "pivoted" /\ d \notin wiring'[u] /\ <<d, u>> \notin leaving'}
  <2>1. Matches(scrapes'[u], Kids(known', u), cut') /\ wiring'[u] = {} /\ leaving' = {}
    BY <1>1, <1>10, <1>11, <1>12, <1>14
  <2>2. \A d \in Kids(known', u) : proc'[d] # "pivoted"
    BY <1>14 DEF Kids
  <2>3. T = Kids(known', u)
    BY <2>1, <2>2
  <2> QED
    BY <2>1, <2>3
<1>18. proc'[Root] = "member"
  BY <1>1, <1>2
<1> QED
  BY <1>11, <1>13, <1>15, <1>16, <1>17, <1>18 DEF CalmRest

\* A failed scrape: of a proxy that is down, or of one that is only slow.
LEMMA ScrapeCalm ==
  ASSUME CalmInv, NEW p \in Nodes, NEW c \in Proxies, Up(p), c \in scrapes[p],
         Remove(p, c), ~Up(c) \/ Settled
  PROVE  IsTree(known') /\ CalmRest'
<1>1. /\ Table(known) /\ IsTree(known) /\ Tracked = Urls(known) /\ OneTrouble
      /\ scrapes \in [Nodes -> SUBSET Proxies]
  BY CalmTyped DEF CalmRest
<1>2. CASE p \in Tracked
  <2>1. c \in Tracked
    BY <1>2, ScrapedListed
  <2>2. Joining = {} /\ Unwired = {} /\ leaving = {} /\ \A u \in Tracked \ {c} : Up(u)
    <3>1. CASE Settled
      BY <3>1, SettledQuiet
    <3>2. CASE ~Up(c)
      <4>1. c \in Lost
        BY <2>1, <3>2 DEF Lost
      <4>2. Joining = {} /\ Unwired = {} /\ leaving = {} /\ \A m \in Lost : m = c
        BY <1>1, <4>1 DEF OneTrouble
      <4> QED
        BY <4>2 DEF Lost
    <3> QED
      BY <3>1, <3>2
  <2> QED
    BY <1>2, <2>2, RemoveCalm
<1>3. CASE p \notin Tracked
  <2> DEFINE rep == Repair(known, p, c)
             s == [scrapes EXCEPT ![p] = @ \ {c}]
  <2>1. s \in [Nodes -> SUBSET Proxies]
    BY <1>1
  <2>2. rep.known = known /\ rep.replacement = None /\ Rewired(s, rep) = s
    <3> HIDE DEF s
    <3> QED
      BY <1>1, <1>3, <2>1, NoRewire
  <2>3. scrapes' = s /\ UNCHANGED <<known, proc, pivot, wiring, leaving>> /\ cut \subseteq cut'
    BY <2>2 DEF Remove
  <2> QED
    BY <1>3, <2>3, UntrackedCalm
<1> QED
  BY <1>2, <1>3

\* A retried removal: in a settled tree only a proxy outside the table asks for it.
LEMMA RetryCalm ==
  ASSUME CalmInv, Settled, NEW p \in Nodes, NEW c \in Proxies, RemoveRetried(p, c)
  PROVE  IsTree(known') /\ CalmRest'
<1> DEFINE rep == Repair(known, p, c)
           s == [scrapes EXCEPT ![p] = @ \ {c}]
<1>1. Table(known) /\ Tracked = Urls(known) /\ scrapes \in [Nodes -> SUBSET Proxies]
  BY CalmTyped
<1>2. /\ Up(p) /\ c \in scrapes[p] /\ ~Up(c)
      /\ known' = Repair(rep.known, p, c).known /\ scrapes' = Rewired(s, rep)
      /\ UNCHANGED <<proc, pivot, wiring, leaving>> /\ cut \subseteq cut'
  BY DEF RemoveRetried
<1>3. p \notin Tracked
  <2> SUFFICES ASSUME p \in Tracked PROVE FALSE
    OBVIOUS
  <2>1. c \in Tracked
    BY <1>2, ScrapedListed
  <2> QED
    BY <1>2, <2>1, SettledQuiet
<1>4. s \in [Nodes -> SUBSET Proxies]
  BY <1>1
<1> HIDE DEF s
<1>5. rep.known = known /\ Rewired(s, rep) = s
  BY <1>1, <1>3, <1>4, NoRewire
<1>6. known' = known /\ scrapes' = s
  BY <1>2, <1>5
<1> QED
  BY <1>2, <1>3, <1>6, UntrackedCalm DEF s

\* One step of the system, with faults that wait for a settled tree.
LEMMA CalmStep ==
  ASSUME CalmInv, [CalmNext]_vars
  PROVE  CalmInv'
<1> SUFFICES IsTree(known') /\ CalmRest'
  <2>1. [Next]_vars /\ TableInv
    BY CalmTyped DEF CalmNext, Next
  <2>2. TableInv'
    BY <2>1, TableStep
  <2>3. Table(known') /\ RestTyped'
    BY <2>2, TableInvIsPrimed DEF TableOK
  <2> QED
    BY <2>3, CalmIsPrimed
<1>1. ASSUME NEW n \in Proxies, Pivot(n) \/ Join(n) PROVE IsTree(known') /\ CalmRest'
  BY <1>1, PivotCalm, JoinCalm
<1>2. ASSUME NEW p \in Nodes, NEW c \in Proxies, ScrapeFails(p, c)
      PROVE  IsTree(known') /\ CalmRest'
  BY <1>2, ScrapeCalm DEF ScrapeFails
<1>3. ASSUME NEW p \in Nodes, NEW c \in Proxies, Wire(p, c) \/ EndLeave(c, p)
      PROVE  IsTree(known') /\ CalmRest'
  BY <1>3, WireCalm, EndLeaveCalm
<1>4. ASSUME Settled, NEW n \in Proxies, PivotRetried(n) PROVE FALSE
  BY <1>4 DEF Settled, PivotRetried, Up
<1>5. ASSUME Settled, NEW n \in Proxies, Crash(n) \/ SigTerm(n) PROVE IsTree(known') /\ CalmRest'
  <2>1. Stop(n, "down") \/ Stop(n, "terminated")
    BY <1>5 DEF Crash, SigTerm
  <2> QED
    BY <1>5, <2>1, StopCalm
<1>6. ASSUME Settled, NEW n \in Proxies, Restart(n) \/ BeginLeave(n)
      PROVE  IsTree(known') /\ CalmRest'
  BY <1>6, RestartCalm, BeginLeaveCalm
<1>7. ASSUME Settled, NEW p \in Nodes, NEW c \in Proxies, Suspect(p, c)
      PROVE  IsTree(known') /\ CalmRest'
  BY <1>7, ScrapeCalm DEF Suspect
<1>8. ASSUME Settled, NEW p \in Nodes, NEW c \in Proxies, RemoveRetried(p, c)
      PROVE  IsTree(known') /\ CalmRest'
  BY <1>8, RetryCalm
<1>9. ASSUME UNCHANGED vars PROVE IsTree(known') /\ CalmRest'
  <2>1. IsTree(known) /\ CalmRest
    BY CalmTyped
  <2>2. /\ Tracked' = Tracked /\ Lost' = Lost /\ Joining' = Joining /\ Unwired' = Unwired
        /\ \A m : Up(m)' <=> Up(m)
    BY <1>9 DEF vars, Tracked, Lost, Joining, Unwired, Up
  <2>3. OneTrouble' /\ proc'[Root] = "member"
    BY <1>9, <2>1, <2>2 DEF vars, CalmRest, OneTrouble
  <2>4. JoinsInTable'
    BY <1>9, <2>1, <2>2 DEF vars, CalmRest, JoinsInTable
  <2>5. UnderWay'
    BY <1>9, <2>1, <2>2 DEF vars, CalmRest, UnderWay
  <2>6. ScrapesListed'
    BY <1>9, <2>1, <2>2 DEF vars, CalmRest, ScrapesListed
  <2> QED
    BY <1>9, <2>1, <2>3, <2>4, <2>5, <2>6 DEF vars, CalmRest
<1> QED
  BY <1>1, <1>2, <1>3, <1>4, <1>5, <1>6, <1>7, <1>8, <1>9 DEF CalmNext, ProxyStep, FaultStep

\* CalmInv holds in every state when faults come one at a time.
THEOREM CalmInvariant == CalmSpec => []CalmInv
<1>1. CalmInv /\ [CalmNext]_vars => CalmInv'
  BY CalmStep
<1> QED
  BY <1>1, InitCalm, PTL DEF CalmSpec

\* In a settled tree the scrapers match the children in the table.
LEMMA SettledMatches ==
  ASSUME CalmInv, Settled, NEW i \in DOMAIN known
  PROVE  Matches(scrapes[known[i].url], Children(known[i]), cut)
<1>1. Table(known) /\ IsTree(known)
  BY CalmTyped
<1>2. known[i].url \in Tracked
  BY DEF Tracked, Urls
<1>3. Matches(scrapes[known[i].url], Kids(known, known[i].url), cut)
  BY <1>2, SettledQuiet
<1>4. Unique(known, DOMAIN known)
  BY <1>1, TreeIs DEF TreeOn
<1>5. \A x : x \in Kids(known, known[i].url) <=> Lists(known[i], x)
  BY <1>1, <1>4, KidsAt
<1>6. /\ Children(known[i]) = {x \in Proxies : Lists(known[i], x)}
      /\ \A x : Lists(known[i], x) => x \in Proxies
  BY <1>1, ChildrenAre, TableFacts
<1>7. Kids(known, known[i].url) = Children(known[i])
  BY <1>5, <1>6
<1> QED
  BY <1>3, <1>7

(***************************************************************************)
(* ScrapersFollowTable for any number of proxies and any arity: when       *)
(* faults come one at a time and the tree has settled, what a tracked      *)
(* proxy scrapes is listed for it in known_client, and what is listed is   *)
(* scraped, unless get_param cut its name off the list of children that    *)
(* repair_tbon sent to a replacement.                                      *)
(***************************************************************************)
THEOREM ScrapersFollow == CalmSpec => []ScrapersFollowTable
<1>1. CalmInv => ScrapersFollowTable
  BY SettledMatches DEF ScrapersFollowTable
<1> QED
  BY <1>1, CalmInvariant, PTL

-----------------------------------------------------------------------------
(***************************************************************************)
(* ScrapeLocks, for any tree of proxies, any number of them that stop and  *)
(* any number of tries.                                                    *)
(***************************************************************************)

\* The parts of the type invariant that most steps rely on.
LEMMA LocksTyped ==
  ASSUME LocksInv
  PROVE  /\ entered \subseteq Proxies /\ refs \in [Nodes -> Int]
         /\ parent \in [Proxies -> Nodes \cup {None}] /\ depth \in [Nodes -> Nat]
         /\ scrapers \in [Nodes -> SUBSET Proxies]
         /\ pc \in [Nodes -> {"idle", "remove", "join"}]
         /\ report \in [Nodes -> Reports \cup {None}]
         /\ up \subseteq Nodes /\ queue \subseteq Reports /\ pending \subseteq Requests
         /\ Proxies \subseteq Nodes /\ Root \in Nodes
BY DEF LocksInv, LocksTypeOK, Nodes

\* The children that the table lists for a proxy are finitely many.
LEMMA ChildrenFinite ==
  ASSUME NEW t
  PROVE  IsFiniteSet(ChildrenOf(t)) /\ Cardinality(ChildrenOf(t)) \in Nat
<1>1. ChildrenOf(t) \in SUBSET Proxies
  BY DEF ChildrenOf
<1> QED
  BY <1>1, ShapeAssumption, FS_Subset, FS_CardinalityType

\* A step that leaves the table alone and starts nobody keeps it sound.
LEMMA SameTableSound ==
  ASSUME LocksInv, up' \subseteq up, recount' = recount, table' = table
  PROVE  SoundUnlessRecount'
BY DEF LocksInv, SoundUnlessRecount, SoundTable, HasEntry, ChildrenOf, table

(***************************************************************************)
(* removefrom for a target without children, when the sender lists it: one *)
(* child and one reference less.                                           *)
(***************************************************************************)
LEMMA RemoveLeafSound ==
  ASSUME LocksInv, NEW r \in queue, RemoveLeaf(r)
  PROVE  SoundUnlessRecount'
<1> SUFFICES ASSUME recount' = {} PROVE SoundTable'
  BY DEF SoundUnlessRecount
<1> USE LocksTyped
<1> DEFINE f == r.from
           t == r.target
<1>1. f \in Nodes /\ t \in Proxies \ up
  BY DEF Reports, LocksInv, DownIsSilent
<1>2. parent[t] = f /\ recount = {}
  BY DEF RemoveLeaf, CountOff
<1>3. SoundTable
  BY <1>2 DEF LocksInv, SoundUnlessRecount
<1>4. t \in entered /\ f \in HasEntry /\ f # t
  BY <1>1, <1>2, <1>3, NodesAssumption DEF SoundTable, Nodes
<1>5. ChildrenOf(t) = {}
  <2>1. Cardinality(ChildrenOf(t)) = 0
    BY <1>3, <1>4 DEF SoundTable, RemoveLeaf, HasEntry
  <2> QED
    BY <2>1, ChildrenFinite, FS_EmptySet
<1>6. /\ up' = up /\ depth' = depth /\ entered' = entered \ {t}
      /\ refs' = [refs EXCEPT ![f] = @ - 1]
      /\ \A c \in Proxies : parent'[c] = IF c = t THEN None ELSE parent[c]
  <2>1. \A c \in Proxies : parent[c] # t
    BY <1>5 DEF ChildrenOf
  <2> QED
    BY <1>2, <2>1 DEF RemoveLeaf, Delisted
<1> HIDE DEF f, t
<1>7. \A n \in HasEntry' : refs'[n] = Cardinality(ChildrenOf(n)')
  <2> SUFFICES ASSUME NEW n \in HasEntry, n # t
               PROVE  refs'[n] = Cardinality({c \in Proxies : parent'[c] = n})
    BY <1>1, <1>6, NodesAssumption DEF HasEntry, ChildrenOf
  <2>0. n \in Nodes /\ n # None /\ refs[n] = Cardinality(ChildrenOf(n))
    BY <1>3, NodesAssumption DEF SoundTable, HasEntry, Nodes
  <2>1. CASE n = f
    <3>1. {c \in Proxies : parent'[c] = n} = ChildrenOf(n) \ {t}
      BY <1>6, <2>0 DEF ChildrenOf
    <3>2. t \in ChildrenOf(n)
      BY <1>1, <1>2, <2>1 DEF ChildrenOf, f, t
    <3>3. Cardinality(ChildrenOf(n) \ {t}) = Cardinality(ChildrenOf(n)) - 1
      BY <3>2, ChildrenFinite, FS_RemoveElement
    <3> QED
      BY <1>1, <1>6, <2>0, <2>1, <3>1, <3>3
  <2>2. CASE n # f
    <3>1. {c \in Proxies : parent'[c] = n} = ChildrenOf(n)
      BY <1>1, <1>2, <1>6, <2>0, <2>2 DEF ChildrenOf, f, t
    <3> QED
      BY <1>1, <1>6, <2>0, <2>2, <3>1
  <2> QED
    BY <2>1, <2>2
<1>8. up' \cap Proxies \subseteq entered'
  BY <1>1, <1>3, <1>6 DEF SoundTable, t
<1>9. \A c \in entered' : parent'[c] \in HasEntry' /\ depth'[parent'[c]] < depth'[c]
  BY <1>1, <1>3, <1>5, <1>6 DEF SoundTable, HasEntry, ChildrenOf
<1>10. \A c \in Proxies \ entered' : parent'[c] = None
  BY <1>3, <1>6 DEF SoundTable
<1> QED
  BY <1>7, <1>8, <1>9, <1>10 DEF SoundTable

(***************************************************************************)
(* A repair when the sender lists the target: depths grow, so the deepest  *)
(* proxy has no children and is neither the sender nor the target.  The    *)
(* sender loses a child and gains one, the former parent of the            *)
(* replacement loses one, and the replacement counts those it adopts.      *)
(***************************************************************************)
LEMMA BeginRepairSound ==
  ASSUME LocksInv, NEW r \in queue, BeginRepair(r)
  PROVE  SoundUnlessRecount'
<1> SUFFICES ASSUME recount' = {} PROVE SoundTable'
  BY DEF SoundUnlessRecount
<1>00. /\ entered \subseteq Proxies /\ refs \in [Nodes -> Int]
      /\ parent \in [Proxies -> Nodes \cup {None}] /\ depth \in [Nodes -> Nat]
      /\ Proxies \subseteq Nodes /\ Root \in Nodes /\ queue \subseteq Reports
  BY LocksTyped
<1> DEFINE f == r.from
           t == r.target
<1>1. f \in Nodes /\ t \in Proxies \ up
  BY <1>00 DEF Reports, LocksInv, DownIsSilent
<1>2. parent[t] = f /\ recount = {}
  BY DEF BeginRepair, CountOff
<1>3. SoundTable
  BY <1>2 DEF LocksInv, SoundUnlessRecount
<1>4. t \in entered /\ f \in HasEntry /\ depth[f] < depth[t]
  BY <1>00, <1>1, <1>2, <1>3, NodesAssumption DEF SoundTable, Nodes
<1>0. PICK x \in DeepestOnes :
      LET kids == ChildrenOf(r.target) \ {x}
      IN  /\ parent' = [c \in Proxies |->
                           IF c = x THEN r.from
                           ELSE IF c = r.target THEN Delisted(r)
                           ELSE IF c \notin kids THEN parent[c]
                           ELSE IF x = r.target THEN None ELSE x]
          /\ refs' = [n \in Nodes |-> refs[n] - (IF n = Lister(r, x) THEN 1 ELSE 0)
                                            + (IF n = x THEN Cardinality(kids) ELSE 0)]
          /\ depth' = [depth EXCEPT ![x] = depth[r.from] + 1]
  BY DEF BeginRepair
<1> DEFINE kids == ChildrenOf(t) \ {x}
           p == parent[x]
<1>5. x \in entered /\ x \in Proxies /\ x \in Nodes /\ p \in HasEntry /\ p \in Nodes
  BY <1>00, <1>3 DEF DeepestOnes, SoundTable, HasEntry
<1>6. \A c \in Proxies : parent[c] # x
  <2> SUFFICES ASSUME NEW c \in Proxies, parent[c] = x PROVE FALSE
    OBVIOUS
  <2>1. c \in entered
    BY <1>00, <1>3, <1>5, NodesAssumption DEF SoundTable
  <2>2. depth[x] < depth[c] /\ depth[c] <= depth[x] /\ depth[x] \in Nat /\ depth[c] \in Nat
    BY <1>00, <1>3, <1>5, <2>1 DEF DeepestOnes, SoundTable
  <2> QED
    BY <2>2
<1>7. x # t
  <2>1. Cardinality(ChildrenOf(t)) # 0
    BY <1>3, <1>4 DEF SoundTable, BeginRepair, HasEntry
  <2>2. ChildrenOf(t) # {}
    BY <2>1, FS_EmptySet
  <2> QED
    BY <1>6, <2>2 DEF ChildrenOf
<1>8. x # f /\ p # x /\ f # t /\ t # None /\ x # None /\ f # None /\ p # None
  BY <1>00, <1>1, <1>2, <1>4, <1>5, <1>6, NodesAssumption DEF Nodes, HasEntry
<1>9. up' = up /\ entered' = entered \ {t}
  BY DEF BeginRepair
<1>10. \A c \in Proxies : parent'[c] = IF c = x THEN f ELSE IF c = t THEN None
                                       ELSE IF parent[c] = t THEN x ELSE parent[c]
  BY <1>00, <1>0, <1>2, <1>7 DEF Delisted, ChildrenOf
<1>11. Lister(r, x) = IF p = t THEN None ELSE p
  BY <1>7 DEF Lister
<1>12. \A n \in Nodes : refs'[n] = refs[n] - (IF n = p /\ p # t THEN 1 ELSE 0)
                                           + (IF n = x THEN Cardinality(kids) ELSE 0)
  BY <1>0, <1>8, <1>11, NodesAssumption
<1>13. \A n \in Nodes : depth'[n] = IF n = x THEN depth[f] + 1 ELSE depth[n]
  BY <1>00, <1>0, <1>5
<1>14. t \in ChildrenOf(f) /\ x \in ChildrenOf(p)
  BY <1>1, <1>2, <1>5 DEF ChildrenOf
<1> HIDE DEF f, t, p, kids
<1>15. \A n \in HasEntry' : refs'[n] = Cardinality(ChildrenOf(n)')
  <2> SUFFICES ASSUME NEW n \in HasEntry, n # t
               PROVE  refs'[n] = Cardinality({c \in Proxies : parent'[c] = n})
    <3>1. ~(Root = t)
      BY <1>1, NodesAssumption DEF t
    <3>2. HasEntry' = HasEntry \ {t}
      BY <1>9, <3>1 DEF HasEntry
    <3>3. \A n : ChildrenOf(n)' = {c \in Proxies : parent'[c] = n}
      BY DEF ChildrenOf
    <3> QED
      BY <3>2, <3>3
  <2> DEFINE old == ChildrenOf(n)
             new == {c \in Proxies : parent'[c] = n}
  <2>0. /\ n \in Nodes /\ n # None /\ refs[n] = Cardinality(old)
        /\ IsFiniteSet(old) /\ Cardinality(old) \in Nat
    BY <1>00, <1>3, NodesAssumption, ChildrenFinite DEF SoundTable, HasEntry, Nodes
  <2>6. refs'[n] = refs[n] - (IF n = p /\ p # t THEN 1 ELSE 0)
                           + (IF n = x THEN Cardinality(kids) ELSE 0)
    BY <1>12, <2>0
  <2> SUFFICES refs'[n] = Cardinality(new)
    OBVIOUS
  <2> HIDE DEF old, new
  <2>1. CASE n = x
    <3>1. new = kids
      BY <1>1, <1>2, <1>6, <1>7, <1>8, <1>10, <2>1 DEF new, kids, ChildrenOf, f, t
    <3>2. old = {}
      BY <1>6, <2>1 DEF old, ChildrenOf
    <3>3. Cardinality(old) = 0
      BY <3>2, FS_EmptySet
    <3>4. kids \in SUBSET Proxies
      BY DEF kids, ChildrenOf
    <3>5. Cardinality(kids) \in Nat
      BY <3>4, ShapeAssumption, FS_Subset, FS_CardinalityType
    <3> QED
      BY <1>8, <2>0, <2>6, <2>1, <3>1, <3>3, <3>5
  <2>2. CASE n = f /\ p = f
    <3>1. new = old \ {t}
      BY <1>1, <1>2, <1>5, <1>6, <1>7, <1>8, <1>10, <2>0, <2>2 DEF old, new, ChildrenOf, f, t, p
    <3>2. Cardinality(old \ {t}) = Cardinality(old) - 1
      BY <1>14, <2>0, <2>2, FS_RemoveElement DEF old
    <3> QED
      BY <1>8, <2>0, <2>6, <2>2, <3>1, <3>2
  <2>3. CASE n = f /\ p # f
    <3>1. new = (old \ {t}) \cup {x}
      BY <1>1, <1>2, <1>5, <1>6, <1>7, <1>8, <1>10, <2>0, <2>3 DEF old, new, ChildrenOf, f, t, p
    <3>2. IsFiniteSet(old \ {t}) /\ Cardinality(old \ {t}) = Cardinality(old) - 1
      BY <1>14, <2>0, <2>3, FS_RemoveElement DEF old
    <3>3. x \notin old \ {t}
      BY <2>3 DEF old, ChildrenOf, p
    <3>4. Cardinality((old \ {t}) \cup {x}) = Cardinality(old \ {t}) + 1
      BY <3>2, <3>3, FS_AddElement
    <3> QED
      BY <1>8, <2>0, <2>6, <2>3, <3>1, <3>2, <3>4
  <2>4. CASE n # x /\ n # f /\ n = p
    <3>1. new = old \ {x}
      BY <1>1, <1>2, <1>5, <1>6, <1>7, <1>8, <1>10, <2>0, <2>4 DEF old, new, ChildrenOf, f, t, p
    <3>2. Cardinality(old \ {x}) = Cardinality(old) - 1
      BY <1>14, <2>0, <2>4, FS_RemoveElement DEF old
    <3> QED
      BY <1>8, <2>0, <2>6, <2>4, <3>1, <3>2
  <2>5. CASE n # x /\ n # f /\ n # p
    <3>1. new = old
      BY <1>1, <1>2, <1>5, <1>6, <1>7, <1>8, <1>10, <2>0, <2>5 DEF old, new, ChildrenOf, f, t, p
    <3> QED
      BY <2>0, <2>5, <2>6, <3>1
  <2> QED
    BY <2>1, <2>2, <2>3, <2>4, <2>5
<1>16. up' \cap Proxies \subseteq entered'
  BY <1>1, <1>3, <1>9 DEF SoundTable, t
<1>17. ASSUME NEW c \in entered'
       PROVE  parent'[c] \in HasEntry' /\ depth'[parent'[c]] < depth'[c]
  <2>0. /\ c \in entered /\ c # t /\ c \in Proxies /\ c \in Nodes
        /\ parent[c] \in HasEntry /\ parent[c] \in Nodes /\ depth[parent[c]] < depth[c]
        /\ parent[c] # x /\ HasEntry' = HasEntry \ {t}
    BY <1>00, <1>1, <1>3, <1>6, <1>9, NodesAssumption DEF SoundTable, HasEntry, Nodes, t
  <2>1. CASE c = x
    BY <1>00, <1>1, <1>4, <1>8, <1>10, <1>13, <2>0, <2>1
  <2>2. CASE c # x /\ parent[c] = t
    BY <1>00, <1>1, <1>4, <1>5, <1>7, <1>8, <1>10, <1>13, <2>0, <2>2 DEF HasEntry
  <2>3. CASE c # x /\ parent[c] # t
    BY <1>00, <1>1, <1>10, <1>13, <2>0, <2>3
  <2> QED
    BY <2>1, <2>2, <2>3
<1>18. \A c \in Proxies \ entered' : parent'[c] = None
  <2> SUFFICES ASSUME NEW c \in Proxies, c \notin entered \/ c = t PROVE parent'[c] = None
    BY <1>9
  <2>1. c # x
    BY <1>5, <1>7 DEF t
  <2>2. c # t => parent[c] = None
    BY <1>3 DEF SoundTable
  <2> QED
    BY <1>8, <1>10, <2>1, <2>2
<1> QED
  BY <1>15, <1>16, <1>17, <1>18 DEF SoundTable

\* The tree as it was built: everyone is scraped by the parent.
LEMMA LocksInitInv == LocksInit => LocksInv
<1> SUFFICES ASSUME LocksInit PROVE LocksInv
  OBVIOUS
<1> USE NodesAssumption, ShapeAssumption, LocksBoundsAssumption DEF LocksInit, Nodes
<1>0. \A n \in Nodes : Cardinality({c \in Proxies : Tree[c] = n}) \in Nat
  <2> TAKE n \in Nodes
  <2>1. {c \in Proxies : Tree[c] = n} \in SUBSET Proxies
    OBVIOUS
  <2> QED
    BY <2>1, FS_Subset, FS_CardinalityType
<1>1. LocksTypeOK
  BY <1>0 DEF LocksTypeOK
<1>2. DownIsSilent
  BY DEF DownIsSilent
<1>3. OthersLetGo
  BY DEF OthersLetGo, OnTime
<1>4. ParentTakesOver
  BY DEF ParentTakesOver, OnTime
<1>5. SoundUnlessRecount
  BY DEF SoundUnlessRecount, SoundTable, HasEntry, ChildrenOf
<1> QED
  BY <1>1, <1>2, <1>3, <1>4, <1>5 DEF LocksInv

\* A process that stops takes its requests along, and can be nobody's parent.
LEMMA StopsInv ==
  ASSUME LocksInv, NEW c \in Proxies, Stops(c)
  PROVE  LocksInv'
<1> USE LocksTyped DEF Stops, table, history
<1>1. LocksTypeOK'
  BY NodesAssumption DEF LocksTypeOK, LocksInv
<1>2. DownIsSilent'
  BY DEF DownIsSilent, LocksInv
<1>3. OthersLetGo'
  BY DEF OthersLetGo, LocksInv, OnTime, Asked
<1>4. ParentTakesOver'
  BY DEF ParentTakesOver, LocksInv, OnTime, Asked, WillBeAsked
<1>5. SoundUnlessRecount'
  BY SameTableSound
<1> QED
  BY <1>1, <1>2, <1>3, <1>4, <1>5 DEF LocksInv

\* A report is of a proxy that is down.
LEMMA ReportsFailureInv ==
  ASSUME LocksInv, NEW n \in Nodes, NEW c \in Proxies, ReportsFailure(n, c)
  PROVE  LocksInv'
<1> USE LocksTyped, LocksBoundsAssumption DEF ReportsFailure, table, history
<1>0. [from |-> n, target |-> c, try |-> 1] \in Reports
  BY DEF Reports
<1>1. LocksTypeOK'
  BY <1>0 DEF LocksTypeOK, LocksInv
<1>2. DownIsSilent'
  BY <1>0 DEF DownIsSilent, LocksInv
<1>3. OthersLetGo'
  BY DEF OthersLetGo, LocksInv, OnTime, Asked
<1>4. ParentTakesOver'
  BY DEF ParentTakesOver, LocksInv, OnTime, Asked, WillBeAsked
<1>5. SoundUnlessRecount'
  BY SameTableSound
<1> QED
  BY <1>1, <1>2, <1>3, <1>4, <1>5 DEF LocksInv

(***************************************************************************)
(* The end of a pass drops a scraper of a proxy that is down: nothing that *)
(* the invariant says of the others changes.                               *)
(***************************************************************************)
LEMMA EndPassInv ==
  ASSUME LocksInv, NEW n \in Nodes, pc[n] # "idle", EndPass(n),
         UNCHANGED <<up, report, repair, pending, history>>,
         queue' \subseteq queue, table' = table
  PROVE  LocksInv'
<1> USE LocksTyped DEF EndPass, history, table
<1>1. LocksTypeOK'
  BY DEF LocksTypeOK, LocksInv
<1>2. DownIsSilent'
  BY DEF DownIsSilent, LocksInv
<1>3. OthersLetGo'
  BY DEF OthersLetGo, LocksInv, OnTime, Asked
<1>4. ParentTakesOver'
  BY DEF ParentTakesOver, LocksInv, DownIsSilent, OnTime, Asked, WillBeAsked
<1>5. SoundUnlessRecount'
  BY SameTableSound
<1> QED
  BY <1>1, <1>2, <1>3, <1>4, <1>5 DEF LocksInv

\* A retry sends the same report again; the last one ends the pass.
LEMMA RemoveTimesOutInv ==
  ASSUME LocksInv, NEW n \in Nodes, RemoveTimesOut(n)
  PROVE  LocksInv'
<1> USE LocksTyped, LocksBoundsAssumption DEF table, history
<1> DEFINE r == [report[n] EXCEPT !.try = @ + 1]
<1>1. CASE MayRetry(n)
  <2>0. report[n] \in Reports /\ report[n].target \notin up /\ n \in up
    BY DEF RemoveTimesOut, DownIsSilent, LocksInv
  <2>1. r \in Reports /\ r.target = report[n].target
    BY <1>1, <2>0 DEF Reports, MayRetry
  <2>2. /\ report' = [report EXCEPT ![n] = r] /\ queue' = queue \cup {r}
        /\ UNCHANGED <<up, table, scrapers, pc, repair, pending, history>>
    BY <1>1 DEF RemoveTimesOut
  <2> HIDE DEF r
  <2>3. LocksTypeOK'
    BY <2>1, <2>2 DEF LocksTypeOK, LocksInv
  <2>4. DownIsSilent'
    BY <2>0, <2>1, <2>2 DEF DownIsSilent, LocksInv
  <2>5. OthersLetGo'
    BY <2>2 DEF OthersLetGo, LocksInv, OnTime, Asked
  <2>6. ParentTakesOver'
    BY <2>2 DEF ParentTakesOver, LocksInv, OnTime, Asked, WillBeAsked
  <2>7. SoundUnlessRecount'
    BY <2>2, SameTableSound
  <2> QED
    BY <2>3, <2>4, <2>5, <2>6, <2>7 DEF LocksInv
<1>2. CASE ~MayRetry(n)
  BY <1>2, EndPassInv DEF RemoveTimesOut
<1> QED
  BY <1>1, <1>2

\* The own /join ends the pass, whether it was served or not.
LEMMA JoinEndsInv ==
  ASSUME LocksInv, NEW n \in Nodes, JoinEnds(n)
  PROVE  LocksInv'
BY EndPassInv DEF JoinEnds, table, history

\* An answer without a replacement, to a sender that waits or has given up.
LEMMA NoReplacement ==
  ASSUME LocksInv, NEW r \in queue, Answer(r, None)
  PROVE  /\ pending' = pending
         /\ pc' \in [Nodes -> {"idle", "remove", "join"}]
         /\ scrapers' \in [Nodes -> SUBSET Proxies]
         /\ \A n \in Nodes : /\ pc'[n] # "idle" => pc[n] # "idle"
                             /\ scrapers'[n] \subseteq scrapers[n]
                             /\ scrapers[n] \ scrapers'[n] \subseteq Proxies \ up
<1> USE LocksTyped
<1>1. r.from \in Nodes
  BY DEF Reports
<1>2. CASE ~Waits(r)
  BY <1>2 DEF Answer
<1>3. CASE Waits(r)
  <2>1. EndPass(r.from) /\ pending' = pending
    BY <1>3 DEF Answer
  <2>2. report[r.from].target \in Proxies \ up
    BY <1>1, <1>3 DEF Waits, LocksInv, DownIsSilent, Reports
  <2> QED
    BY <1>1, <2>1, <2>2 DEF EndPass
<1> QED
  BY <1>2, <1>3

\* A report of a proxy without an entry changes nothing but the sender.
LEMMA RefuseRemoveInv ==
  ASSUME LocksInv, NEW r \in queue, RefuseRemove(r)
  PROVE  LocksInv'
<1> USE LocksTyped
<1>1. /\ queue' \subseteq queue
      /\ UNCHANGED <<up, table, report, repair, history>>
      /\ Answer(r, None)
  BY DEF RefuseRemove
<1>2. /\ pending' = pending
      /\ pc' \in [Nodes -> {"idle", "remove", "join"}]
      /\ scrapers' \in [Nodes -> SUBSET Proxies]
      /\ \A n \in Nodes : /\ pc'[n] # "idle" => pc[n] # "idle"
                          /\ scrapers'[n] \subseteq scrapers[n]
                          /\ scrapers[n] \ scrapers'[n] \subseteq Proxies \ up
  BY <1>1, NoReplacement
<1> USE DEF table, history
<1>3. LocksTypeOK'
  BY <1>1, <1>2 DEF LocksTypeOK, LocksInv
<1>4. DownIsSilent'
  BY <1>1, <1>2 DEF DownIsSilent, LocksInv
<1>5. OthersLetGo'
  BY <1>1, <1>2 DEF OthersLetGo, LocksInv, OnTime, Asked
<1>6. ParentTakesOver'
  BY <1>1, <1>2 DEF ParentTakesOver, LocksInv, OnTime, Asked, WillBeAsked
<1>7. SoundUnlessRecount'
  BY <1>1, SameTableSound
<1> QED
  BY <1>3, <1>4, <1>5, <1>6, <1>7 DEF LocksInv

(***************************************************************************)
(* A target that counts no children leaves the table: it is down, so it    *)
(* scrapes nobody, and what it listed is scraped by nobody that runs.      *)
(***************************************************************************)
LEMMA RemoveLeafInv ==
  ASSUME LocksInv, NEW r \in queue, RemoveLeaf(r)
  PROVE  LocksInv'
<1> USE LocksTyped
<1>0. r \in Reports /\ r.from \in Nodes /\ r.target \in Proxies \ up
  BY DEF Reports, LocksInv, DownIsSilent
<1>1. /\ queue' \subseteq queue /\ entered' \subseteq entered
      /\ refs' = [refs EXCEPT ![r.from] = @ - 1]
      /\ UNCHANGED <<up, depth, report, repair, missed, stale>>
      /\ recount \subseteq recount' /\ recount' \subseteq recount \cup {r.from}
      /\ Answer(r, None)
  BY DEF RemoveLeaf, CountOff
<1>2. /\ pending' = pending
      /\ pc' \in [Nodes -> {"idle", "remove", "join"}]
      /\ scrapers' \in [Nodes -> SUBSET Proxies]
      /\ \A n \in Nodes : /\ pc'[n] # "idle" => pc[n] # "idle"
                          /\ scrapers'[n] \subseteq scrapers[n]
                          /\ scrapers[n] \ scrapers'[n] \subseteq Proxies \ up
  BY <1>1, NoReplacement
<1>3. parent' \in [Proxies -> Nodes \cup {None}]
  BY <1>0 DEF RemoveLeaf, Delisted
<1>4. \A d \in OnTime : parent'[d] = IF parent[d] = r.target THEN None ELSE parent[d]
  BY <1>0 DEF OnTime, RemoveLeaf
<1>10. refs' \in [Nodes -> Int] /\ recount' \subseteq Nodes
  BY <1>0, <1>1 DEF LocksInv, LocksTypeOK
<1>11. up' = up /\ depth' = depth /\ report' = report /\ repair' = repair
  BY <1>1
<1>5. LocksTypeOK'
  BY <1>1, <1>2, <1>3, <1>10, <1>11 DEF LocksTypeOK, LocksInv
<1>6. DownIsSilent'
  BY <1>1, <1>2 DEF DownIsSilent, LocksInv
<1>7. OthersLetGo'
  BY <1>0, <1>1, <1>2, <1>4 DEF OthersLetGo, LocksInv, OnTime, Asked
<1>8. ParentTakesOver'
  BY <1>0, <1>1, <1>2, <1>4, NodesAssumption
     DEF ParentTakesOver, LocksInv, OnTime, Asked, WillBeAsked
<1>9. SoundUnlessRecount'
  BY RemoveLeafSound
<1> QED
  BY <1>5, <1>6, <1>7, <1>8, <1>9 DEF LocksInv

(***************************************************************************)
(* The table changes for three kinds of proxies: the target is down; its   *)
(* children were scraped by nobody that runs, and are in the repair; the   *)
(* replacement is too, and its former parent is asked to drop it.          *)
(***************************************************************************)
LEMMA BeginRepairInv ==
  ASSUME LocksInv, NEW r \in queue, BeginRepair(r)
  PROVE  LocksInv'
<1> USE LocksTyped DEF history, threads
<1>0. r \in Reports /\ r.from \in Nodes /\ r.target \in Proxies \ up /\ repair = None
  BY DEF Reports, LocksInv, DownIsSilent, BeginRepair
<1> PICK x \in DeepestOnes :
      LET kids == ChildrenOf(r.target) \ {x}
      IN  /\ parent' = [c \in Proxies |->
                           IF c = x THEN r.from
                           ELSE IF c = r.target THEN Delisted(r)
                           ELSE IF c \notin kids THEN parent[c]
                           ELSE IF x = r.target THEN None ELSE x]
          /\ refs' = [n \in Nodes |-> refs[n] - (IF n = Lister(r, x) THEN 1 ELSE 0)
                                            + (IF n = x THEN Cardinality(kids) ELSE 0)]
          /\ depth' = [depth EXCEPT ![x] = depth[r.from] + 1]
          /\ pending' = pending \cup Disconnect(r, x)
          /\ repair' = [report |-> r, replacement |-> x, kids |-> kids,
                        step |-> "disconnect"]
  BY DEF BeginRepair
<1> DEFINE kids == ChildrenOf(r.target) \ {x}
<1>1. x \in Proxies /\ x \in entered /\ kids \subseteq Proxies
  BY DEF DeepestOnes, ChildrenOf
<1>2. /\ queue' = queue \ {r} /\ UNCHANGED <<up, scrapers, pc, report, missed, stale>>
      /\ entered' \subseteq entered /\ recount' \subseteq recount \cup {r.from}
  BY DEF BeginRepair, CountOff
<1>3. repair' \in Repairs /\ repair' # None
  BY <1>0, <1>1, NoneAssumption DEF Repairs
<1>4. \A q \in Disconnect(r, x) :
        q \in Requests /\ q.at \in up /\ q.op = "disconnect" /\ q.arg = x
  BY <1>0, <1>1 DEF Disconnect, Ask, Requests
<1>5. parent' \in [Proxies -> Nodes \cup {None}]
  BY <1>0, <1>1 DEF Delisted
<1>6. depth' \in [Nodes -> Nat]
  BY <1>0, <1>1
<1>11. refs' \in [Nodes -> Int]
  <2>1. Cardinality(kids) \in Nat
    BY <1>1, ShapeAssumption, FS_Subset, FS_CardinalityType
  <2> QED
    BY <2>1
<1>13. recount' \subseteq Nodes
  BY <1>0, <1>2 DEF LocksInv, LocksTypeOK
<1>14. pending' \subseteq Requests
  BY <1>4
<1>7. LocksTypeOK'
  BY <1>2, <1>3, <1>5, <1>6, <1>11, <1>13, <1>14 DEF LocksTypeOK, LocksInv
<1>8. DownIsSilent'
  BY <1>2, <1>4 DEF DownIsSilent, LocksInv
<1>9. OthersLetGo'
  <2> SUFFICES ASSUME NEW c \in OnTime, NEW n \in up, c \in scrapers[n]
               PROVE  n = parent'[c] \/ Asked("disconnect", n, c)'
    BY <1>2 DEF OthersLetGo, OnTime
  <2>1. n = parent[c] \/ Asked("disconnect", n, c)
    BY DEF OthersLetGo, LocksInv
  <2>2. Asked("disconnect", n, c) => Asked("disconnect", n, c)'
    BY DEF Asked
  <2>3. c \in Proxies /\ c # r.target
    BY <1>0 DEF OnTime
  <2>4. CASE n = parent[c] /\ c = x
    <3>1. Lister(r, x) = n /\ n # None
      BY <1>0, <2>3, <2>4, NodesAssumption DEF Lister
    <3>2. [at |-> n, op |-> "disconnect", arg |-> x, by |-> r] \in pending'
      BY <2>4, <3>1 DEF Disconnect, Ask
    <3> QED
      BY <2>4, <3>2 DEF Asked
  <2>5. CASE n = parent[c] /\ c # x
    <3>1. c \notin kids
      BY <1>0, <2>5 DEF ChildrenOf
    <3> QED
      BY <2>3, <2>5, <3>1
  <2> QED
    BY <2>1, <2>2, <2>4, <2>5
<1>10. ParentTakesOver'
  <2> SUFFICES ASSUME NEW c \in OnTime, parent'[c] \in up
               PROVE  \/ c \in scrapers[parent'[c]]
                      \/ Asked("join", parent[c], c)'
                      \/ WillBeAsked(c)'
    BY <1>2 DEF ParentTakesOver, OnTime
  <2>1. c \in Proxies /\ c # r.target
    BY <1>0 DEF OnTime
  <2>2. CASE c = x
    BY <1>3, <2>1, <2>2 DEF WillBeAsked
  <2>3. CASE c # x /\ c \in kids
    BY <1>3, <2>1, <2>3, NodesAssumption DEF WillBeAsked
  <2>4. CASE c # x /\ c \notin kids
    <3>1. parent'[c] = parent[c]
      BY <2>1, <2>4
    <3>2. ~WillBeAsked(c)
      BY <1>0 DEF WillBeAsked
    <3>3. c \in scrapers[parent[c]] \/ Asked("join", parent[c], c)
      BY <3>1, <3>2 DEF ParentTakesOver, LocksInv
    <3> QED
      BY <3>1, <3>3 DEF Asked
  <2> QED
    BY <2>2, <2>3, <2>4
<1>12. SoundUnlessRecount'
  BY BeginRepairSound
<1> QED
  BY <1>7, <1>8, <1>9, <1>10, <1>12 DEF LocksInv

(***************************************************************************)
(* Of the children that the replacement is to adopt one is asked for, and  *)
(* the others count as missed.                                             *)
(***************************************************************************)
LEMMA AdoptInv ==
  ASSUME LocksInv, Adopt
  PROVE  LocksInv'
<1> USE LocksTyped DEF threads, table
<1>0. repair \in Repairs /\ repair.step = "disconnect"
  BY DEF Adopt, LocksInv, LocksTypeOK
<1> PICK K \in SUBSET repair.kids :
       /\ pending' = pending \cup
            UNION {Ask([at |-> repair.replacement, op |-> "join", arg |-> k,
                        by |-> repair.report]) : k \in K}
       /\ missed' = missed \cup (repair.kids \ K)
  BY DEF Adopt
<1> DEFINE q(k) == [at |-> repair.replacement, op |-> "join", arg |-> k, by |-> repair.report]
<1>1. /\ repair' = [repair EXCEPT !.step = "adopt"]
      /\ UNCHANGED <<up, table, scrapers, pc, report, queue, stale, recount>>
  BY DEF Adopt
<1>2. /\ repair' \in Repairs /\ repair' # None
      /\ repair'.replacement = repair.replacement /\ repair'.report = repair.report
  BY <1>0, <1>1, NoneAssumption DEF Repairs
<1>3. repair.kids \subseteq Proxies /\ repair.replacement \in Nodes
  BY <1>0 DEF Repairs
<1>4. \A k \in K : q(k) \in Requests
  BY <1>0, <1>3 DEF Requests, Repairs
<1>5. pending \subseteq pending' /\ \A s \in pending' \ pending : s \in Requests /\ s.at \in up
  BY <1>4 DEF Ask
<1>6. LocksTypeOK'
  BY <1>1, <1>2, <1>3, <1>5 DEF LocksTypeOK, LocksInv
<1>7. DownIsSilent'
  BY <1>1, <1>5 DEF DownIsSilent, LocksInv
<1>8. OthersLetGo'
  BY <1>1, <1>5 DEF OthersLetGo, LocksInv, OnTime, Asked
<1>9. ParentTakesOver'
  <2> SUFFICES ASSUME NEW c \in OnTime', parent[c] \in up
               PROVE  \/ c \in scrapers[parent[c]]
                      \/ Asked("join", parent[c], c)'
                      \/ WillBeAsked(c)'
    BY <1>1 DEF ParentTakesOver
  <2>0. c \in OnTime /\ c \notin repair.kids \ K
    BY <1>1 DEF OnTime
  <2>1. CASE c \in scrapers[parent[c]] \/ Asked("join", parent[c], c)
    BY <1>1, <1>5, <2>1 DEF Asked
  <2>2. CASE c = repair.replacement /\ parent[c] = repair.report.from
    BY <1>1, <1>2, <2>2 DEF WillBeAsked
  <2>3. CASE c \in repair.kids /\ parent[c] = repair.replacement
    <3>1. c \in K /\ repair.replacement \in up
      BY <2>0, <2>3
    <3>2. q(c) \in pending'
      BY <3>1 DEF Ask
    <3> QED
      BY <1>1, <2>3, <3>2 DEF Asked
  <2> QED
    BY <2>0, <2>1, <2>2, <2>3 DEF LocksInv, ParentTakesOver, WillBeAsked
<1>10. SoundUnlessRecount'
  BY <1>1, SameTableSound
<1> QED
  BY <1>6, <1>7, <1>8, <1>9, <1>10 DEF LocksInv

(***************************************************************************)
(* A sender that still waits asks itself for the replacement; of one that  *)
(* does not, the replacement counts as missed.                             *)
(***************************************************************************)
LEMMA EndRepairInv ==
  ASSUME LocksInv, EndRepair
  PROVE  LocksInv'
<1> USE LocksTyped DEF table
<1> DEFINE r == repair.report
           x == repair.replacement
           q == [at |-> r.from, op |-> "join", arg |-> x, by |-> r]
<1>0. repair \in Repairs /\ repair.step = "adopt"
  BY DEF EndRepair, LocksInv, LocksTypeOK
<1>1. r \in Reports /\ r.from \in Nodes /\ x \in Proxies /\ x # None
  BY <1>0, NodesAssumption DEF Repairs, Reports, Nodes
<1>2. repair' = None /\ UNCHANGED <<up, table, report, queue, stale, recount>>
  BY DEF EndRepair
<1>3. /\ scrapers' = scrapers /\ pending \subseteq pending'
      /\ pending' \subseteq Requests /\ \A s \in pending' : s.at \in up
      /\ pc' \in [Nodes -> {"idle", "remove", "join"}]
      /\ \A n \in Nodes : pc'[n] # "idle" => pc[n] # "idle"
      /\ missed \subseteq missed' /\ missed' \subseteq missed \cup {x}
      /\ x \in missed' \/ q \in pending'
  <2>1. CASE Waits(r)
    <3>1. /\ pc' = [pc EXCEPT ![r.from] = "join"] /\ pending' = pending \cup {q}
          /\ scrapers' = scrapers /\ missed' = missed
      BY <1>1, <2>1 DEF EndRepair, Answer
    <3>2. q \in Requests
      BY <1>1 DEF Requests
    <3>3. pc[r.from] # "idle" /\ r.from \in up
      BY <1>1, <2>1 DEF Waits, LocksInv, DownIsSilent
    <3> QED
      BY <1>1, <3>1, <3>2, <3>3 DEF LocksInv, DownIsSilent
  <2>2. CASE ~Waits(r)
    BY <2>2 DEF EndRepair, Answer, LocksInv, DownIsSilent
  <2> QED
    BY <2>1, <2>2
<1> HIDE DEF q
<1>4. LocksTypeOK'
  BY <1>1, <1>2, <1>3 DEF LocksTypeOK, LocksInv
<1>5. DownIsSilent'
  BY <1>2, <1>3 DEF DownIsSilent, LocksInv
<1>6. OthersLetGo'
  BY <1>2, <1>3 DEF OthersLetGo, LocksInv, OnTime, Asked
<1>7. ParentTakesOver'
  <2> SUFFICES ASSUME NEW c \in OnTime', parent[c] \in up
               PROVE  c \in scrapers[parent[c]] \/ Asked("join", parent[c], c)'
    BY <1>2, <1>3 DEF ParentTakesOver
  <2>0. c \in OnTime /\ c \notin missed'
    BY <1>2, <1>3 DEF OnTime
  <2>1. CASE c \in scrapers[parent[c]] \/ Asked("join", parent[c], c)
    BY <1>2, <1>3, <2>1 DEF Asked
  <2>2. CASE c = x /\ parent[c] = r.from
    BY <1>2, <1>3, <2>0, <2>2 DEF Asked, q
  <2> QED
    BY <1>0, <2>0, <2>1, <2>2 DEF LocksInv, ParentTakesOver, WillBeAsked
<1>8. SoundUnlessRecount'
  BY <1>2, SameTableSound
<1> QED
  BY <1>4, <1>5, <1>6, <1>7, <1>8 DEF LocksInv

(***************************************************************************)
(* A request that fits the table is carried out as the invariant needs it; *)
(* one that does not makes its proxy stale.                                *)
(***************************************************************************)
LEMMA ServeInv ==
  ASSUME LocksInv, NEW q \in pending, Serve(q)
  PROVE  LocksInv'
<1> USE LocksTyped DEF table, threads
<1>0. q.at \in Nodes /\ q.at \in up /\ q.arg \in Proxies /\ q.op \in {"join", "disconnect"}
  BY DEF LocksInv, DownIsSilent, Requests
<1>1. /\ pending' = pending \ {q}
      /\ UNCHANGED <<up, table, pc, report, queue, repair, missed, recount>>
      /\ stale' = IF (q.op = "join") = (parent[q.arg] = q.at) THEN stale ELSE stale \cup {q.arg}
      /\ scrapers' = [scrapers EXCEPT ![q.at] =
                       IF q.op = "disconnect" THEN @ \ {q.arg}
                       ELSE IF q.arg \in up THEN @ \cup {q.arg} ELSE @]
  BY DEF Serve
<1>2. LocksTypeOK'
  BY <1>0, <1>1 DEF LocksTypeOK, LocksInv
<1>3. DownIsSilent'
  BY <1>0, <1>1 DEF DownIsSilent, LocksInv
<1>4. ASSUME NEW c \in OnTime'
      PROVE  c \in OnTime /\ c \in up /\ (c = q.arg => ((q.op = "join") <=> parent[c] = q.at))
  BY <1>0, <1>1, <1>4 DEF OnTime
<1>5. OthersLetGo'
  <2> SUFFICES ASSUME NEW c \in OnTime', NEW n \in up, c \in scrapers'[n]
               PROVE  n = parent[c] \/ Asked("disconnect", n, c)'
    BY <1>1 DEF OthersLetGo
  <2>1. CASE c \in scrapers[n] /\ ~(q.op = "disconnect" /\ q.at = n /\ q.arg = c)
    BY <1>1, <1>4, <2>1 DEF LocksInv, OthersLetGo, Asked
  <2>2. CASE c \in scrapers[n] /\ q.op = "disconnect" /\ q.at = n /\ q.arg = c
    BY <1>0, <1>1, <2>2
  <2>3. CASE c \notin scrapers[n]
    BY <1>0, <1>1, <1>4, <2>3
  <2> QED
    BY <2>1, <2>2, <2>3
<1>6. ParentTakesOver'
  <2> SUFFICES ASSUME NEW c \in OnTime', parent[c] \in up
               PROVE  \/ c \in scrapers'[parent[c]]
                      \/ Asked("join", parent[c], c)'
                      \/ WillBeAsked(c)
    BY <1>1 DEF ParentTakesOver, WillBeAsked
  <2>1. CASE c \in scrapers[parent[c]]
    BY <1>0, <1>1, <1>4, <2>1
  <2>2. CASE Asked("join", parent[c], c)
    <3>1. CASE q.op = "join" /\ q.at = parent[c] /\ q.arg = c
      BY <1>0, <1>1, <1>4, <3>1
    <3>2. CASE ~(q.op = "join" /\ q.at = parent[c] /\ q.arg = c)
      BY <1>1, <2>2, <3>2 DEF Asked
    <3> QED
      BY <3>1, <3>2
  <2> QED
    BY <1>4, <2>1, <2>2 DEF LocksInv, ParentTakesOver
<1>7. SoundUnlessRecount'
  BY <1>1, SameTableSound
<1> QED
  BY <1>2, <1>3, <1>5, <1>6, <1>7 DEF LocksInv

\* Every step preserves the invariant.
LEMMA LocksNextInv == LocksInv /\ [LocksNext]_locksVars => LocksInv'
<1> SUFFICES ASSUME LocksInv, [LocksNext]_locksVars PROVE LocksInv'
  OBVIOUS
<1>1. CASE \E n \in Nodes, c \in Proxies : ReportsFailure(n, c)
  BY <1>1, ReportsFailureInv
<1>2. CASE \E n \in Nodes : RemoveTimesOut(n) \/ JoinEnds(n)
  BY <1>2, RemoveTimesOutInv, JoinEndsInv
<1>3. CASE \E r \in queue : RefuseRemove(r) \/ RemoveLeaf(r) \/ BeginRepair(r)
  BY <1>3, RefuseRemoveInv, RemoveLeafInv, BeginRepairInv
<1>4. CASE Adopt \/ EndRepair
  BY <1>4, AdoptInv, EndRepairInv
<1>5. CASE \E q \in pending : Serve(q)
  BY <1>5, ServeInv
<1>6. CASE \E c \in Proxies : Stops(c)
  BY <1>6, StopsInv
<1>7. CASE UNCHANGED locksVars
  <2> USE <1>7 DEF locksVars, table, threads, history
  <2>1. LocksTypeOK' /\ DownIsSilent'
    BY DEF LocksInv, LocksTypeOK, DownIsSilent
  <2>2. OthersLetGo' /\ ParentTakesOver'
    BY DEF LocksInv, OthersLetGo, ParentTakesOver, OnTime, Asked, WillBeAsked
  <2>3. SoundUnlessRecount'
    BY SameTableSound
  <2> QED
    BY <2>1, <2>2, <2>3 DEF LocksInv
<1> QED
  BY <1>1, <1>2, <1>3, <1>4, <1>5, <1>6, <1>7 DEF LocksNext, Step

\* The invariant holds in every reachable state.
LEMMA LocksSpecInv == LocksSpec => []LocksInv
BY LocksInitInv, LocksNextInv, PTL DEF LocksSpec

(***************************************************************************)
(* For every tree, any number of crashes and any limit of tries every      *)
(* variable keeps its type: no request is sent to or reported of a proxy   *)
(* that is not there, and no report is sent more often than it may be.     *)
(***************************************************************************)
THEOREM LocksTypeCorrect == LocksSpec => []LocksTypeOK
BY LocksSpecInv, PTL DEF LocksInv

(***************************************************************************)
(* For every tree, any number of crashes and any interleaving of reports,  *)
(* retries, repairs, time-outs and late requests: when all is quiet a      *)
(* proxy that runs is scraped by the one that lists it and by nobody else, *)
(* unless a request for it was lost or late; and it is listed as long as   *)
(* no entry has counted off a child twice (repair_tbon, removefrom,        *)
(* add_scrape, remove_scrape, run_scrapping).                              *)
(***************************************************************************)
THEOREM ParentsAreUnique == LocksSpec => []OneParentUnlessLate
<1>1. LocksInv => OneParentUnlessLate
  <2> SUFFICES ASSUME LocksInv, Quiet, NEW c \in OnTime
               PROVE  /\ recount = {} => parent[c] \in HasEntry
                      /\ {n \in up : c \in scrapers[n]} = {parent[c]} \cap up
    BY DEF OneParentUnlessLate
  <2>1. \A n \in up : c \in scrapers[n] => n = parent[c]
    BY DEF LocksInv, OthersLetGo, Quiet, Asked
  <2>2. parent[c] \in up => c \in scrapers[parent[c]]
    BY DEF LocksInv, ParentTakesOver, Quiet, Asked, WillBeAsked
  <2>3. recount = {} => parent[c] \in HasEntry
    BY DEF LocksInv, SoundUnlessRecount, SoundTable, OnTime
  <2> QED
    BY <2>1, <2>2, <2>3
<1> QED
  BY <1>1, LocksSpecInv, PTL
===============================================================================
