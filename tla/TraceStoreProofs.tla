--------------------------- MODULE TraceStoreProofs ---------------------------
(***************************************************************************)
(* The invariants of TraceStore, proved for every finite set of counters,  *)
(* every maximum size, every size of the frames, and any number of         *)
(* samples, kills and failing or short writes.                             *)
(*                                                                         *)
(* The first part is about sequences of frames: what the filter of fold    *)
(* selects, what a fold, a push and damaged writes leave.  The second is   *)
(* the induction over the steps.                                           *)
(***************************************************************************)
EXTENDS TraceStore, SumTheorems

-----------------------------------------------------------------------------
(***************************************************************************)
(* The filter.                                                             *)
(***************************************************************************)

\* The equation of the filter, for the first n frames.
Keep(b, s, k, i) == IF s[i].kind = k THEN Append(b, s[i]) ELSE b

Filters(g, s, k, n) ==
  g = [i \in 0 .. n |-> IF i = 0 THEN <<>> ELSE Keep(g[i - 1], s, k, i)]

\* A function with this equation exists for every n.
LEMMA FilterExists ==
  ASSUME NEW s, NEW k
  PROVE  \A n \in Nat : \E g : Filters(g, s, k, n)
<1> DEFINE P(n) == \E g : Filters(g, s, k, n)
<1> SUFFICES ASSUME NEW T, T = {n \in Nat : ~P(n)}, T # {} PROVE FALSE
  OBVIOUS
<1>1. PICK m \in T : \A y \in T : m <= y
  BY LeastNat
<1>2. ~P(m) /\ m \in Nat
  OBVIOUS
<1>3. CASE m = 0
  <2> DEFINE g == [i \in 0 .. 0 |-> <<>>]
  <2>1. Filters(g, s, k, 0)
    BY DEF Filters
  <2> QED
    BY <1>2, <1>3, <2>1
<1>4. CASE m # 0
  <2>1. m - 1 \in Nat /\ m - 1 \notin T
    BY <1>1, <1>2, <1>4
  <2>2. PICK g : Filters(g, s, k, m - 1)
    BY <2>1
  <2> DEFINE h == [i \in 0 .. m |-> IF i = 0 THEN <<>> ELSE Keep(g[i - 1], s, k, i)]
  <2>3. ASSUME NEW i \in 0 .. m - 1 PROVE h[i] = g[i]
    <3>1. g[i] = IF i = 0 THEN <<>> ELSE Keep(g[i - 1], s, k, i)
      BY <2>2 DEF Filters
    <3>2. i \in 0 .. m
      BY <1>2
    <3> QED
      BY <3>1, <3>2
  <2>4. ASSUME NEW i \in 0 .. m, i # 0 PROVE h[i - 1] = g[i - 1]
    <3>1. i - 1 \in 0 .. m - 1
      BY <1>2, <2>4
    <3> QED
      BY <2>3, <3>1
  <2>5. h = [i \in 0 .. m |-> IF i = 0 THEN <<>> ELSE Keep(h[i - 1], s, k, i)]
    BY <2>4
  <2>6. Filters(h, s, k, m)
    BY <2>5 DEF Filters
  <2> QED
    BY <1>2, <2>6
<1> QED
  BY <1>3, <1>4

\* c has the frames of kind k among the first n of s, in their order: p tells
\* where they are.
Selects(p, s, n, c, k) ==
  /\ p \in [1 .. Len(c) -> 1 .. n]
  /\ \A i, j \in 1 .. Len(c) : i < j => p[i] < p[j]
  /\ \A i \in 1 .. Len(c) : c[i] = s[p[i]] /\ s[p[i]].kind = k
  /\ \A j \in 1 .. n : s[j].kind = k => \E i \in 1 .. Len(c) : p[i] = j

\* One frame more.
LEMMA SelectsNext ==
  ASSUME NEW S, NEW s \in Seq(S), NEW k, NEW n \in 1 .. Len(s),
         NEW b \in Seq(S), NEW p, Selects(p, s, n - 1, b, k), NEW c,
         c = IF s[n].kind = k THEN Append(b, s[n]) ELSE b
  PROVE  c \in Seq(S) /\ \E q : Selects(q, s, n, c, k)
<1>1. Len(b) \in Nat /\ s[n] \in S /\ n \in Nat /\ n - 1 \in Nat
  OBVIOUS
<1>2. CASE s[n].kind # k
  <2>1. c = b
    BY <1>2
  <2>2. \A i \in 1 .. Len(b) : p[i] \in 1 .. n
    BY <1>1 DEF Selects
  <2>3. Selects(p, s, n, c, k)
    BY <1>1, <1>2, <2>1, <2>2 DEF Selects
  <2> QED
    BY <2>1, <2>3
<1>3. CASE s[n].kind = k
  <2> DEFINE q == [i \in 1 .. Len(b) + 1 |-> IF i = Len(b) + 1 THEN n ELSE p[i]]
  <2>1. /\ c \in Seq(S) /\ Len(c) = Len(b) + 1 /\ c[Len(b) + 1] = s[n]
        /\ \A i \in 1 .. Len(b) : c[i] = b[i]
    BY <1>1, <1>3
  <2>2. /\ q[Len(b) + 1] = n
        /\ \A i \in 1 .. Len(b) : q[i] = p[i] /\ p[i] \in 1 .. n - 1
    BY <1>1 DEF Selects
  <2>3. q \in [1 .. Len(c) -> 1 .. n]
    <3>1. ASSUME NEW i \in 1 .. Len(b) + 1
          PROVE  (IF i = Len(b) + 1 THEN n ELSE p[i]) \in 1 .. n
      <4>1. i # Len(b) + 1 => i \in 1 .. Len(b)
        BY <1>1
      <4>2. i # Len(b) + 1 => p[i] \in 1 .. n - 1
        BY <2>2, <4>1
      <4> QED
        BY <1>1, <4>2
    <3> QED
      BY <1>1, <2>1, <3>1
  <2> HIDE DEF q
  <2>4. ASSUME NEW i \in 1 .. Len(c), NEW j \in 1 .. Len(c), i < j
        PROVE  q[i] < q[j]
    BY <1>1, <2>1, <2>2, <2>4 DEF Selects
  <2>5. ASSUME NEW i \in 1 .. Len(c)
        PROVE  c[i] = s[q[i]] /\ s[q[i]].kind = k
    BY <1>1, <1>3, <2>1, <2>2 DEF Selects
  <2>6. ASSUME NEW j \in 1 .. n, s[j].kind = k
        PROVE  \E i \in 1 .. Len(c) : q[i] = j
    <3>1. CASE j = n
      BY <1>1, <2>1, <2>2, <3>1
    <3>2. CASE j # n
      <4>1. PICK i \in 1 .. Len(b) : p[i] = j
        BY <1>1, <2>6, <3>2 DEF Selects
      <4> QED
        BY <1>1, <2>1, <2>2, <4>1, SMTT(30)
    <3> QED
      BY <3>1, <3>2
  <2>7. Selects(q, s, n, c, k)
    BY <2>3, <2>4, <2>5, <2>6 DEF Selects
  <2> QED
    BY <2>1, <2>7
<1> QED
  BY <1>2, <1>3

\* The filter returns the frames of the kind, all of them and in their order.
LEMMA OfKindSelects ==
  ASSUME NEW S, NEW s \in Seq(S), NEW k
  PROVE  OfKind(s, k) \in Seq(S) /\ \E p : Selects(p, s, Len(s), OfKind(s, k), k)
<1>1. Len(s) \in Nat
  OBVIOUS
<1>2. \E g : Filters(g, s, k, Len(s))
  BY <1>1, FilterExists
<1>3. \E g : Filters(g, s, k, Len(s)) /\ OfKind(s, k) = g[Len(s)]
  BY <1>2 DEF Filters, Keep, OfKind
<1>4. PICK g : Filters(g, s, k, Len(s)) /\ OfKind(s, k) = g[Len(s)]
  BY <1>3
<1> DEFINE P(n) == g[n] \in Seq(S) /\ \E p : Selects(p, s, n, g[n], k)
           T == {n \in 0 .. Len(s) : ~P(n)}
<1>5. T = {}
  <2> SUFFICES ASSUME T # {} PROVE FALSE
    OBVIOUS
  <2>1. T \in SUBSET Nat
    BY <1>1
  <2>2. PICK m \in T : \A y \in T : m <= y
    BY <2>1, LeastNat
  <2>3. m \in 0 .. Len(s) /\ m \in Nat /\ ~P(m)
    BY <1>1
  <2>4. CASE m = 0
    <3>1. g[0] = <<>>
      BY <1>1, <1>4 DEF Filters
    <3>2. Selects(<<>>, s, 0, <<>>, k)
      BY DEF Selects
    <3> QED
      BY <2>3, <2>4, <3>1, <3>2
  <2>5. CASE m # 0
    <3>1. m - 1 \in 0 .. Len(s) /\ m \in 1 .. Len(s) /\ m - 1 \notin T
      BY <1>1, <2>2, <2>3, <2>5, SMTT(30)
    <3>2. P(m - 1)
      BY <3>1
    <3>3. PICK p : Selects(p, s, m - 1, g[m - 1], k)
      BY <3>2
    <3>4. g[m] = IF s[m].kind = k THEN Append(g[m - 1], s[m]) ELSE g[m - 1]
      BY <1>1, <1>4, <2>3, <2>5 DEF Filters, Keep
    <3>5. P(m)
      BY <3>1, <3>2, <3>3, <3>4, SelectsNext
    <3> QED
      BY <2>3, <3>5
  <2> QED
    BY <2>4, <2>5
<1>6. P(Len(s))
  BY <1>1, <1>5
<1> QED
  BY <1>4, <1>6

\* A selection has as many frames as there are of the kind.
LEMMA SelectsCount ==
  ASSUME NEW S, NEW s \in Seq(S), NEW k, NEW c \in Seq(S), NEW p,
         Selects(p, s, Len(s), c, k)
  PROVE  IsFiniteSet(At(s, k)) /\ Cardinality(At(s, k)) = Len(c)
<1>1. Len(c) \in Nat /\ Len(s) \in Nat /\ DOMAIN s = 1 .. Len(s)
  OBVIOUS
<1>2. IsFiniteSet(1 .. Len(c)) /\ Cardinality(1 .. Len(c)) = Len(c)
  <2>1. 1 \in Int /\ Len(c) \in Int /\ (1 > Len(c) => Len(c) = 0)
    BY <1>1
  <2>2. /\ IsFiniteSet(1 .. Len(c))
        /\ Cardinality(1 .. Len(c)) = IF 1 > Len(c) THEN 0 ELSE Len(c) - 1 + 1
    BY <2>1, FS_Interval
  <2> QED
    BY <1>1, <2>1, <2>2
<1>3. p \in [1 .. Len(c) -> At(s, k)]
  BY <1>1 DEF Selects, At
<1>4. \A i, j \in 1 .. Len(c) : p[i] = p[j] => i = j
  BY <1>1 DEF Selects
<1>5. \A x \in At(s, k) : \E i \in 1 .. Len(c) : p[i] = x
  BY <1>1 DEF Selects, At
<1>6. p \in Bijection(1 .. Len(c), At(s, k))
  BY <1>3, <1>4, <1>5 DEF Bijection, Injection, Surjection, IsInjective
<1>7. ExistsBijection(1 .. Len(c), At(s, k))
  BY <1>6 DEF ExistsBijection
<1> QED
  BY <1>2, <1>7, FS_Bijection

-----------------------------------------------------------------------------
(***************************************************************************)
(* Frames and the sequences they form.                                     *)
(***************************************************************************)
Plain == MetaFrames \cup CountersFrames

\* The kind of a frame tells what it is.
LEMMA FrameKinds ==
  /\ \A f \in Frame : /\ f.kind = "meta" => f \in MetaFrames
                      /\ f.kind = "counters" => f \in CountersFrames
                      /\ f \notin {DescFrame, TornFrame} => f \in Plain
  /\ \A f \in MetaFrames : f.kind = "meta" /\ f.name \in Names /\ f.id \in Nat
  /\ \A f \in CountersFrames :
       f.kind = "counters" /\ f.from \in Nat /\ f.to \in Nat /\ f.ids \in SUBSET Nat
  /\ Plain \subseteq Frame \ {DescFrame, TornFrame}
  /\ DescFrame.kind = "desc" /\ TornFrame.kind = "torn" /\ DescFrame # TornFrame
  /\ DescFrame \in Frame /\ TornFrame \in Frame
<1>1. /\ \A f \in MetaFrames : f.kind = "meta" /\ f.name \in Names /\ f.id \in Nat
      /\ \A f \in CountersFrames :
           f.kind = "counters" /\ f.from \in Nat /\ f.to \in Nat /\ f.ids \in SUBSET Nat
  BY DEF MetaFrames, CountersFrames
<1>2. DescFrame.kind = "desc" /\ TornFrame.kind = "torn"
  BY DEF DescFrame, TornFrame
<1> QED
  BY <1>1, <1>2 DEF Frame, Plain

\* The sum of two samples.
LEMMA SumIs ==
  ASSUME NEW a \in CountersFrames, NEW b \in CountersFrames
  PROVE  /\ SumOf(a, b) \in CountersFrames /\ SumOf(a, b).from = a.from
         /\ SumOf(a, b).to = b.to /\ SumOf(a, b).ids = b.ids
  BY DEF SumOf, CountersFrames

\* f is the fold of s: m are the descriptions and c the samples, and p and q
\* tell where they are.
Folds(f, s, m, c, p, q) ==
  /\ m \in Seq(Frame) /\ Selects(p, s, Len(s), m, "meta")
  /\ c \in Seq(Frame) /\ Selects(q, s, Len(s), c, "counters")
  /\ f \in Seq(Plain) /\ Len(f) = Len(m) + Len(c) \div 2
  /\ \A i \in 1 .. Len(m) : f[i] = m[i] /\ m[i] \in MetaFrames
  /\ \A i \in 1 .. Len(c) : c[i] \in CountersFrames
  /\ \A i \in 1 .. Len(c) \div 2 : f[Len(m) + i] = SumOf(c[2 * i - 1], c[2 * i])

\* What fold makes of the frames: its descriptions, and its samples in pairs.
LEMMA FoldIs ==
  ASSUME NEW s \in Seq(Frame)
  PROVE  \E m, c, p, q : Folds(Fold(s), s, m, c, p, q)
<1> DEFINE m == Metas(s)
           c == Samples(s)
           h == [i \in 1 .. Len(c) \div 2 |-> SumOf(c[2 * i - 1], c[2 * i])]
<1>1. m \in Seq(Frame) /\ \E p : Selects(p, s, Len(s), m, "meta")
  BY OfKindSelects DEF Metas
<1>2. c \in Seq(Frame) /\ \E q : Selects(q, s, Len(s), c, "counters")
  BY OfKindSelects DEF Samples
<1>3. PICK p : Selects(p, s, Len(s), m, "meta")
  BY <1>1
<1>4. PICK q : Selects(q, s, Len(s), c, "counters")
  BY <1>2
<1>5. Fold(s) = m \o h
  BY DEF Fold
<1> HIDE DEF m, c
<1>6. \A i \in 1 .. Len(m) : m[i] \in MetaFrames
  BY <1>1, <1>3, FrameKinds DEF Selects
<1>7. \A i \in 1 .. Len(c) : c[i] \in CountersFrames
  BY <1>2, <1>4, FrameKinds DEF Selects
<1>8. Len(m) \in Nat /\ Len(c) \in Nat /\ Len(c) \div 2 \in Nat
  BY <1>1, <1>2
<1>9. ASSUME NEW i \in 1 .. Len(c) \div 2
      PROVE  h[i] = SumOf(c[2 * i - 1], c[2 * i]) /\ h[i] \in Plain
  <2>1. 2 * i - 1 \in 1 .. Len(c) /\ 2 * i \in 1 .. Len(c)
    BY <1>8
  <2>2. SumOf(c[2 * i - 1], c[2 * i]) \in CountersFrames
    BY <1>7, <2>1, SumIs
  <2> QED
    BY <2>2 DEF Plain
<1>10. h \in Seq(Plain) /\ Len(h) = Len(c) \div 2
  BY <1>8, <1>9
<1>11. m \in Seq(Plain)
  BY <1>1, <1>6, <1>8 DEF Plain
<1> HIDE DEF h
<1>12. /\ Fold(s) \in Seq(Plain) /\ Len(Fold(s)) = Len(m) + Len(c) \div 2
       /\ \A i \in 1 .. Len(m) : Fold(s)[i] = m[i]
       /\ \A i \in 1 .. Len(c) \div 2 : Fold(s)[Len(m) + i] = h[i]
  <2>1. /\ m \o h \in Seq(Plain) /\ Len(m \o h) = Len(m) + Len(h)
        /\ \A i \in 1 .. Len(m) : (m \o h)[i] = m[i]
        /\ \A i \in 1 .. Len(h) : (m \o h)[Len(m) + i] = h[i]
    BY <1>10, <1>11
  <2> QED
    BY <1>5, <1>10, <2>1
<1>13. Folds(Fold(s), s, m, c, p, q)
  BY <1>1, <1>2, <1>3, <1>4, <1>6, <1>7, <1>9, <1>12 DEF Folds
<1> QED
  BY <1>13

\* Where the samples and the descriptions of a fold are.
LEMMA FoldPositions ==
  ASSUME NEW s \in Seq(Frame), NEW f, NEW m, NEW c, NEW p, NEW q, Folds(f, s, m, c, p, q)
  PROVE  /\ Len(m) \in Nat /\ Len(c) \in Nat /\ Len(f) \in Nat /\ Len(s) \in Nat
         /\ DOMAIN f = 1 .. Len(f) /\ DOMAIN s = 1 .. Len(s)
         /\ At(f, "meta") = 1 .. Len(m)
         /\ \A i \in 1 .. Len(m) : p[i] \in At(s, "meta") /\ f[i] = s[p[i]]
         /\ At(f, "counters") = Len(m) + 1 .. Len(m) + Len(c) \div 2
         /\ \A j \in At(f, "counters") :
              \E a, b \in At(s, "counters") :
                /\ a < b /\ a = q[2 * (j - Len(m)) - 1] /\ b = q[2 * (j - Len(m))]
                /\ f[j].from = s[a].from /\ f[j].to = s[b].to /\ f[j].ids = s[b].ids
<1>1. /\ Len(m) \in Nat /\ Len(c) \in Nat /\ Len(f) \in Nat /\ Len(s) \in Nat
      /\ DOMAIN f = 1 .. Len(f) /\ DOMAIN s = 1 .. Len(s)
      /\ Len(f) = Len(m) + Len(c) \div 2
  BY DEF Folds
<1>2. ASSUME NEW i \in 1 .. Len(m)
      PROVE  /\ i \in 1 .. Len(f) /\ f[i].kind = "meta"
             /\ p[i] \in At(s, "meta") /\ f[i] = s[p[i]]
  <2>1. f[i] = m[i] /\ m[i] \in MetaFrames /\ m[i] = s[p[i]] /\ p[i] \in 1 .. Len(s)
    BY <1>1 DEF Folds, Selects
  <2> QED
    BY <1>1, <2>1, FrameKinds DEF At
<1>3. ASSUME NEW i \in 1 .. Len(c) PROVE q[i] \in At(s, "counters") /\ c[i] = s[q[i]]
  BY <1>1 DEF Folds, Selects, At
<1>4. ASSUME NEW j \in 1 .. Len(f), j \notin 1 .. Len(m)
      PROVE  /\ f[j].kind = "counters"
             /\ \E a, b \in At(s, "counters") :
                  /\ a < b /\ a = q[2 * (j - Len(m)) - 1] /\ b = q[2 * (j - Len(m))]
                  /\ f[j].from = s[a].from /\ f[j].to = s[b].to /\ f[j].ids = s[b].ids
  <2> DEFINE i == j - Len(m)
  <2>1. i \in 1 .. Len(c) \div 2 /\ j = Len(m) + i
    BY <1>1, <1>4
  <2>2. f[Len(m) + i] = SumOf(c[2 * i - 1], c[2 * i])
    BY <2>1 DEF Folds
  <2> HIDE DEF i
  <2> DEFINE x == 2 * i - 1
             y == 2 * i
  <2>3. x \in 1 .. Len(c) /\ y \in 1 .. Len(c) /\ x < y
    BY <1>1, <2>1
  <2>4. f[j] = SumOf(c[x], c[y])
    BY <2>1, <2>2
  <2>5. x = 2 * (j - Len(m)) - 1 /\ y = 2 * (j - Len(m))
    BY DEF i
  <2> HIDE DEF x, y
  <2>6. c[x] \in CountersFrames /\ c[y] \in CountersFrames
    BY <2>3 DEF Folds
  <2>7. /\ f[j].kind = "counters"
        /\ f[j].from = c[x].from /\ f[j].to = c[y].to /\ f[j].ids = c[y].ids
    BY <2>4, <2>6, SumIs, FrameKinds
  <2>8. q[x] < q[y]
    BY <2>3 DEF Folds, Selects
  <2> QED
    BY <1>3, <2>3, <2>5, <2>7, <2>8
<1>5. At(f, "meta") = 1 .. Len(m)
  BY <1>1, <1>2, <1>4 DEF At
<1>6. At(f, "counters") = Len(m) + 1 .. Len(m) + Len(c) \div 2
  <2>1. At(f, "counters") = 1 .. Len(f) \ 1 .. Len(m)
    BY <1>1, <1>2, <1>4 DEF At
  <2> DEFINE a == Len(m)
             b == Len(c) \div 2
  <2>2. a \in Nat /\ b \in Nat /\ Len(f) = a + b
    BY <1>1
  <2> HIDE DEF a, b
  <2>3. 1 .. a + b \ 1 .. a = a + 1 .. a + b
    BY <2>2
  <2> QED
    BY <2>1, <2>2, <2>3 DEF a, b
<1>7. \A j \in At(f, "counters") : j \in 1 .. Len(f) /\ j \notin 1 .. Len(m)
  BY <1>1, <1>6
<1> QED
  BY <1>1, <1>2, <1>4, <1>5, <1>6, <1>7

\* A fold can be read from the front if what is folded can.
LEMMA FoldSound ==
  ASSUME NEW s \in Seq(Frame), NEW t \in Nat, Sound(s, t)
  PROVE  Sound(Fold(s), t)
<1> DEFINE f == Fold(s)
<1>1. PICK m, c, p, q : Folds(f, s, m, c, p, q)
  BY FoldIs
<1> HIDE DEF f
<1>2. /\ Len(m) \in Nat /\ Len(c) \in Nat /\ Len(s) \in Nat /\ DOMAIN s = 1 .. Len(s)
      /\ At(f, "meta") = 1 .. Len(m)
      /\ \A i \in 1 .. Len(m) : p[i] \in At(s, "meta") /\ f[i] = s[p[i]]
      /\ At(f, "counters") = Len(m) + 1 .. Len(m) + Len(c) \div 2
      /\ \A j \in At(f, "counters") :
           \E a, b \in At(s, "counters") :
             /\ a < b /\ a = q[2 * (j - Len(m)) - 1] /\ b = q[2 * (j - Len(m))]
             /\ f[j].from = s[a].from /\ f[j].to = s[b].to /\ f[j].ids = s[b].ids
  BY <1>1, FoldPositions
<1>3. \A i \in At(s, "counters") : i \in Nat /\ s[i].from \in Nat /\ s[i].to \in Nat
  BY <1>2, FrameKinds DEF At
<1>4. ASSUME NEW j \in At(f, "counters"), NEW id \in f[j].ids
      PROVE  \E i \in At(f, "meta") : i < j /\ f[i].id = id
  <2>1. PICK b \in At(s, "counters") : id \in s[b].ids
    BY <1>2
  <2>2. PICK i \in At(s, "meta") : s[i].id = id
    BY <2>1 DEF Sound, IdsDescribed
  <2>3. PICK x \in 1 .. Len(m) : p[x] = i
    BY <1>1, <1>2, <2>2 DEF Folds, Selects, At
  <2> QED
    BY <1>2, <2>2, <2>3, SMTT(30)
<1>5. ASSUME NEW i \in At(f, "counters"), NEW j \in At(f, "counters"), i < j
      PROVE  f[i].to < f[j].from
  <2>1. PICK b \in At(s, "counters") : b = q[2 * (i - Len(m))] /\ f[i].to = s[b].to
    BY <1>2
  <2>2. PICK a \in At(s, "counters") : a = q[2 * (j - Len(m)) - 1] /\ f[j].from = s[a].from
    BY <1>2
  <2> DEFINE x == 2 * (i - Len(m))
             y == 2 * (j - Len(m)) - 1
  <2>3. x \in 1 .. Len(c) /\ y \in 1 .. Len(c) /\ x < y
    BY <1>2, <1>5, SMTT(30)
  <2> HIDE DEF x, y
  <2>4. q[x] < q[y]
    BY <1>1, <2>3 DEF Folds, Selects
  <2>5. b < a
    BY <2>1, <2>2, <2>4 DEF x, y
  <2> QED
    BY <2>1, <2>2, <2>5 DEF Sound, InOrder
<1>6. ASSUME NEW j \in At(f, "counters")
      PROVE  f[j].from <= f[j].to /\ f[j].to <= t
  <2>1. PICK a, b \in At(s, "counters") :
          a < b /\ f[j].from = s[a].from /\ f[j].to = s[b].to
    BY <1>2
  <2>2. s[a].from <= s[a].to /\ s[a].to < s[b].from /\ s[b].from <= s[b].to /\ s[b].to <= t
    BY <2>1 DEF Sound, Past, InOrder
  <2> QED
    BY <1>3, <2>1, <2>2
<1>7. Sound(f, t)
  BY <1>4, <1>5, <1>6 DEF Sound, IdsDescribed, InOrder, Past
<1> QED
  BY <1>7 DEF f

\* A fold keeps the ids of the counters.
LEMMA FoldNumbered ==
  ASSUME NEW s \in Seq(Frame), NEW n, Numbered(s, n)
  PROVE  Numbered(Fold(s), n)
<1> DEFINE f == Fold(s)
<1>1. PICK m, c, p, q : Folds(f, s, m, c, p, q)
  BY FoldIs
<1> HIDE DEF f
<1>2. /\ Len(m) \in Nat /\ Len(s) \in Nat
      /\ At(f, "meta") = 1 .. Len(m)
      /\ \A i \in 1 .. Len(m) : p[i] \in At(s, "meta") /\ f[i] = s[p[i]]
  BY <1>1, FoldPositions
<1>3. \A i, j \in 1 .. Len(m) : p[i] = p[j] => i = j
  <2>1. \A i \in 1 .. Len(m) : p[i] \in 1 .. Len(s)
    BY <1>1 DEF Folds, Selects
  <2>2. \A i, j \in 1 .. Len(m) : i < j => p[i] < p[j]
    BY <1>1 DEF Folds, Selects
  <2> QED
    BY <1>2, <2>1, <2>2
<1>4. Numbered(f, n)
  BY <1>2, <1>3, SMTT(30) DEF Numbered, OneIdPerName
<1> QED
  BY <1>4 DEF f

\* Division by a period and then by two, and the sample of one more period.
LEMMA QuotientIs ==
  ASSUME NEW t \in Nat, NEW p \in Nat \ {0}, NEW x \in Nat, NEW r \in Nat,
         t = p * x + r, r < p
  PROVE  t \div p = x
  OBVIOUS

\* The number of periods that have passed is halved when the period is doubled.
LEMMA Halves ==
  ASSUME NEW t \in Nat, NEW p \in Nat \ {0}
  PROVE  (t \div p) \div 2 = t \div (2 * p)
<1> DEFINE x == t \div p
           r == t % p
           h == x \div 2
           b == x % 2
<1>1. x \in Nat /\ r \in Nat /\ r < p /\ t = p * x + r
  OBVIOUS
<1> HIDE DEF x, r
<1>2. h \in Nat /\ b \in {0, 1} /\ x = 2 * h + b
  BY <1>1
<1> HIDE DEF h, b
<1>3. t = (2 * p) * h + (p * b + r)
  BY <1>1, <1>2
<1>4. p * b + r \in Nat /\ p * b + r < 2 * p /\ 2 * p \in Nat \ {0}
  BY <1>1, <1>2
<1>5. t \div (2 * p) = h
  BY <1>2, <1>3, <1>4, QuotientIs
<1> QED
  BY <1>5 DEF h, x

\* A sample is one more period.
LEMMA OneMore ==
  ASSUME NEW t \in Nat, NEW p \in Nat \ {0}
  PROVE  (t + p) \div p = t \div p + 1
<1> DEFINE x == t \div p
           r == t % p
<1>1. x \in Nat /\ r \in Nat /\ r < p /\ t = p * x + r
  OBVIOUS
<1> HIDE DEF x, r
<1>2. t + p = p * (x + 1) + r /\ x + 1 \in Nat /\ t + p \in Nat
  BY <1>1
<1>3. (t + p) \div p = x + 1
  BY <1>1, <1>2, QuotientIs
<1> QED
  BY <1>3 DEF x

\* Two samples one after the other.
LEMMA TwoPeriods ==
  ASSUME NEW d \in Nat, NEW u \in Nat, NEW v \in Nat, NEW w \in Nat, NEW x \in Nat,
         v - u + 1 >= d, x - w + 1 >= d, v < w
  PROVE  x - u + 1 >= 2 * d
  OBVIOUS

\* A fold halves the number of samples.
LEMMA FoldCount ==
  ASSUME NEW s \in Seq(Frame)
  PROVE  Cardinality(At(Fold(s), "counters")) = Cardinality(At(s, "counters")) \div 2
<1> DEFINE f == Fold(s)
<1>1. PICK m, c, p, q : Folds(f, s, m, c, p, q)
  BY FoldIs
<1> HIDE DEF f
<1>2. /\ Len(m) \in Nat /\ Len(c) \in Nat
      /\ At(f, "counters") = Len(m) + 1 .. Len(m) + Len(c) \div 2
  BY <1>1, FoldPositions
<1>3. Cardinality(At(s, "counters")) = Len(c)
  BY <1>1, SelectsCount DEF Folds
<1>4. Cardinality(At(f, "counters")) = Len(c) \div 2
  <2> DEFINE a == Len(m) + 1
             b == Len(m) + Len(c) \div 2
  <2>1. a \in Int /\ b \in Int /\ (IF a > b THEN 0 ELSE b - a + 1) = Len(c) \div 2
    BY <1>2
  <2> HIDE DEF a, b
  <2>2. Cardinality(a .. b) = IF a > b THEN 0 ELSE b - a + 1
    BY <2>1, FS_Interval
  <2> QED
    BY <1>2, <2>1, <2>2 DEF a, b
<1> QED
  BY <1>3, <1>4 DEF f

\* ... and doubles their length.
LEMMA FoldPeriod ==
  ASSUME NEW s \in Seq(Frame), NEW t \in Nat, NEW d \in Nat \ {0},
         Sound(s, t), PerPeriod(s, t, d)
  PROVE  PerPeriod(Fold(s), t, 2 * d)
<1> DEFINE f == Fold(s)
<1>1. PICK m, c, p, q : Folds(f, s, m, c, p, q)
  BY FoldIs
<1> HIDE DEF f
<1>2. /\ Len(m) \in Nat /\ Len(c) \in Nat /\ Len(s) \in Nat /\ DOMAIN s = 1 .. Len(s)
      /\ At(f, "counters") = Len(m) + 1 .. Len(m) + Len(c) \div 2
      /\ \A j \in At(f, "counters") :
           \E a, b \in At(s, "counters") :
             a < b /\ f[j].from = s[a].from /\ f[j].to = s[b].to
  BY <1>1, FoldPositions
<1>3. \A i \in At(s, "counters") : i \in Nat /\ s[i].from \in Nat /\ s[i].to \in Nat
  BY <1>2, FrameKinds DEF At
<1>4. ASSUME NEW j \in At(f, "counters")
      PROVE  f[j].to - f[j].from + 1 >= 2 * d
  <2>1. PICK a, b \in At(s, "counters") :
          a < b /\ f[j].from = s[a].from /\ f[j].to = s[b].to
    BY <1>2
  <2>2. /\ s[a].to - s[a].from + 1 >= d /\ s[b].to - s[b].from + 1 >= d
        /\ s[a].to < s[b].from
    BY <2>1 DEF Sound, PerPeriod, InOrder
  <2>3. s[a].from \in Nat /\ s[a].to \in Nat /\ s[b].from \in Nat /\ s[b].to \in Nat
    BY <1>3
  <2>4. s[b].to - s[a].from + 1 >= 2 * d
    BY <2>2, <2>3, TwoPeriods
  <2> QED
    BY <2>1, <2>4
<1>5. Cardinality(At(f, "counters")) = (t \div d) \div 2
  BY FoldCount DEF f, PerPeriod
<1>7. (t \div d) \div 2 = t \div (2 * d)
  BY Halves
<1>8. PerPeriod(f, t, 2 * d)
  BY <1>4, <1>5, <1>7 DEF PerPeriod
<1> QED
  BY <1>8 DEF f

-----------------------------------------------------------------------------
(***************************************************************************)
(* The frames of a push.                                                   *)
(***************************************************************************)

\* The id of a name that is described is in a description.
LEMMA IdIsDescribed ==
  ASSUME NEW s \in Seq(Frame), NEW name, Describes(s, name) # {}
  PROVE  \E i \in At(s, "meta") : s[i].id = IdOf(s, name)
<1> DEFINE D == Describes(s, name)
           T == {Len(s) - i : i \in D}
<1>1. D \in SUBSET (1 .. Len(s)) /\ Len(s) \in Nat /\ D # {}
  BY DEF Describes, At
<1>2. D \subseteq At(s, "meta")
  BY DEF Describes
<1>3. IdOf(s, name) = s[CHOOSE i \in D : \A j \in D : j <= i].id
  BY DEF IdOf
<1> HIDE DEF D
<1>4. T \in SUBSET Nat /\ T # {}
  <2>1. \A i \in D : Len(s) - i \in Nat
    BY <1>1
  <2>2. \E i : i \in D
    BY <1>1
  <2> QED
    BY <2>1, <2>2
<1>5. PICK x \in T : \A y \in T : x <= y
  BY <1>4, LeastNat
<1>6. PICK i \in D : x = Len(s) - i
  OBVIOUS
<1>7. \A j \in D : Len(s) - i <= Len(s) - j
  BY <1>5, <1>6
<1>8. \A j \in D : j <= i
  BY <1>1, <1>7
<1>9. (CHOOSE k \in D : \A j \in D : j <= k) \in D
  BY <1>8
<1> QED
  BY <1>2, <1>3, <1>9

\* new is what a push at time t with period p writes behind s: descriptions in
\* this order, with ids from n on, and a sample whose ids are described.
Pushed(new, s, order, n, t, p) ==
  /\ new \in Seq(Plain) /\ Len(order) \in Nat /\ Len(new) = Len(order) + 1
  /\ \A i \in 1 .. Len(order) : /\ new[i].kind = "meta"
                                /\ new[i].name = order[i] /\ new[i].id = n + i - 1
  /\ new[Len(order) + 1].kind = "counters"
  /\ new[Len(order) + 1].from = t + 1 /\ new[Len(order) + 1].to = t + p
  /\ \A id \in new[Len(order) + 1].ids :
       \/ \E i \in At(s, "meta") : s[i].id = id
       \/ \E i \in 1 .. Len(order) : new[i].id = id

\* An order lists every new counter once.
LEMMA OrderIs ==
  ASSUME NEW D, IsFiniteSet(D), NEW order \in Orders(D)
  PROVE  /\ order \in Seq(D) /\ Len(order) = Cardinality(D) /\ Len(order) \in Nat
         /\ DOMAIN order = 1 .. Len(order)
         /\ \A x \in D : \E i \in 1 .. Len(order) : order[i] = x
         /\ \A i, j \in 1 .. Len(order) : order[i] = order[j] => i = j
<1>1. Cardinality(D) \in Nat
  BY FS_CardinalityType
<1>2. /\ order \in [1 .. Cardinality(D) -> D]
      /\ \A x \in D : \E i \in 1 .. Cardinality(D) : order[i] = x
      /\ \A i, j \in 1 .. Cardinality(D) : order[i] = order[j] => i = j
  BY DEF Orders, Bijection, Injection, Surjection, IsInjective
<1>3. order \in Seq(D) /\ Len(order) = Cardinality(D)
  BY <1>1, <1>2
<1> QED
  BY <1>1, <1>2, <1>3

\* The descriptions of the new counters.
LEMMA MetasAre ==
  ASSUME nextId \in Nat, NEW D \in SUBSET Names, IsFiniteSet(D), NEW order \in Orders(D)
  PROVE  /\ NewMetas(order) \in Seq(MetaFrames) /\ Len(NewMetas(order)) = Len(order)
         /\ \A i \in 1 .. Len(order) : /\ NewMetas(order)[i].kind = "meta"
                                       /\ NewMetas(order)[i].name = order[i]
                                       /\ NewMetas(order)[i].id = nextId + i - 1
<1> DEFINE e(i) == [kind |-> "meta", name |-> order[i], id |-> nextId + i - 1]
           g == [i \in 1 .. Len(order) |-> e(i)]
<1>1. order \in Seq(D) /\ Len(order) \in Nat /\ DOMAIN order = 1 .. Len(order)
  BY OrderIs
<1>2. NewMetas(order) = g
  BY <1>1 DEF NewMetas
<1>3. ASSUME NEW i \in 1 .. Len(order)
      PROVE  /\ e(i) \in MetaFrames /\ e(i).kind = "meta" /\ e(i).name = order[i]
             /\ e(i).id = nextId + i - 1
  <2>1. order[i] \in Names /\ nextId + i - 1 \in Nat
    BY <1>1
  <2> QED
    BY <2>1 DEF MetaFrames
<1> HIDE DEF e
<1>4. \A i \in 1 .. Len(order) : g[i] = e(i) /\ g[i] \in MetaFrames
  BY <1>3
<1>5. g \in Seq(MetaFrames) /\ Len(g) = Len(order)
  BY <1>1, <1>4
<1> HIDE DEF g
<1> QED
  BY <1>2, <1>3, <1>4, <1>5

\* What a push writes: descriptions with new ids, and one sample of ids that are described.
LEMMA WrittenIs ==
  ASSUME frames \in Seq(Frame), nextId \in Nat, clock \in Nat, period \in Nat \ {0},
         NEW S \in SUBSET Names, NEW order \in Orders(S \ Described(frames))
  PROVE  Pushed(Written(order, S), frames, order, nextId, clock, period)
<1> DEFINE D == S \ Described(frames)
           metas == NewMetas(order)
           all == frames \o metas
           z == Sample(all, S)
           new == Written(order, S)
<1>1. IsFiniteSet(D) /\ D \subseteq Names
  BY FS_Subset, SizesAssumption
<1>2. /\ order \in Seq(D) /\ Len(order) = Cardinality(D) /\ Len(order) \in Nat
      /\ DOMAIN order = 1 .. Len(order)
      /\ \A x \in D : \E i \in 1 .. Len(order) : order[i] = x
  BY <1>1, OrderIs, SMTT(30)
<1>3. new = metas \o <<z>>
  BY DEF Written
<1>4. \A i \in 1 .. Len(order) : /\ metas[i].kind = "meta" /\ metas[i].name = order[i]
                                   /\ metas[i].id = nextId + i - 1
  BY <1>1, MetasAre
<1>5. metas \in Seq(MetaFrames) /\ Len(metas) = Len(order)
  BY <1>1, MetasAre
<1> HIDE DEF D, metas
<1>6. /\ all \in Seq(Frame) /\ Len(frames) \in Nat /\ Len(all) = Len(frames) + Len(order)
      /\ \A i \in 1 .. Len(frames) : all[i] = frames[i]
      /\ \A i \in 1 .. Len(order) : all[Len(frames) + i] = metas[i]
      /\ \A i \in 1 .. Len(all) : i \notin 1 .. Len(frames) =>
           i - Len(frames) \in 1 .. Len(order) /\ all[i] = metas[i - Len(frames)]
  <2>1. metas \in Seq(Frame)
    BY <1>5 DEF Frame
  <2>2. all \in Seq(Frame) /\ Len(frames) \in Nat /\ Len(all) = Len(frames) + Len(metas)
    BY <2>1
  <2>3. /\ \A i \in 1 .. Len(frames) : all[i] = frames[i]
        /\ \A i \in 1 .. Len(metas) : all[Len(frames) + i] = metas[i]
    BY <1>2, <1>5, <2>1
  <2>4. ASSUME NEW i \in 1 .. Len(all), i \notin 1 .. Len(frames)
        PROVE  i - Len(frames) \in 1 .. Len(metas) /\ all[i] = metas[i - Len(frames)]
    <3>1. i - Len(frames) \in 1 .. Len(metas) /\ i = Len(frames) + (i - Len(frames))
      BY <1>2, <1>5, <2>2, <2>4
    <3> QED
      BY <2>3, <3>1
  <2> QED
    BY <1>5, <2>2, <2>3, <2>4
<1> HIDE DEF all
<1>7. ASSUME NEW name \in S PROVE Describes(all, name) # {}
  <2>1. CASE name \in Described(frames)
    <3>1. PICK i \in At(frames, "meta") : frames[i].name = name
      BY <2>1 DEF Described, Describes
    <3>2. i \in 1 .. Len(frames)
      BY DEF At
    <3>3. i \in 1 .. Len(all) /\ all[i] = frames[i]
      BY <1>2, <1>6, <3>2
    <3> QED
      BY <1>6, <3>1, <3>3 DEF Describes, At
  <2>2. CASE name \notin Described(frames)
    <3>1. PICK i \in 1 .. Len(order) : order[i] = name
      BY <1>2, <2>2 DEF D
    <3> DEFINE x == Len(frames) + i
    <3>2. x \in 1 .. Len(all) /\ all[x] = metas[i]
      BY <1>2, <1>6
    <3> HIDE DEF x
    <3>3. x \in DOMAIN all /\ all[x].kind = "meta" /\ all[x].name = name
      <4>1. DOMAIN all = 1 .. Len(all)
        BY <1>6
      <4>2. metas[i].kind = "meta" /\ metas[i].name = order[i]
        BY <1>4
      <4> QED
        BY <3>1, <3>2, <4>1, <4>2
    <3> QED
      BY <3>3 DEF Describes, At
  <2> QED
    BY <2>1, <2>2
<1>8. ASSUME NEW id \in {IdOf(all, name) : name \in S}
      PROVE  /\ id \in Nat
             /\ \/ \E i \in At(frames, "meta") : frames[i].id = id
                \/ \E i \in 1 .. Len(order) : metas[i].id = id
  <2>1. PICK name \in S : id = IdOf(all, name)
    OBVIOUS
  <2>2. PICK i \in At(all, "meta") : all[i].id = id
    BY <1>6, <1>7, <2>1, IdIsDescribed
  <2>3. i \in 1 .. Len(all) /\ all[i].kind = "meta" /\ all[i] \in Frame
    BY <1>6 DEF At
  <2>4. id \in Nat
    BY <2>2, <2>3, FrameKinds
  <2>5. CASE i \in 1 .. Len(frames)
    BY <1>6, <2>2, <2>3, <2>4, <2>5 DEF At
  <2>6. CASE i \notin 1 .. Len(frames)
    BY <1>6, <2>2, <2>3, <2>4, <2>6
  <2> QED
    BY <2>5, <2>6
<1>9. /\ z \in CountersFrames /\ z.kind = "counters"
      /\ z.from = clock + 1 /\ z.to = clock + period
      /\ z.ids = {IdOf(all, name) : name \in S}
  <2>1. {IdOf(all, name) : name \in S} \in SUBSET Nat
    BY <1>8
  <2>2. clock + 1 \in Nat /\ clock + period \in Nat
    OBVIOUS
  <2> QED
    BY <2>1, <2>2 DEF Sample, CountersFrames
<1> HIDE DEF z
<1>10. /\ new \in Seq(Plain) /\ Len(new) = Len(order) + 1 /\ new[Len(order) + 1] = z
       /\ \A i \in 1 .. Len(order) : new[i] = metas[i]
  <2>1. metas \in Seq(Plain) /\ z \in Plain
    BY <1>5, <1>9 DEF Plain
  <2> QED
    BY <1>2, <1>3, <1>5, <2>1
<1> HIDE DEF new
<1>11. \A i \in 1 .. Len(order) :
         new[i].kind = "meta" /\ new[i].name = order[i] /\ new[i].id = nextId + i - 1
  BY <1>4, <1>10
<1>12. \A id \in z.ids : \/ \E i \in At(frames, "meta") : frames[i].id = id
                         \/ \E i \in 1 .. Len(order) : new[i].id = id
  BY <1>8, <1>9, <1>10
<1>13. Pushed(new, frames, order, nextId, clock, period)
  BY <1>2, <1>9, <1>10, <1>11, <1>12 DEF Pushed
<1> QED
  BY <1>13 DEF new

\* Where the frames are when a push is written behind d.
Extended(e, d, new, order) ==
  /\ e \in Seq(Frame) /\ Len(d) \in Nat /\ Len(order) \in Nat
  /\ Len(e) = Len(d) + Len(order) + 1
  /\ DOMAIN d = 1 .. Len(d) /\ DOMAIN e = 1 .. Len(e)
  /\ \A i \in 1 .. Len(d) : i \in 1 .. Len(e) /\ e[i] = d[i]
  /\ \A i \in 1 .. Len(order) : Len(d) + i \in 1 .. Len(e) /\ e[Len(d) + i] = new[i]
  /\ e[Len(e)] = new[Len(order) + 1]
  /\ \A i \in 1 .. Len(e) : i \in 1 .. Len(d) \/ i - Len(d) \in 1 .. Len(order) \/ i = Len(e)

\* Frames with those of a push appended.
LEMMA ExtendIs ==
  ASSUME NEW d \in Seq(Frame), NEW new, NEW s, NEW order, NEW n \in Nat, NEW t, NEW p,
         Pushed(new, s, order, n, t, p)
  PROVE  Extended(d \o new, d, new, order)
<1> DEFINE e == d \o new
<1>1. /\ new \in Seq(Plain) /\ Len(order) \in Nat /\ Len(new) = Len(order) + 1
      /\ new \in Seq(Frame)
  BY FrameKinds DEF Pushed
<1>2. e \in Seq(Frame) /\ Len(d) \in Nat /\ Len(e) = Len(d) + Len(new)
  <2>1. new \in Seq(Frame)
    BY <1>1
  <2> QED
    BY <2>1
<1>3. \A i \in 1 .. Len(d) : e[i] = d[i]
  BY <1>1, <1>2
<1>4. \A i \in 1 .. Len(new) : e[Len(d) + i] = new[i]
  BY <1>1, <1>2
<1>5. DOMAIN d = 1 .. Len(d) /\ DOMAIN e = 1 .. Len(e)
  BY <1>2
<1>6. Len(order) + 1 \in 1 .. Len(new) /\ Len(e) = Len(d) + (Len(order) + 1)
  BY <1>1, <1>2
<1>7. e[Len(e)] = new[Len(order) + 1]
  BY <1>4, <1>6
<1>8. \A i \in 1 .. Len(order) : i \in 1 .. Len(new) /\ Len(d) + i \in 1 .. Len(e)
  BY <1>1, <1>2
<1>9. \A i \in 1 .. Len(e) : \/ i \in 1 .. Len(d)
                             \/ i - Len(d) \in 1 .. Len(order)
                             \/ i = Len(e)
  <2> DEFINE a == Len(d)
             b == Len(order)
  <2>1. a \in Nat /\ b \in Nat /\ Len(e) = a + (b + 1)
    BY <1>1, <1>2
  <2> HIDE DEF a, b
  <2>2. \A i \in 1 .. a + (b + 1) : i \in 1 .. a \/ i - a \in 1 .. b \/ i = a + (b + 1)
    BY <2>1
  <2> QED
    BY <2>1, <2>2 DEF a, b
<1>10. \A i \in 1 .. Len(d) : i \in 1 .. Len(e)
  BY <1>1, <1>2
<1> HIDE DEF e
<1>11. Extended(e, d, new, order)
  BY <1>1, <1>2, <1>3, <1>4, <1>5, <1>6, <1>7, <1>8, <1>9, <1>10 DEF Extended
<1> QED
  BY <1>11 DEF e

\* The samples of it are the ones of d and the last frame; the other new
\* frames are descriptions.
Placed(e, d, order) ==
  /\ At(e, "counters") = At(d, "counters") \cup {Len(e)}
  /\ Len(e) \notin At(d, "counters")
  /\ \A i \in At(d, "counters") : e[i] = d[i] /\ i \in Nat /\ i < Len(e)
  /\ \A i \in At(d, "meta") : i \in At(e, "meta") /\ e[i] = d[i]
  /\ \A i \in 1 .. Len(order) : Len(d) + i \in At(e, "meta")
  /\ \A i \in At(e, "meta") : i \in At(d, "meta") \/ i - Len(d) \in 1 .. Len(order)

\* Where the descriptions and samples of an extended trace are.
LEMMA ExtendPositions ==
  ASSUME NEW d \in Seq(Frame), NEW new, NEW s, NEW order, NEW n \in Nat, NEW t, NEW p,
         Pushed(new, s, order, n, t, p)
  PROVE  Placed(d \o new, d, order)
<1> DEFINE e == d \o new
<1>0. Extended(e, d, new, order)
  BY ExtendIs
<1> HIDE DEF e
<1>1. /\ e \in Seq(Frame) /\ Len(d) \in Nat /\ Len(order) \in Nat
      /\ Len(e) = Len(d) + Len(order) + 1
      /\ DOMAIN d = 1 .. Len(d) /\ DOMAIN e = 1 .. Len(e)
      /\ \A i \in 1 .. Len(d) : i \in 1 .. Len(e) /\ e[i] = d[i]
      /\ \A i \in 1 .. Len(order) : Len(d) + i \in 1 .. Len(e) /\ e[Len(d) + i] = new[i]
      /\ e[Len(e)] = new[Len(order) + 1]
      /\ \A i \in 1 .. Len(e) : i \in 1 .. Len(d) \/ i - Len(d) \in 1 .. Len(order) \/ i = Len(e)
  BY <1>0 DEF Extended
<1>2. \A i \in 1 .. Len(order) : e[Len(d) + i].kind = "meta"
  BY <1>1 DEF Pushed
<1>3. e[Len(e)].kind = "counters"
  BY <1>1 DEF Pushed
<1>4. ASSUME NEW i \in 1 .. Len(e), i - Len(d) \in 1 .. Len(order)
      PROVE  e[i].kind = "meta"
  <2>1. i = Len(d) + (i - Len(d))
    BY <1>1
  <2> QED
    BY <1>2, <1>4, <2>1
<1>5. \A i \in At(d, "counters") : e[i] = d[i] /\ i \in Nat /\ i < Len(e)
  BY <1>1 DEF At
<1>6. Len(e) \in 1 .. Len(e) /\ Len(e) \notin 1 .. Len(d) /\ Len(e) - Len(d) \notin 1 .. Len(order)
  BY <1>1
<1>7. At(e, "counters") = At(d, "counters") \cup {Len(e)}
  <2>1. ASSUME NEW i \in At(e, "counters") PROVE i \in At(d, "counters") \cup {Len(e)}
    <3>1. i \in 1 .. Len(e) /\ e[i].kind = "counters"
      BY <1>1 DEF At
    <3> QED
      BY <1>1, <1>4, <3>1 DEF At
  <2>2. ASSUME NEW i \in At(d, "counters") PROVE i \in At(e, "counters")
    BY <1>1 DEF At
  <2>3. Len(e) \in At(e, "counters")
    BY <1>1, <1>3, <1>6 DEF At
  <2> QED
    BY <2>1, <2>2, <2>3
<1>8. \A i \in At(d, "meta") : i \in At(e, "meta") /\ e[i] = d[i]
  BY <1>1 DEF At
<1>9. \A i \in 1 .. Len(order) : Len(d) + i \in At(e, "meta")
  BY <1>1, <1>2 DEF At
<1>10. ASSUME NEW i \in At(e, "meta")
       PROVE  i \in At(d, "meta") \/ i - Len(d) \in 1 .. Len(order)
  <2>1. i \in 1 .. Len(e) /\ e[i].kind = "meta"
    BY <1>1 DEF At
  <2> QED
    BY <1>1, <1>3, <2>1 DEF At
<1>11. Len(e) \notin At(d, "counters")
  BY <1>1, <1>6 DEF At
<1>12. Placed(e, d, order)
  BY <1>5, <1>7, <1>8, <1>9, <1>10, <1>11 DEF Placed
<1> QED
  BY <1>12 DEF e

\* A file that can be read from the front can be read after a push if it has
\* the descriptions that the push finds in memory.
LEMMA ExtendSound ==
  ASSUME NEW d \in Seq(Frame), NEW new, NEW s, NEW order, NEW n \in Nat,
         NEW t \in Nat, NEW p \in Nat \ {0}, Pushed(new, s, order, n, t, p), Sound(d, t),
         \A i \in At(s, "meta") : \E j \in At(d, "meta") : d[j].id = s[i].id
  PROVE  Sound(d \o new, t + p)
<1> DEFINE e == d \o new
           z == Len(e)
<1>0. Extended(e, d, new, order) /\ Placed(e, d, order)
  BY ExtendIs, ExtendPositions
<1> HIDE DEF e
<1>1. /\ At(e, "counters") = At(d, "counters") \cup {z}
      /\ \A i \in At(d, "counters") : e[i] = d[i] /\ i \in Nat /\ i < z
      /\ \A i \in At(d, "meta") : i \in At(e, "meta") /\ e[i] = d[i]
      /\ \A i \in 1 .. Len(order) : Len(d) + i \in At(e, "meta")
  BY <1>0 DEF Placed
<1>2. /\ Len(d) \in Nat /\ Len(order) \in Nat /\ z = Len(d) + Len(order) + 1
      /\ DOMAIN d = 1 .. Len(d)
      /\ \A i \in 1 .. Len(order) : e[Len(d) + i] = new[i]
      /\ e[z] = new[Len(order) + 1]
  BY <1>0 DEF Extended
<1>3. e[z].from = t + 1 /\ e[z].to = t + p
  BY <1>2 DEF Pushed
<1>4. \A id \in e[z].ids : \/ \E i \in At(s, "meta") : s[i].id = id
                           \/ \E i \in 1 .. Len(order) : new[i].id = id
  BY <1>2 DEF Pushed
<1> HIDE DEF e, z
<1>5. \A i \in At(d, "counters") : d[i].from \in Nat /\ d[i].to \in Nat
  BY <1>2, FrameKinds DEF At
<1>6. \A i \in At(d, "meta") : i \in 1 .. Len(d)
  BY <1>2 DEF At
<1>7. ASSUME NEW j \in At(e, "counters"), NEW id \in e[j].ids
      PROVE  \E i \in At(e, "meta") : i < j /\ e[i].id = id
  <2>1. CASE j \in At(d, "counters")
    <3>1. PICK i \in At(d, "meta") : i < j /\ d[i].id = id
      BY <1>1, <2>1 DEF Sound, IdsDescribed
    <3> QED
      BY <1>1, <3>1
  <2>2. CASE j = z /\ \E i \in At(s, "meta") : s[i].id = id
    <3>1. PICK i \in At(d, "meta") : d[i].id = id
      BY <2>2
    <3>2. i < j
      BY <1>2, <1>6, <2>2
    <3> QED
      BY <1>1, <3>1, <3>2
  <2>3. CASE j = z /\ \E i \in 1 .. Len(order) : new[i].id = id
    <3>1. PICK i \in 1 .. Len(order) : new[i].id = id
      BY <2>3
    <3>2. Len(d) + i < j
      BY <1>2, <2>3
    <3> QED
      BY <1>2, <1>1, <3>1, <3>2
  <2> QED
    BY <1>1, <1>4, <1>7, <2>1, <2>2, <2>3
<1>8. ASSUME NEW i \in At(e, "counters"), NEW j \in At(e, "counters"), i < j
      PROVE  e[i].to < e[j].from
  <2>1. i \in At(d, "counters")
    BY <1>2, <1>1, <1>8
  <2>2. CASE j \in At(d, "counters")
    BY <1>1, <1>8, <2>1, <2>2 DEF Sound, InOrder
  <2>3. CASE j = z
    <3>1. d[i].to <= t
      BY <2>1 DEF Sound, Past
    <3> QED
      BY <1>1, <1>3, <1>5, <2>1, <2>3, <3>1
  <2> QED
    BY <1>1, <2>2, <2>3
<1>9. ASSUME NEW i \in At(e, "counters")
      PROVE  e[i].from <= e[i].to /\ e[i].to <= t + p
  <2>1. CASE i \in At(d, "counters")
    <3>1. d[i].from <= d[i].to /\ d[i].to <= t
      BY <2>1 DEF Sound, Past
    <3> QED
      BY <1>1, <1>5, <2>1, <3>1
  <2>2. CASE i = z
    BY <1>3, <2>2
  <2> QED
    BY <1>1, <2>1, <2>2
<1>10. Sound(e, t + p)
  BY <1>7, <1>8, <1>9 DEF Sound, IdsDescribed, InOrder, Past
<1> QED
  BY <1>10 DEF e

\* The ids of a push are new.
LEMMA ExtendNumbered ==
  ASSUME NEW s \in Seq(Frame), NEW new, NEW order, NEW n \in Nat, NEW t, NEW p,
         Pushed(new, s, order, n, t, p), Numbered(s, n),
         \A i, j \in 1 .. Len(order) : order[i] = order[j] => i = j,
         \A i \in At(s, "meta") : \A j \in 1 .. Len(order) : s[i].name # order[j]
  PROVE  Numbered(s \o new, n + Len(order))
<1> DEFINE e == s \o new
<1>0. Extended(e, s, new, order) /\ Placed(e, s, order)
  BY ExtendIs, ExtendPositions
<1> HIDE DEF e
<1>1. /\ \A i \in At(s, "meta") : e[i] = s[i]
      /\ \A i \in At(e, "meta") : i \in At(s, "meta") \/ i - Len(s) \in 1 .. Len(order)
  BY <1>0 DEF Placed
<1>2. /\ Len(s) \in Nat /\ Len(order) \in Nat
      /\ DOMAIN s = 1 .. Len(s) /\ DOMAIN e = 1 .. Len(e)
      /\ \A i \in 1 .. Len(order) : e[Len(s) + i] = new[i]
  BY <1>0 DEF Extended
<1>3. \A i \in At(s, "meta") : i \in 1 .. Len(s) /\ s[i].id \in Nat /\ s[i].id < n
  BY <1>2, FrameKinds DEF At, Numbered
<1>4. \A i \in At(e, "meta") : i \in Nat
  BY <1>0 DEF Extended, At
<1>5. ASSUME NEW i \in At(e, "meta"), i \notin At(s, "meta")
      PROVE  \E k \in 1 .. Len(order) :
               i = Len(s) + k /\ e[i].id = n + k - 1 /\ e[i].name = order[k]
  <2> DEFINE k == i - Len(s)
  <2>1. k \in 1 .. Len(order)
    BY <1>1, <1>5
  <2>2. i = Len(s) + k
    BY <1>2, <1>4
  <2> HIDE DEF k
  <2>3. e[i] = new[k]
    BY <1>2, <2>1, <2>2
  <2>4. new[k].id = n + k - 1 /\ new[k].name = order[k]
    BY <2>1 DEF Pushed
  <2> QED
    BY <2>1, <2>2, <2>3, <2>4
<1>6. ASSUME NEW i \in At(e, "meta")
      PROVE  e[i].id < n + Len(order)
  <2>1. CASE i \in At(s, "meta")
    BY <1>1, <1>2, <1>3, <2>1
  <2>2. CASE i \notin At(s, "meta")
    <3>1. PICK k \in 1 .. Len(order) : e[i].id = n + k - 1
      BY <1>5, <2>2
    <3> QED
      BY <1>2, <3>1
  <2> QED
    BY <2>1, <2>2
<1>7. ASSUME NEW i \in At(e, "meta"), NEW j \in At(e, "meta"),
             e[i].id = e[j].id \/ e[i].name = e[j].name
      PROVE  i = j
  <2>1. CASE i \in At(s, "meta") /\ j \in At(s, "meta")
    BY <1>1, <1>7, <2>1 DEF Numbered, OneIdPerName
  <2>2. CASE i \in At(s, "meta") /\ j \notin At(s, "meta")
    <3>1. PICK k \in 1 .. Len(order) : e[j].id = n + k - 1 /\ e[j].name = order[k]
      BY <1>5, <2>2
    <3>2. e[i] = s[i] /\ s[i].id < n /\ s[i].id \in Nat /\ s[i].name # order[k]
      BY <1>1, <1>3, <2>2
    <3> QED
      BY <1>2, <1>7, <3>1, <3>2
  <2>3. CASE i \notin At(s, "meta") /\ j \in At(s, "meta")
    <3>1. PICK k \in 1 .. Len(order) : e[i].id = n + k - 1 /\ e[i].name = order[k]
      BY <1>5, <2>3
    <3>2. e[j] = s[j] /\ s[j].id < n /\ s[j].id \in Nat /\ s[j].name # order[k]
      BY <1>1, <1>3, <2>3
    <3> QED
      BY <1>2, <1>7, <3>1, <3>2
  <2>4. CASE i \notin At(s, "meta") /\ j \notin At(s, "meta")
    <3>1. PICK k \in 1 .. Len(order) :
            i = Len(s) + k /\ e[i].id = n + k - 1 /\ e[i].name = order[k]
      BY <1>5, <2>4
    <3>2. PICK l \in 1 .. Len(order) :
            j = Len(s) + l /\ e[j].id = n + l - 1 /\ e[j].name = order[l]
      BY <1>5, <2>4
    <3>3. k = l
      BY <1>2, <1>7, <3>1, <3>2
    <3> QED
      BY <3>1, <3>2, <3>3
  <2> QED
    BY <2>1, <2>2, <2>3, <2>4
<1>8. Numbered(e, n + Len(order))
  BY <1>6, <1>7 DEF Numbered, OneIdPerName
<1> QED
  BY <1>8 DEF e

\* The positions of a kind are finitely many.
LEMMA AtFinite ==
  ASSUME NEW s \in Seq(Frame), NEW k
  PROVE  IsFiniteSet(At(s, k)) /\ Cardinality(At(s, k)) \in Nat
<1>1. Len(s) \in Nat /\ At(s, k) \in SUBSET (1 .. Len(s))
  BY DEF At
<1>2. 1 \in Int /\ Len(s) \in Int
  BY <1>1
<1>3. IsFiniteSet(1 .. Len(s))
  BY <1>2, FS_Interval
<1> QED
  BY <1>1, <1>3, FS_Subset, FS_CardinalityType

\* A push adds the sample of one period.
LEMMA ExtendPeriod ==
  ASSUME NEW s \in Seq(Frame), NEW new, NEW order, NEW n \in Nat,
         NEW t \in Nat, NEW p \in Nat \ {0},
         Pushed(new, s, order, n, t, p), PerPeriod(s, t, p)
  PROVE  PerPeriod(s \o new, t + p, p)
<1> DEFINE e == s \o new
           z == Len(e)
           A == At(s, "counters")
<1>0. Extended(e, s, new, order) /\ Placed(e, s, order)
  BY ExtendIs, ExtendPositions
<1> HIDE DEF e
<1>1. /\ At(e, "counters") = A \cup {z} /\ z \notin A
      /\ \A i \in A : e[i] = s[i]
  BY <1>0 DEF Placed
<1>2. e[z].from = t + 1 /\ e[z].to = t + p
  BY <1>0 DEF Extended, Pushed
<1> HIDE DEF z
<1>3. IsFiniteSet(A) /\ Cardinality(A) \in Nat
  BY AtFinite
<1>4. \A i \in A : s[i].to - s[i].from + 1 >= p
  BY DEF PerPeriod
<1>5. Cardinality(A) = t \div p
  BY DEF PerPeriod
<1> HIDE DEF A
<1>6. Cardinality(A \cup {z}) = Cardinality(A) + 1
  BY <1>1, <1>3, FS_AddElement
<1>7. (t + p) \div p = t \div p + 1
  BY OneMore
<1>8. (t + p) - (t + 1) + 1 >= p
  OBVIOUS
<1>9. \A i \in At(e, "counters") : e[i].to - e[i].from + 1 >= p
  BY <1>1, <1>2, <1>4, <1>8
<1>10. PerPeriod(e, t + p, p)
  BY <1>1, <1>5, <1>6, <1>7, <1>9 DEF PerPeriod
<1> QED
  BY <1>10 DEF e

-----------------------------------------------------------------------------
(***************************************************************************)
(* The description of the job in front of the frames.                      *)
(***************************************************************************)
LEMMA ConsIs ==
  ASSUME NEW s \in Seq(Frame), NEW e, e = <<DescFrame>> \o s
  PROVE  /\ e \in Seq(Frame) /\ Len(s) \in Nat /\ Len(e) = Len(s) + 1 /\ e[1] = DescFrame
         /\ DOMAIN s = 1 .. Len(s) /\ DOMAIN e = 1 .. Len(e)
         /\ \A i \in 1 .. Len(s) : i + 1 \in 1 .. Len(e) /\ e[i + 1] = s[i]
<1>1. <<DescFrame>> \in Seq(Frame) /\ Len(<<DescFrame>>) = 1 /\ <<DescFrame>>[1] = DescFrame
  BY FrameKinds
<1> DEFINE d == <<DescFrame>>
<1> HIDE DEF d
<1>2. d \in Seq(Frame) /\ Len(d) = 1 /\ d[1] = DescFrame /\ e = d \o s
  BY <1>1 DEF d
<1>3. e \in Seq(Frame) /\ Len(s) \in Nat /\ Len(e) = Len(s) + 1
  BY <1>2
<1>4. e[1] = DescFrame /\ \A i \in 1 .. Len(s) : e[i + 1] = s[i]
  BY <1>2
<1>5. \A i \in 1 .. Len(s) : i + 1 \in 1 .. Len(e)
  BY <1>3
<1> QED
  BY <1>3, <1>4, <1>5

\* The frames of kind k are one further back in e than in s.
Shifted(e, s, k) ==
  /\ \A i \in At(s, k) : i \in Nat /\ i + 1 \in At(e, k) /\ e[i + 1] = s[i]
  /\ \A j \in At(e, k) : j \in Nat /\ j - 1 \in At(s, k) /\ e[j] = s[j - 1]

\* The description of the job in front moves every frame by one.
LEMMA ConsPositions ==
  ASSUME NEW s \in Seq(Frame), NEW e, e = <<DescFrame>> \o s, NEW k \in {"meta", "counters"}
  PROVE  Shifted(e, s, k)
<1>1. /\ e \in Seq(Frame) /\ Len(s) \in Nat /\ Len(e) = Len(s) + 1 /\ e[1] = DescFrame
      /\ DOMAIN s = 1 .. Len(s) /\ DOMAIN e = 1 .. Len(e)
      /\ \A i \in 1 .. Len(s) : i + 1 \in 1 .. Len(e) /\ e[i + 1] = s[i]
  BY ConsIs
<1>2. ASSUME NEW i \in At(s, k)
      PROVE  i \in Nat /\ i + 1 \in At(e, k) /\ e[i + 1] = s[i]
  BY <1>1 DEF At
<1>3. ASSUME NEW j \in At(e, k)
      PROVE  j \in Nat /\ j - 1 \in At(s, k) /\ e[j] = s[j - 1]
  <2>1. j \in 1 .. Len(e) /\ e[j].kind = k
    BY <1>1 DEF At
  <2>2. j # 1
    BY <1>1, <2>1, FrameKinds
  <2>3. j - 1 \in 1 .. Len(s) /\ j = (j - 1) + 1
    BY <1>1, <2>1, <2>2
  <2>4. e[j] = s[j - 1]
    BY <1>1, <2>3
  <2> QED
    BY <1>1, <2>1, <2>3, <2>4 DEF At
<1> QED
  BY <1>2, <1>3 DEF Shifted

\* The file can be read from the front exactly if the frames can.
LEMMA ConsSound ==
  ASSUME NEW s \in Seq(Frame), NEW t
  PROVE  Sound(<<DescFrame>> \o s, t) <=> Sound(s, t)
<1> DEFINE e == <<DescFrame>> \o s
<1>1. Shifted(e, s, "meta") /\ Shifted(e, s, "counters")
  BY ConsPositions
<1> HIDE DEF e
<1>2. /\ \A i \in At(s, "meta") : i \in Nat /\ i + 1 \in At(e, "meta") /\ e[i + 1] = s[i]
      /\ \A j \in At(e, "meta") : j \in Nat /\ j - 1 \in At(s, "meta") /\ e[j] = s[j - 1]
  BY <1>1 DEF Shifted
<1>3. /\ \A i \in At(s, "counters") :
           i \in Nat /\ i + 1 \in At(e, "counters") /\ e[i + 1] = s[i]
      /\ \A j \in At(e, "counters") :
           j \in Nat /\ j - 1 \in At(s, "counters") /\ e[j] = s[j - 1]
  BY <1>1 DEF Shifted
<1>4. ASSUME Sound(s, t) PROVE Sound(e, t)
  <2>1. ASSUME NEW j \in At(e, "counters"), NEW id \in e[j].ids
        PROVE  \E i \in At(e, "meta") : i < j /\ e[i].id = id
    <3>1. PICK i \in At(s, "meta") : i < j - 1 /\ s[i].id = id
      BY <1>3, <1>4 DEF Sound, IdsDescribed
    <3>2. i + 1 \in At(e, "meta") /\ i + 1 < j /\ e[i + 1].id = id
      BY <1>2, <1>3, <3>1
    <3> QED
      BY <3>2
  <2>2. ASSUME NEW i \in At(e, "counters"), NEW j \in At(e, "counters"), i < j
        PROVE  e[i].to < e[j].from
    <3>1. i - 1 < j - 1
      BY <1>3, <2>2
    <3> QED
      BY <1>3, <1>4, <3>1 DEF Sound, InOrder
  <2>3. ASSUME NEW i \in At(e, "counters")
        PROVE  e[i].from <= e[i].to /\ e[i].to <= t
    BY <1>3, <1>4 DEF Sound, Past
  <2> QED
    BY <2>1, <2>2, <2>3 DEF Sound, IdsDescribed, InOrder, Past
<1>5. ASSUME Sound(e, t) PROVE Sound(s, t)
  <2>1. ASSUME NEW j \in At(s, "counters"), NEW id \in s[j].ids
        PROVE  \E i \in At(s, "meta") : i < j /\ s[i].id = id
    <3>1. PICK i \in At(e, "meta") : i < j + 1 /\ e[i].id = id
      BY <1>3, <1>5 DEF Sound, IdsDescribed
    <3>2. i - 1 \in At(s, "meta") /\ i - 1 < j /\ s[i - 1].id = id
      BY <1>2, <1>3, <3>1
    <3> QED
      BY <3>2
  <2>2. ASSUME NEW i \in At(s, "counters"), NEW j \in At(s, "counters"), i < j
        PROVE  s[i].to < s[j].from
    <3>1. i + 1 < j + 1
      BY <1>3, <2>2
    <3> QED
      BY <1>3, <1>5, <3>1 DEF Sound, InOrder
  <2>3. ASSUME NEW i \in At(s, "counters")
        PROVE  s[i].from <= s[i].to /\ s[i].to <= t
    BY <1>3, <1>5 DEF Sound, Past
  <2> QED
    BY <2>1, <2>2, <2>3 DEF Sound, IdsDescribed, InOrder, Past
<1> QED
  BY <1>4, <1>5 DEF e

\* The same for the ids and for the samples of a period.
LEMMA ConsNumbered ==
  ASSUME NEW s \in Seq(Frame), NEW n, Numbered(s, n), NEW e, e = <<DescFrame>> \o s
  PROVE  Numbered(e, n)
<1>a. Shifted(e, s, "meta")
  BY ConsPositions
<1>1. \A j \in At(e, "meta") : j \in Nat /\ j - 1 \in At(s, "meta") /\ e[j] = s[j - 1]
  BY <1>a DEF Shifted
<1>2. ASSUME NEW i \in At(e, "meta"), NEW j \in At(e, "meta"),
             e[i].id = e[j].id \/ e[i].name = e[j].name
      PROVE  i = j
  <2>1. /\ i - 1 \in At(s, "meta") /\ j - 1 \in At(s, "meta") /\ i \in Nat /\ j \in Nat
        /\ s[i - 1].id = s[j - 1].id \/ s[i - 1].name = s[j - 1].name
    BY <1>1, <1>2
  <2>2. i - 1 = j - 1
    BY <2>1 DEF Numbered, OneIdPerName
  <2> QED
    BY <2>1, <2>2
<1>3. ASSUME NEW i \in At(e, "meta") PROVE e[i].id < n
  BY <1>1 DEF Numbered
<1> QED
  BY <1>2, <1>3 DEF Numbered, OneIdPerName

\* ... and changes neither the number nor the length of the samples.
LEMMA ConsCount ==
  ASSUME NEW s \in Seq(Frame), NEW e, e = <<DescFrame>> \o s
  PROVE  Cardinality(At(e, "counters")) = Cardinality(At(s, "counters"))
<1> DEFINE A == At(s, "counters")
           B == At(e, "counters")
           g == [i \in A |-> i + 1]
<1>a. Shifted(e, s, "counters")
  BY ConsPositions
<1>1. /\ \A i \in A : i \in Nat /\ i + 1 \in B
      /\ \A j \in B : j \in Nat /\ j - 1 \in A
  BY <1>a DEF Shifted
<1>2. IsFiniteSet(A)
  BY AtFinite
<1> HIDE DEF A, B
<1>4. g \in [A -> B]
  BY <1>1
<1>5. \A i, j \in A : g[i] = g[j] => i = j
  BY <1>1
<1>6. \A j \in B : \E i \in A : g[i] = j
  <2>1. \A j \in B : j - 1 \in A /\ g[j - 1] = j
    BY <1>1
  <2> QED
    BY <2>1
<1> HIDE DEF g
<1>7. ExistsBijection(A, B)
  BY <1>4, <1>5, <1>6 DEF ExistsBijection, Bijection, Injection, Surjection, IsInjective
<1>8. Cardinality(B) = Cardinality(A)
  BY <1>2, <1>7, FS_Bijection
<1> QED
  BY <1>8 DEF A, B

LEMMA ConsPeriod ==
  ASSUME NEW s \in Seq(Frame), NEW t, NEW p, PerPeriod(s, t, p), NEW e, e = <<DescFrame>> \o s
  PROVE  PerPeriod(e, t, p)
<1>a. Shifted(e, s, "counters") /\ Cardinality(At(e, "counters")) = Cardinality(At(s, "counters"))
  BY ConsPositions, ConsCount
<1>1. \A j \in At(e, "counters") : j - 1 \in At(s, "counters") /\ e[j] = s[j - 1]
  BY <1>a DEF Shifted
<1> QED
  BY <1>a, <1>1 DEF PerPeriod

-----------------------------------------------------------------------------
(***************************************************************************)
(* Writes that are short, fail or are cut off.                             *)
(***************************************************************************)
\* The frames of a sequence up to some frame.
LEMMA FirstFrames ==
  ASSUME NEW s \in Seq(Frame), NEW k \in 0 .. Len(s), NEW b, b = SubSeq(s, 1, k)
  PROVE  b \in Seq(Frame) /\ Len(b) = k /\ k \in Nat /\ \A i \in 1 .. k : b[i] = s[i]
<1>1. Len(s) \in Nat /\ \A i \in 1 .. Len(s) : s[i] \in Frame
  OBVIOUS
<1> QED
  BY <1>1

\* Frames that are all written, some of them short.
LEMMA BlurredIs ==
  ASSUME NEW s \in Seq(Frame), NEW c \in Blurred(s)
  PROVE  c \in Seq(Frame) /\ Len(c) = Len(s) /\ Within(c, s) /\ Covers(c, s)
<1>1. PICK short \in SUBSET DOMAIN s :
        c = [i \in DOMAIN s |-> IF i \in short THEN TornFrame ELSE s[i]]
  BY DEF Blurred
<1>2. Len(s) \in Nat /\ DOMAIN s = 1 .. Len(s) /\ \A i \in 1 .. Len(s) : s[i] \in Frame
  OBVIOUS
<1>3. \A i \in 1 .. Len(s) : c[i] \in {s[i], TornFrame} /\ c[i] \in Frame
  BY <1>1, <1>2, FrameKinds
<1>4. c \in [1 .. Len(s) -> Frame]
  BY <1>1, <1>2, <1>3
<1>5. c \in Seq(Frame) /\ Len(c) = Len(s) /\ DOMAIN c = 1 .. Len(s)
  BY <1>2, <1>4
<1> QED
  BY <1>2, <1>3, <1>5 DEF Within, Covers

\* Nothing need be short.
LEMMA WholeIsBlurred ==
  ASSUME NEW s \in Seq(Frame)
  PROVE  Within(s, s) /\ Covers(s, s)
<1>1. Len(s) \in Nat
  OBVIOUS
<1> QED
  BY <1>1 DEF Within, Covers

\* The first k frames, some of them short.
LEMMA BlurredPart ==
  ASSUME NEW s \in Seq(Frame), NEW k \in 0 .. Len(s), NEW c \in Blurred(SubSeq(s, 1, k))
  PROVE  /\ c \in Seq(Frame) /\ Len(c) = k /\ Within(c, s)
         /\ \A i \in 1 .. k : c[i] \in {s[i], TornFrame}
<1> DEFINE b == SubSeq(s, 1, k)
<1>1. b \in Seq(Frame) /\ Len(b) = k /\ k \in Nat /\ \A i \in 1 .. k : b[i] = s[i]
  BY FirstFrames
<1> HIDE DEF b
<1>2. c \in Seq(Frame) /\ Len(c) = k /\ Within(c, b)
  BY <1>1, BlurredIs DEF b
<1>3. DOMAIN c = 1 .. k /\ Len(s) \in Nat /\ k <= Len(s)
  BY <1>1, <1>2
<1>4. \A i \in 1 .. k : c[i] \in {s[i], TornFrame}
  BY <1>1, <1>2, <1>3 DEF Within
<1> QED
  BY <1>2, <1>3, <1>4 DEF Within

\* What is left when a write fails.
LEMMA BrokenIs ==
  ASSUME NEW s \in Seq(Frame), NEW c \in Broken(s)
  PROVE  c \in Seq(Frame) /\ Within(c, s)
<1>1. PICK k \in 0 .. Len(s) : c \in Blurred(SubSeq(s, 1, k))
  BY DEF Broken
<1> QED
  BY <1>1, BlurredPart

\* What is left when the process is killed during the writes.
LEMMA TornIs ==
  ASSUME NEW s \in Seq(Frame), NEW c \in Torn(s)
  PROVE  c \in Seq(Frame) /\ Within(c, s)
<1>1. Len(s) \in Nat
  OBVIOUS
<1>2. CASE \E k \in 0 .. Len(s) : c = SubSeq(s, 1, k)
  <2>1. PICK k \in 0 .. Len(s) : c = SubSeq(s, 1, k)
    BY <1>2
  <2>2. c \in Seq(Frame) /\ Len(c) = k /\ k \in Nat /\ \A i \in 1 .. k : c[i] = s[i]
    BY <2>1, FirstFrames
  <2>3. DOMAIN c = 1 .. k /\ k <= Len(s)
    BY <1>1, <2>2
  <2> QED
    BY <2>2, <2>3 DEF Within
<1>3. CASE \E k \in 0 .. Len(s) - 1 : c = Append(SubSeq(s, 1, k), TornFrame)
  <2>1. PICK k \in 0 .. Len(s) - 1 : c = Append(SubSeq(s, 1, k), TornFrame)
    BY <1>3
  <2> DEFINE b == SubSeq(s, 1, k)
  <2>2. k \in 0 .. Len(s) /\ k < Len(s) /\ k \in Nat
    BY <1>1
  <2>3. b \in Seq(Frame) /\ Len(b) = k /\ \A i \in 1 .. k : b[i] = s[i]
    BY <2>2, FirstFrames
  <2> HIDE DEF b
  <2>4. c = Append(b, TornFrame) /\ TornFrame \in Frame
    BY <2>1, FrameKinds DEF b
  <2>5. c \in Seq(Frame) /\ Len(c) = k + 1 /\ c[k + 1] = TornFrame
    BY <2>3, <2>4
  <2>6. \A i \in 1 .. k : c[i] = s[i]
    BY <2>2, <2>3, <2>4
  <2>7. DOMAIN c = 1 .. k + 1 /\ k + 1 <= Len(s)
    BY <1>1, <2>2, <2>5
  <2>8. \A i \in 1 .. k + 1 : i \in 1 .. k \/ i = k + 1
    BY <2>2
  <2> QED
    BY <2>5, <2>6, <2>7, <2>8 DEF Within
<1> QED
  BY <1>2, <1>3 DEF Torn

\* Frames behind the ones that were there before.
LEMMA BehindIs ==
  ASSUME NEW d \in Seq(Frame), NEW s \in Seq(Frame), NEW e, e = d \o s
  PROVE  /\ e \in Seq(Frame) /\ Len(e) = Len(d) + Len(s) /\ Len(d) \in Nat /\ Len(s) \in Nat
         /\ DOMAIN e = 1 .. Len(e) /\ DOMAIN d = 1 .. Len(d) /\ DOMAIN s = 1 .. Len(s)
         /\ \A i \in 1 .. Len(d) : i \in 1 .. Len(e) /\ e[i] = d[i]
         /\ \A i \in 1 .. Len(s) : Len(d) + i \in 1 .. Len(e) /\ e[Len(d) + i] = s[i]
         /\ \A i \in 1 .. Len(e) : i \in 1 .. Len(d) \/ i - Len(d) \in 1 .. Len(s)
<1>1. e \in Seq(Frame) /\ Len(e) = Len(d) + Len(s) /\ Len(d) \in Nat /\ Len(s) \in Nat
  OBVIOUS
<1>2. \A i \in 1 .. Len(d) : e[i] = d[i]
  OBVIOUS
<1>3. \A i \in 1 .. Len(s) : e[Len(d) + i] = s[i]
  OBVIOUS
<1>4. /\ \A i \in 1 .. Len(d) : i \in 1 .. Len(e)
      /\ \A i \in 1 .. Len(s) : Len(d) + i \in 1 .. Len(e)
      /\ \A i \in 1 .. Len(e) : i \in 1 .. Len(d) \/ i - Len(d) \in 1 .. Len(s)
  BY <1>1
<1> QED
  BY <1>1, <1>2, <1>3, <1>4

\* Damaged frames behind damaged ones.
LEMMA WithinBehind ==
  ASSUME NEW d \in Seq(Frame), NEW w \in Seq(Frame), Mirrors(d, w),
         NEW c \in Seq(Frame), NEW s \in Seq(Frame), Within(c, s)
  PROVE  /\ d \o c \in Seq(Frame) /\ Within(d \o c, w \o s)
         /\ Len(d \o c) = Len(d) + Len(c) /\ Len(w \o s) = Len(w) + Len(s)
<1> DEFINE e == d \o c
           f == w \o s
<1>1. /\ e \in Seq(Frame) /\ Len(e) = Len(d) + Len(c) /\ Len(d) \in Nat /\ Len(c) \in Nat
      /\ DOMAIN e = 1 .. Len(e) /\ DOMAIN d = 1 .. Len(d) /\ DOMAIN c = 1 .. Len(c)
      /\ \A i \in 1 .. Len(d) : e[i] = d[i]
      /\ \A i \in 1 .. Len(c) : e[Len(d) + i] = c[i]
      /\ \A i \in 1 .. Len(e) : i \in 1 .. Len(d) \/ i - Len(d) \in 1 .. Len(c)
  BY BehindIs
<1>2. /\ f \in Seq(Frame) /\ Len(f) = Len(w) + Len(s) /\ Len(w) \in Nat /\ Len(s) \in Nat
      /\ \A i \in 1 .. Len(w) : f[i] = w[i]
      /\ \A i \in 1 .. Len(s) : f[Len(w) + i] = s[i]
  BY BehindIs
<1> HIDE DEF e, f
<1>3. /\ Len(d) = Len(w) /\ Len(c) <= Len(s)
      /\ \A i \in 1 .. Len(d) : d[i] \in {w[i], TornFrame}
      /\ \A i \in 1 .. Len(c) : c[i] \in {s[i], TornFrame}
  BY <1>1 DEF Mirrors, Within
<1>4. ASSUME NEW i \in 1 .. Len(e) PROVE e[i] \in {f[i], TornFrame}
  <2>1. CASE i \in 1 .. Len(d)
    BY <1>1, <1>2, <1>3, <2>1
  <2>2. CASE i - Len(d) \in 1 .. Len(c)
    <3> DEFINE j == i - Len(d)
    <3>1. j \in 1 .. Len(c) /\ i = Len(d) + j /\ i = Len(w) + j /\ j \in 1 .. Len(s)
      BY <1>1, <1>2, <1>3, <2>2
    <3> HIDE DEF j
    <3>2. e[i] = c[j]
      BY <1>1, <3>1
    <3>3. f[i] = s[j]
      BY <1>2, <3>1
    <3>4. c[j] \in {s[j], TornFrame}
      BY <1>3, <3>1
    <3> QED
      BY <3>2, <3>3, <3>4
  <2> QED
    BY <1>1, <2>1, <2>2
<1>5. Within(e, f)
  BY <1>1, <1>2, <1>3, <1>4 DEF Within
<1> QED
  BY <1>1, <1>2, <1>5 DEF e, f

\* What a reader finds of c: the first n frames, of which none is torn.
Reads(r, c, n) ==
  /\ r \in Seq(Frame) /\ Len(r) = n /\ n \in Nat /\ n <= Len(c)
  /\ \A i \in 1 .. n : r[i] = c[i] /\ c[i] # TornFrame
  /\ n = Len(c) \/ c[n + 1] = TornFrame

LEMMA LegibleIs ==
  ASSUME NEW c \in Seq(Frame)
  PROVE  \E n \in 0 .. Len(c) : Reads(Legible(c), c, n)
<1> DEFINE N(n) == /\ \A i \in 1 .. n : c[i] # TornFrame
                   /\ n = Len(c) \/ c[n + 1] = TornFrame
           T == {n \in Nat : n = Len(c) \/ (n < Len(c) /\ c[n + 1] = TornFrame)}
<1>1. Len(c) \in Nat /\ Len(c) \in T /\ T \in SUBSET Nat
  OBVIOUS
<1>2. PICK m \in T : \A y \in T : m <= y
  BY <1>1, LeastNat
<1>3. m \in 0 .. Len(c) /\ (m = Len(c) \/ c[m + 1] = TornFrame)
  BY <1>1, <1>2
<1>4. ASSUME NEW i \in 1 .. m PROVE c[i] # TornFrame
  <2>1. i - 1 \in Nat /\ i - 1 < m /\ i - 1 < Len(c) /\ (i - 1) + 1 = i
    BY <1>1, <1>3
  <2>2. i - 1 \notin T
    BY <1>2, <2>1
  <2> QED
    BY <2>1, <2>2
<1>5. \E n \in 0 .. Len(c) : N(n)
  BY <1>3, <1>4
<1> DEFINE n == CHOOSE n \in 0 .. Len(c) : N(n)
<1>6. n \in 0 .. Len(c) /\ N(n) /\ Legible(c) = SubSeq(c, 1, n)
  BY <1>5 DEF Legible
<1> HIDE DEF n
<1>7. /\ Legible(c) \in Seq(Frame) /\ Len(Legible(c)) = n /\ n \in Nat
      /\ \A i \in 1 .. n : Legible(c)[i] = c[i]
  BY <1>6, FirstFrames
<1>8. Reads(Legible(c), c, n)
  BY <1>1, <1>6, <1>7 DEF Reads
<1> QED
  BY <1>6, <1>8

\* A file without a torn frame is read to its end.
LEMMA LegibleWhole ==
  ASSUME NEW c \in Seq(Frame), ~HasTorn(c)
  PROVE  Legible(c) = c
<1>1. PICK n \in 0 .. Len(c) : Reads(Legible(c), c, n)
  BY LegibleIs
<1>2. n = Len(c)
  <2>1. CASE n # Len(c)
    <3>1. n + 1 \in 1 .. Len(c) /\ DOMAIN c = 1 .. Len(c) /\ c[n + 1] = TornFrame
      BY <1>1, <2>1 DEF Reads
    <3> QED
      BY <3>1 DEF HasTorn
  <2> QED
    BY <2>1
<1> QED
  BY <1>1, <1>2 DEF Reads

\* The frames at the beginning of what can be read from the front can be.
LEMMA PrefixSound ==
  ASSUME NEW s \in Seq(Frame), NEW c \in Seq(Frame), Len(c) <= Len(s),
         \A i \in 1 .. Len(c) : c[i] = s[i], NEW t, Sound(s, t)
  PROVE  Sound(c, t)
<1>1. Len(c) \in Nat /\ Len(s) \in Nat /\ DOMAIN c = 1 .. Len(c) /\ DOMAIN s = 1 .. Len(s)
  OBVIOUS
<1>5. ASSUME NEW x, NEW i \in At(c, x)
      PROVE  i \in 1 .. Len(c) /\ i \in At(s, x) /\ c[i] = s[i]
  BY <1>1 DEF At
<1>6. ASSUME NEW j \in At(c, "counters"), NEW id \in c[j].ids
      PROVE  \E i \in At(c, "meta") : i < j /\ c[i].id = id
  <2>1. j \in 1 .. Len(c) /\ j \in At(s, "counters") /\ c[j] = s[j]
    BY <1>5
  <2>2. PICK i \in At(s, "meta") : i < j /\ s[i].id = id
    BY <2>1 DEF Sound, IdsDescribed
  <2>3. i \in 1 .. Len(c)
    BY <1>1, <2>1, <2>2 DEF At
  <2>4. i \in At(c, "meta") /\ c[i] = s[i]
    BY <1>1, <2>2, <2>3 DEF At
  <2> QED
    BY <2>2, <2>4
<1>7. ASSUME NEW i \in At(c, "counters"), NEW j \in At(c, "counters"), i < j
      PROVE  c[i].to < c[j].from
  <2>1. i \in At(s, "counters") /\ j \in At(s, "counters") /\ c[i] = s[i] /\ c[j] = s[j]
    BY <1>5
  <2> QED
    BY <1>7, <2>1 DEF Sound, InOrder
<1>8. ASSUME NEW i \in At(c, "counters")
      PROVE  c[i].from <= c[i].to /\ c[i].to <= t
  <2>1. i \in At(s, "counters") /\ c[i] = s[i]
    BY <1>5
  <2> QED
    BY <2>1 DEF Sound, Past
<1> QED
  BY <1>6, <1>7, <1>8 DEF Sound, IdsDescribed, InOrder, Past

\* A reader finds frames that can be read from the front, whatever is damaged.
LEMMA WithinSound ==
  ASSUME NEW s \in Seq(Frame), NEW c \in Seq(Frame), Within(c, s), NEW t, Sound(s, t)
  PROVE  Sound(Legible(c), t)
<1>1. PICK n \in 0 .. Len(c) : Reads(Legible(c), c, n)
  BY LegibleIs
<1>2. /\ Legible(c) \in Seq(Frame) /\ Len(Legible(c)) = n /\ n \in Nat /\ n <= Len(c)
      /\ \A i \in 1 .. n : Legible(c)[i] = c[i] /\ c[i] # TornFrame
  BY <1>1 DEF Reads
<1>3. Len(c) \in Nat /\ Len(s) \in Nat /\ DOMAIN c = 1 .. Len(c)
  OBVIOUS
<1>4. Len(c) <= Len(s) /\ \A i \in 1 .. Len(c) : c[i] \in {s[i], TornFrame}
  BY <1>3 DEF Within
<1>5. n <= Len(s) /\ \A i \in 1 .. n : Legible(c)[i] = s[i]
  BY <1>2, <1>3, <1>4
<1> DEFINE r == Legible(c)
<1> HIDE DEF r
<1>6. r \in Seq(Frame) /\ Len(r) <= Len(s) /\ \A i \in 1 .. Len(r) : r[i] = s[i]
  BY <1>2, <1>5 DEF r
<1>7. Sound(r, t)
  BY <1>6, PrefixSound
<1> QED
  BY <1>7 DEF r

\* Frames that are there are where they should be.
LEMMA WithinAt ==
  ASSUME NEW s \in Seq(Frame), NEW c \in Seq(Frame), Within(c, s), NEW k \in {"meta", "counters"}
  PROVE  At(c, k) \in SUBSET At(s, k) /\ \A i \in At(c, k) : c[i] = s[i]
<1>1. /\ Len(c) \in Nat /\ Len(s) \in Nat /\ DOMAIN c = 1 .. Len(c) /\ DOMAIN s = 1 .. Len(s)
      /\ Len(c) <= Len(s) /\ \A i \in 1 .. Len(c) : c[i] \in {s[i], TornFrame}
  BY DEF Within
<1>2. ASSUME NEW i \in At(c, k) PROVE i \in At(s, k) /\ c[i] = s[i]
  <2>1. i \in 1 .. Len(c) /\ c[i].kind = k
    BY <1>1 DEF At
  <2>2. c[i] = s[i]
    BY <1>1, <2>1, FrameKinds
  <2>3. i \in 1 .. Len(s)
    BY <1>1, <2>1
  <2> QED
    BY <1>1, <2>1, <2>2, <2>3 DEF At
<1> QED
  BY <1>2

\* Damage makes no id ambiguous and adds no sample.
LEMMA WithinNumbered ==
  ASSUME NEW s \in Seq(Frame), NEW c \in Seq(Frame), Within(c, s), NEW n, Numbered(s, n)
  PROVE  Numbered(c, n)
<1>1. At(c, "meta") \in SUBSET At(s, "meta") /\ \A i \in At(c, "meta") : c[i] = s[i]
  BY WithinAt
<1> QED
  BY <1>1 DEF Numbered, OneIdPerName

LEMMA WithinCount ==
  ASSUME NEW s \in Seq(Frame), NEW c \in Seq(Frame), Within(c, s)
  PROVE  /\ Cardinality(At(c, "counters")) \in Nat /\ Cardinality(At(s, "counters")) \in Nat
         /\ Cardinality(At(c, "counters")) <= Cardinality(At(s, "counters"))
<1>1. At(c, "counters") \in SUBSET At(s, "counters")
  BY WithinAt
<1>2. IsFiniteSet(At(s, "counters")) /\ Cardinality(At(s, "counters")) \in Nat
      /\ Cardinality(At(c, "counters")) \in Nat
  BY AtFinite
<1> QED
  BY <1>1, <1>2, FS_Subset

\* Without torn frames nothing is damaged.
LEMMA MirrorsWhole ==
  ASSUME NEW s \in Seq(Frame), NEW c \in Seq(Frame), Mirrors(c, s), ~HasTorn(c)
  PROVE  c = s
<1>1. /\ Len(c) = Len(s) /\ DOMAIN c = 1 .. Len(c) /\ DOMAIN s = 1 .. Len(s) /\ Len(s) \in Nat
      /\ \A i \in 1 .. Len(c) : c[i] \in {s[i], TornFrame} /\ c[i] # TornFrame
  BY DEF Mirrors, Within, HasTorn
<1> QED
  BY <1>1

\* A push adds one sample.
LEMMA ExtendCount ==
  ASSUME NEW s \in Seq(Frame), NEW new, NEW order, NEW n \in Nat, NEW t, NEW p, NEW b,
         Pushed(new, b, order, n, t, p)
  PROVE  Cardinality(At(s \o new, "counters")) = Cardinality(At(s, "counters")) + 1
<1> DEFINE e == s \o new
<1>1. Placed(e, s, order)
  BY ExtendPositions
<1> HIDE DEF e
<1>2. At(e, "counters") = At(s, "counters") \cup {Len(e)} /\ Len(e) \notin At(s, "counters")
  BY <1>1 DEF Placed
<1>3. IsFiniteSet(At(s, "counters"))
  BY AtFinite
<1>4. Cardinality(At(e, "counters")) = Cardinality(At(s, "counters")) + 1
  BY <1>2, <1>3, FS_AddElement
<1> QED
  BY <1>4 DEF e

-----------------------------------------------------------------------------
(***************************************************************************)
(* Files.                                                                  *)
(***************************************************************************)
\* What TypeOK says of the file of a trace.
FileOK(s) ==
  /\ s \in Seq(Frame)
  /\ \A i \in DOMAIN s :
       /\ s[i] = DescFrame => i = 1
       /\ i = 1 => s[i] \in {DescFrame, TornFrame}

\* A file all writes of which were complete.
Whole(s) ==
  /\ s \in Seq(Frame) /\ Len(s) \in Nat \ {0} /\ s # <<>> /\ DOMAIN s = 1 .. Len(s)
  /\ s[1] = DescFrame
  /\ \A i \in 1 .. Len(s) : i # 1 => s[i] \in Plain

\* A whole file is well formed.
LEMMA WholeIsOK ==
  ASSUME NEW s, Whole(s)
  PROVE  FileOK(s) /\ s \in Seq(Frame \ {TornFrame}) /\ ~HasTorn(s)
<1>1. \A i \in 1 .. Len(s) : s[i] # TornFrame /\ (i # 1 => s[i] # DescFrame)
  BY FrameKinds DEF Whole
<1>2. s \in Seq(Frame) /\ DOMAIN s = 1 .. Len(s) /\ s[1] = DescFrame
  BY DEF Whole
<1>3. FileOK(s)
  BY <1>1, <1>2 DEF FileOK
<1>4. s \in Seq(Frame \ {TornFrame})
  BY <1>1, <1>2
<1>5. ~HasTorn(s)
  BY <1>1, <1>2 DEF HasTorn
<1> QED
  BY <1>3, <1>4, <1>5

\* A well-formed file without torn frames is whole.
LEMMA OKIsWhole ==
  ASSUME NEW s, FileOK(s), s # <<>>, ~HasTorn(s)
  PROVE  Whole(s)
<1>1. s \in Seq(Frame) /\ Len(s) \in Nat \ {0} /\ DOMAIN s = 1 .. Len(s)
  BY DEF FileOK
<1>2. 1 \in 1 .. Len(s)
  BY <1>1
<1>3. \A i \in 1 .. Len(s) : s[i] # TornFrame /\ s[i] \in Frame
  BY <1>1 DEF HasTorn
<1>4. s[1] = DescFrame
  BY <1>1, <1>2, <1>3 DEF FileOK
<1>5. \A i \in 1 .. Len(s) : i # 1 => s[i] \in Plain
  BY <1>1, <1>3, FrameKinds DEF FileOK
<1> QED
  BY <1>1, <1>4, <1>5 DEF Whole

\* The file that a fold writes is whole.
LEMMA ConsWhole ==
  ASSUME NEW s \in Seq(Plain)
  PROVE  Whole(<<DescFrame>> \o s)
<1> DEFINE e == <<DescFrame>> \o s
<1>1. s \in Seq(Frame)
  BY FrameKinds
<1>2. /\ e \in Seq(Frame) /\ Len(s) \in Nat /\ Len(e) = Len(s) + 1 /\ e[1] = DescFrame
      /\ DOMAIN e = 1 .. Len(e)
      /\ \A i \in 1 .. Len(s) : e[i + 1] = s[i]
  BY <1>1, ConsIs
<1> HIDE DEF e
<1>3. ASSUME NEW i \in 1 .. Len(e), i # 1 PROVE e[i] \in Plain
  <2>1. i - 1 \in 1 .. Len(s) /\ i = (i - 1) + 1
    BY <1>2, <1>3
  <2>2. e[i] = s[i - 1]
    BY <1>2, <2>1
  <2> QED
    BY <2>1, <2>2
<1>4. Len(e) \in Nat \ {0} /\ e # <<>>
  BY <1>2
<1>5. Whole(e)
  BY <1>2, <1>3, <1>4 DEF Whole
<1> QED
  BY <1>5 DEF e

\* The file that Trace::new writes.
LEMMA NewFile ==
  /\ <<DescFrame>> \o <<>> = <<DescFrame>> /\ Whole(<<DescFrame>>) /\ Len(<<DescFrame>>) = 1
  /\ \A t : Sound(<<DescFrame>>, t)
  /\ \A t : Sound(<<>>, t)
<1>1. <<DescFrame>> \o <<>> = <<DescFrame>> /\ Len(<<DescFrame>>) = 1
  OBVIOUS
<1>2. <<>> \in Seq(Plain) /\ <<>> \in Seq(Frame)
  OBVIOUS
<1>3. Whole(<<DescFrame>>)
  BY <1>1, <1>2, ConsWhole
<1>4. ASSUME NEW t PROVE Sound(<<>>, t)
  BY DEF Sound, IdsDescribed, InOrder, Past, At
<1>5. ASSUME NEW t PROVE Sound(<<DescFrame>>, t)
  BY <1>1, <1>2, <1>4, ConsSound
<1> QED
  BY <1>1, <1>3, <1>4, <1>5

\* Frames behind a whole file.
LEMMA WholeExtended ==
  ASSUME NEW d, Whole(d), NEW new \in Seq(Plain)
  PROVE  Whole(d \o new)
<1> DEFINE e == d \o new
<1>1. new \in Seq(Frame)
  BY FrameKinds
<1>2. d \in Seq(Frame) /\ Len(d) \in Nat \ {0}
  BY DEF Whole
<1>3. /\ e \in Seq(Frame) /\ Len(e) = Len(d) + Len(new) /\ Len(new) \in Nat
      /\ \A i \in 1 .. Len(d) : e[i] = d[i]
  BY <1>1, <1>2
<1>4. \A i \in 1 .. Len(new) : e[Len(d) + i] = new[i]
  BY <1>1, <1>2
<1> HIDE DEF e
<1>5. ASSUME NEW i \in 1 .. Len(e), i # 1 PROVE e[i] \in Plain
  <2>1. CASE i \in 1 .. Len(d)
    BY <1>3, <1>5, <2>1 DEF Whole
  <2>2. CASE i \notin 1 .. Len(d)
    <3> DEFINE j == i - Len(d)
    <3>1. j \in 1 .. Len(new) /\ i = Len(d) + j
      BY <1>2, <1>3, <2>2
    <3> HIDE DEF j
    <3>2. e[i] = new[j]
      BY <1>4, <3>1
    <3>3. new[j] \in Plain
      BY <3>1
    <3> QED
      BY <3>2, <3>3
  <2> QED
    BY <2>1, <2>2
<1>6. e[1] = DescFrame
  BY <1>2, <1>3 DEF Whole
<1>7. Len(e) \in Nat \ {0} /\ e # <<>> /\ DOMAIN e = 1 .. Len(e)
  BY <1>2, <1>3
<1>8. Whole(e)
  BY <1>3, <1>5, <1>6, <1>7 DEF Whole
<1> QED
  BY <1>8 DEF e

\* What damage leaves of a whole file is a file that can be read up to the
\* first torn frame.
LEMMA FileFrom ==
  ASSUME NEW s, Whole(s), NEW t, Sound(s, t), NEW c \in Seq(Frame), Within(c, s)
  PROVE  FileOK(c) /\ Sound(Legible(c), t)
<1>1. s \in Seq(Frame) /\ Len(s) \in Nat /\ Len(c) \in Nat /\ DOMAIN c = 1 .. Len(c)
  BY DEF Whole
<1>2. Sound(Legible(c), t)
  BY <1>1, WithinSound
<1>3. ASSUME NEW i \in 1 .. Len(c)
      PROVE  (c[i] = DescFrame => i = 1) /\ (i = 1 => c[i] \in {DescFrame, TornFrame})
  <2>1. i \in 1 .. Len(s) /\ c[i] \in {s[i], TornFrame}
    BY <1>1 DEF Within
  <2>2. (s[i] = DescFrame => i = 1) /\ (i = 1 => s[i] = DescFrame)
    BY <2>1, FrameKinds DEF Whole
  <2> QED
    BY <2>1, <2>2, FrameKinds
<1> QED
  BY <1>1, <1>2, <1>3 DEF FileOK

\* The counters of the samples are finitely many if they are described.
LEMMA EntriesFinite ==
  ASSUME NEW s \in Seq(Frame), IdsDescribed(s), NEW c \in Seq(Frame), Within(c, s)
  PROVE  IsFiniteSet(Entries(c))
<1> DEFINE A == At(s, "meta")
           B == At(c, "counters")
           g == [i \in A |-> s[i].id]
           I == {g[i] : i \in A}
<1>1. IsFiniteSet(A) /\ IsFiniteSet(B)
  BY AtFinite
<1>2. g \in Surjection(A, I)
  BY DEF Surjection
<1>3. IsFiniteSet(I)
  BY <1>1, <1>2, FS_Surjection
<1>4. ASSUME NEW e \in Entries(c) PROVE e \in B \X I
  <2> DEFINE j == e[1]
             d == e[2]
  <2>1. e = <<j, d>> /\ j \in B /\ d \in c[j].ids
    BY DEF Entries
  <2> HIDE DEF j, d
  <2>2. j \in At(s, "counters") /\ c[j] = s[j]
    BY <2>1, WithinAt
  <2>3. PICK i \in A : s[i].id = d
    BY <2>1, <2>2 DEF IdsDescribed
  <2>4. d \in I
    BY <2>3
  <2> QED
    BY <2>1, <2>4
<1> HIDE DEF A, B, I
<1>5. IsFiniteSet(B \X I) /\ Entries(c) \in SUBSET (B \X I)
  BY <1>1, <1>3, <1>4, FS_Product
<1> QED
  BY <1>5, FS_Subset

\* The size of a file is at least that of its samples, and a file with a frame
\* is not empty.
LEMMA SizeIs ==
  ASSUME NEW c, FileOK(c), IsFiniteSet(Entries(c))
  PROVE  /\ Size(c) \in Nat /\ SampleBytes * Cardinality(At(c, "counters")) <= Size(c)
         /\ c # <<>> => Size(c) > 0
<1> DEFINE t == Cardinality(At(c, "torn"))
           d == Cardinality(At(c, "desc"))
           m == Cardinality(At(c, "meta"))
           n == Cardinality(At(c, "counters"))
           e == Cardinality(Entries(c))
<1>1. c \in Seq(Frame) /\ DOMAIN c = 1 .. Len(c) /\ Len(c) \in Nat
  BY DEF FileOK
<1>2. t \in Nat /\ d \in Nat /\ m \in Nat /\ n \in Nat /\ e \in Nat
  BY <1>1, AtFinite, FS_CardinalityType
<1>3. ASSUME c # <<>> PROVE t # 0 \/ d # 0
  <2>1. 1 \in DOMAIN c
    BY <1>1, <1>3
  <2>2. c[1] \in {DescFrame, TornFrame}
    BY <2>1 DEF FileOK
  <2>3. 1 \in At(c, "torn") \/ 1 \in At(c, "desc")
    BY <2>1, <2>2, FrameKinds DEF At
  <2>4. IsFiniteSet(At(c, "torn")) /\ IsFiniteSet(At(c, "desc"))
    BY <1>1, AtFinite
  <2> QED
    BY <2>3, <2>4, FS_EmptySet
<1>4. Size(c) = LengthBytes * t + DescBytes * d + MetaBytes * m + SampleBytes * n + EntryBytes * e
  BY DEF Size
<1> HIDE DEF t, d, m, n, e
<1>5. /\ LengthBytes \in Nat \ {0} /\ DescBytes \in Nat \ {0} /\ MetaBytes \in Nat \ {0}
      /\ SampleBytes \in Nat \ {0} /\ EntryBytes \in Nat \ {0}
  BY SizesAssumption
<1>6. ASSUME NEW a \in Nat \ {0}, NEW b \in Nat
      PROVE  a * b \in Nat /\ (b # 0 => a * b > 0)
  OBVIOUS
<1>7. /\ LengthBytes * t \in Nat /\ DescBytes * d \in Nat /\ MetaBytes * m \in Nat
      /\ SampleBytes * n \in Nat /\ EntryBytes * e \in Nat
      /\ (t # 0 => LengthBytes * t > 0) /\ (d # 0 => DescBytes * d > 0)
  BY <1>2, <1>5, <1>6
<1>8. /\ Size(c) \in Nat /\ SampleBytes * n <= Size(c)
      /\ t # 0 \/ d # 0 => Size(c) > 0
  BY <1>4, <1>7
<1> QED
  BY <1>3, <1>8 DEF n

-----------------------------------------------------------------------------
(***************************************************************************)
(* The induction.                                                          *)
(***************************************************************************)
Scalars ==
  /\ exists \in BOOLEAN /\ known \in BOOLEAN /\ loaded \in BOOLEAN
  /\ done \in BOOLEAN /\ failed \in BOOLEAN /\ active \in BOOLEAN
  /\ proc \in {"up", "down", "hung", "stuck"}
  /\ nextId \in Nat /\ maxSize \in {0, MaxTraceSize}
  /\ period \in Nat \ {0} /\ clock \in 0 .. MaxClock
  /\ kills \in 0 .. MaxKills /\ faults \in 0 .. MaxFaults

\* The parts of the type invariant.
LEMMA TypeParts ==
  TypeOK <=> Scalars /\ FileOK(disk) /\ frames \in Seq(Frame \ {TornFrame})
  BY DEF TypeOK, Scalars, FileOK

\* The numbers of the invariant.
LEMMA Numbers ==
  ASSUME Scalars
  PROVE  /\ nextId \in Nat /\ period \in Nat \ {0} /\ clock \in Nat /\ kills \in Nat
         /\ faults \in Nat /\ maxSize \in Nat /\ maxSize <= MaxTraceSize
         /\ MaxTraceSize \in Nat \ {0} /\ MaxClock \in Nat /\ MaxKills \in Nat
         /\ MaxFaults \in Nat /\ SampleBytes \in Nat \ {0}
<1>1. /\ MaxTraceSize \in Nat \ {0} /\ MaxClock \in Nat /\ MaxKills \in Nat
      /\ MaxFaults \in Nat /\ SampleBytes \in Nat \ {0}
  BY SizesAssumption
<1> QED
  BY <1>1 DEF Scalars

\* Fewer samples are few enough, and one more is with one more kill.
LEMMA FewerIsFew ==
  ASSUME NEW a \in Nat, NEW b \in Nat, NEW k \in Nat, NEW l \in Nat, a - l <= b - k,
         NEW g \in Nat, NEW m \in Nat, (b - k) * g <= m
  PROVE  (a - l) * g <= m
<1> DEFINE x == a - l
           y == b - k
<1>1. x \in Int /\ y \in Int /\ x <= y /\ y * g <= m
  OBVIOUS
<1> HIDE DEF x, y
<1>2. x * g <= y * g
  BY <1>1
<1>3. x * g \in Int /\ y * g \in Int
  BY <1>1
<1> QED
  BY <1>1, <1>2, <1>3 DEF x

\* A file without samples has few.
LEMMA NoneIsFew ==
  ASSUME Scalars, NEW c, At(c, "counters") = {}, NEW k \in Nat
  PROVE  Few(c, k)
<1>1. Cardinality({}) = 0 /\ SampleBytes \in Nat /\ MaxTraceSize \in Nat
  BY Numbers, FS_EmptySet
<1>2. (0 - 0) * SampleBytes <= MaxTraceSize
  BY <1>1
<1>3. (0 - k) * SampleBytes <= MaxTraceSize
  BY <1>1, <1>2, FewerIsFew
<1> QED
  BY <1>1, <1>3 DEF Few

\* Files with at most one frame, which is no sample and describes no counter.
LEMMA SmallFiles ==
  ASSUME NEW c \in {<<>>, <<DescFrame>>, <<TornFrame>>}
  PROVE  /\ FileOK(c) /\ At(c, "counters") = {} /\ At(c, "meta") = {}
         /\ \A t : Sound(Legible(c), t)
<1>1. /\ c \in Seq(Frame) /\ Len(c) \in Nat /\ Len(c) <= 1 /\ DOMAIN c = 1 .. Len(c)
      /\ \A i \in 1 .. Len(c) : c[i] \in {DescFrame, TornFrame}
  <2>1. CASE c = <<>>
    BY <2>1
  <2>2. ASSUME NEW f \in {DescFrame, TornFrame}, c = <<f>>
        PROVE  /\ c \in Seq(Frame) /\ Len(c) = 1 /\ DOMAIN c = 1 .. 1
               /\ \A i \in 1 .. 1 : c[i] \in {DescFrame, TornFrame}
    <3>1. f \in Frame
      BY FrameKinds
    <3>2. <<f>> \in Seq(Frame) /\ Len(<<f>>) = 1 /\ DOMAIN <<f>> = 1 .. 1 /\ <<f>>[1] = f
      BY <3>1
    <3> QED
      BY <2>2, <3>2
  <2>3. CASE c # <<>>
    <3>1. /\ c \in Seq(Frame) /\ Len(c) = 1 /\ DOMAIN c = 1 .. 1
          /\ \A i \in 1 .. 1 : c[i] \in {DescFrame, TornFrame}
      BY <2>2, <2>3, Zenon
    <3> QED
      BY <3>1
  <2> QED
    BY <2>1, <2>3
<1>2. \A i \in 1 .. Len(c) : i = 1
  BY <1>1
<1>3. FileOK(c)
  BY <1>1, <1>2 DEF FileOK
<1>4. At(c, "counters") = {} /\ At(c, "meta") = {}
  BY <1>1, FrameKinds DEF At
<1>5. Within(c, c)
  BY <1>1, WholeIsBlurred
<1>6. ASSUME NEW t PROVE Sound(c, t)
  BY <1>4 DEF Sound, IdsDescribed, InOrder, Past
<1>7. ASSUME NEW t PROVE Sound(Legible(c), t)
  BY <1>1, <1>5, <1>6, WithinSound
<1> QED
  BY <1>3, <1>4, <1>7

\* There is no file at the start.
LEMMA InitIndInv == Init => IndInv
<1> SUFFICES ASSUME Init PROVE IndInv
  OBVIOUS
<1>1. /\ MaxClock \in Nat /\ MaxKills \in Nat /\ MaxFaults \in Nat
      /\ MaxTraceSize \in Nat \ {0}
  BY SizesAssumption
<1>2. Scalars
  <2>1. /\ exists \in BOOLEAN /\ known \in BOOLEAN /\ loaded \in BOOLEAN
        /\ done \in BOOLEAN /\ failed \in BOOLEAN /\ active \in BOOLEAN
    BY Zenon DEF Init
  <2>2. /\ proc \in {"up", "down", "hung", "stuck"}
        /\ nextId \in Nat /\ maxSize \in {0, MaxTraceSize}
        /\ period \in Nat \ {0} /\ clock \in 0 .. MaxClock
        /\ kills \in 0 .. MaxKills /\ faults \in 0 .. MaxFaults
    BY <1>1 DEF Init
  <2> QED
    BY <2>1, <2>2 DEF Scalars
<1>3. /\ FileOK(disk) /\ At(disk, "counters") = {} /\ At(disk, "meta") = {}
      /\ Sound(Legible(disk), clock)
  BY SmallFiles DEF Init
<1>4. TypeOK
  <2>1. frames \in Seq(Frame \ {TornFrame})
    BY DEF Init
  <2> QED
    BY <1>2, <1>3, <2>1, TypeParts
<1>5. Stored /\ DiskIsMemory /\ ReadersReturn
  BY DEF Init, Stored, DiskIsMemory, ReadersReturn
<1>6. Sound(frames, clock)
  BY NewFile DEF Init
<1>7. Numbered(frames, nextId) /\ Numbered(disk, nextId)
  BY DEF Init, Numbered, OneIdPerName, At
<1>8. Unbroken
  BY <1>7 DEF Init, Unbroken
<1>9. SamplesBounded
  BY <1>2, <1>3, Numbers, NoneIsFew DEF SamplesBounded
<1> QED
  BY <1>3, <1>4, <1>5, <1>6, <1>8, <1>9 DEF IndInv

\* What a kill leaves is in order if the file is.
LEMMA KilledInv ==
  ASSUME IndInv, Killed, exists' \in BOOLEAN, clock' \in 0 .. MaxClock,
         FileOK(disk'), ~exists' => disk' = <<>>, Sound(Legible(disk'), clock'),
         faults = 0 => Few(disk', kills + 1)
  PROVE  IndInv'
<1>1. Scalars
  BY TypeParts DEF IndInv
<1>2. kills' \in 0 .. MaxKills /\ kills' # 0 /\ kills' = kills + 1
  BY <1>1, Numbers DEF Scalars, Killed
<1>3. Scalars'
  <2>1. (known \in BOOLEAN /\ loaded \in BOOLEAN /\ done \in BOOLEAN /\ failed \in BOOLEAN
           /\ active \in BOOLEAN)'
    BY Zenon DEF Killed
  <2>2. (/\ proc \in {"up", "down", "hung", "stuck"} /\ faults \in 0 .. MaxFaults
         /\ nextId \in Nat /\ maxSize \in {0, MaxTraceSize} /\ period \in Nat \ {0})'
    BY <1>1 DEF Killed, Scalars
  <2> QED
    BY <1>2, <2>1, <2>2 DEF Scalars
<1>4. known' = FALSE /\ frames' = <<>> /\ frames' \in Seq(Frame \ {TornFrame})
  BY DEF Killed
<1>5. TypeOK'
  BY <1>3, <1>4 DEF TypeOK, Scalars, FileOK
<1>6. Stored' /\ DiskIsMemory' /\ ReadersReturn'
  BY <1>4 DEF Killed, Stored, DiskIsMemory, ReadersReturn
<1>7. Unbroken'
  BY <1>2 DEF Unbroken
<1>8. SamplesBounded'
  BY <1>2 DEF Killed, SamplesBounded
<1>9. Sound(frames', clock')
  BY <1>4, NewFile
<1> QED
  BY <1>5, <1>6, <1>7, <1>8, <1>9 DEF IndInv

\* Steps that change neither files nor memory nor the time.
LEMMA ReopenInv == ASSUME IndInv, Reopen PROVE IndInv'
<1> USE DEF Reopen, state
<1>1. Scalars /\ TypeOK
  BY TypeParts DEF IndInv
<1>2. TypeOK'
  <2>1. active' \in BOOLEAN
    BY Zenon
  <2>2. period' \in Nat \ {0}
    OBVIOUS
  <2> QED
    BY <1>1, <2>1, <2>2 DEF TypeOK
<1>3. Stored'
  BY DEF IndInv, Stored
<1>4. Unbroken'
  <2>1. kills = 0 => done
    BY DEF IndInv, Unbroken
  <2> QED
    BY <2>1 DEF IndInv, Unbroken
<1>5. /\ Sound(Legible(disk'), clock') /\ Sound(frames', clock')
      /\ SamplesBounded' /\ ReadersReturn' /\ DiskIsMemory'
  BY DEF IndInv, SamplesBounded, ReadersReturn, DiskIsMemory
<1> QED
  BY <1>2, <1>3, <1>4, <1>5 DEF IndInv

\* A refused sample changes nothing but the scraper.
LEMMA PushRefusedInv == ASSUME IndInv, PushRefused PROVE IndInv'
<1> USE DEF PushRefused, state
<1>1. TypeOK'
  <2>1. active' \in BOOLEAN
    BY Zenon
  <2> QED
    BY <2>1 DEF IndInv, TypeOK
<1>2. Stored'
  BY DEF IndInv, Stored
<1>3. Unbroken'
  BY DEF IndInv, Unbroken
<1>4. /\ Sound(Legible(disk'), clock') /\ Sound(frames', clock')
      /\ SamplesBounded' /\ ReadersReturn' /\ DiskIsMemory'
  BY DEF IndInv, SamplesBounded, ReadersReturn, DiskIsMemory
<1> QED
  BY <1>1, <1>2, <1>3, <1>4 DEF IndInv

\* The end of the job leaves file and memory alone.
LEMMA DoneInv == ASSUME IndInv, Done PROVE IndInv'
<1> USE DEF Done
<1>1. TypeOK'
  <2>1. done' \in BOOLEAN
    BY Zenon
  <2> QED
    BY <2>1 DEF IndInv, TypeOK
<1>2. Stored'
  BY DEF IndInv, Stored
<1>3. Unbroken'
  BY DEF IndInv, Unbroken
<1>4. /\ Sound(Legible(disk'), clock') /\ Sound(frames', clock')
      /\ SamplesBounded' /\ ReadersReturn' /\ DiskIsMemory'
  BY DEF IndInv, SamplesBounded, ReadersReturn, DiskIsMemory
<1> QED
  BY <1>1, <1>2, <1>3, <1>4 DEF IndInv

\* A reader that never returns has met a write that failed or was short.
LEMMA LoadSticksInv == ASSUME IndInv, LoadSticks PROVE IndInv'
<1> USE DEF LoadSticks, memory, state
<1>1. TypeOK'
  BY DEF IndInv, TypeOK
<1>2. Stored'
  BY DEF IndInv, Stored
<1>3. Unbroken'
  BY DEF IndInv, Unbroken
<1>4. ReadersReturn'
  BY DEF IndInv, Stored, ReadersReturn
<1>5. /\ Sound(Legible(disk'), clock') /\ Sound(frames', clock')
      /\ SamplesBounded' /\ DiskIsMemory'
  BY DEF IndInv, SamplesBounded, DiskIsMemory
<1> QED
  BY <1>1, <1>2, <1>3, <1>4, <1>5 DEF IndInv

\* A load happens to a trace that a restart has found.
LEMMA LoadInv == ASSUME IndInv, Load PROVE IndInv'
<1> USE DEF Load
<1>1. FileOK(disk) /\ disk \in Seq(Frame)
  BY TypeParts DEF IndInv, FileOK
<1>2. maxSize = 0 /\ kills # 0
  BY DEF IndInv, Stored, Unbroken
<1>3. disk \in Seq(Frame \ {TornFrame})
  <2>1. \A i \in 1 .. Len(disk) : disk[i] # TornFrame
    BY <1>1 DEF HasTorn
  <2> QED
    BY <1>1, <2>1
<1>4. Sound(disk, clock)
  BY <1>1, LegibleWhole DEF IndInv
<1>5. TypeOK'
  <2>1. loaded' \in BOOLEAN
    BY Zenon
  <2> QED
    BY <1>3, <2>1 DEF IndInv, TypeOK
<1>6. Stored'
  BY <1>2 DEF IndInv, Stored
<1>7. Unbroken'
  BY <1>2 DEF IndInv, Unbroken
<1>8. DiskIsMemory'
  <2>1. Within(disk, disk) /\ Covers(disk, disk)
    BY <1>1, WholeIsBlurred
  <2> QED
    BY <2>1 DEF DiskIsMemory
<1>9. /\ Sound(Legible(disk'), clock') /\ Sound(frames', clock')
      /\ SamplesBounded' /\ ReadersReturn'
  BY <1>4 DEF IndInv, SamplesBounded, ReadersReturn
<1> QED
  BY <1>5, <1>6, <1>7, <1>8, <1>9 DEF IndInv

\* A new trace, the description of which is written in full or in part.
LEMMA CreatedInv ==
  ASSUME IndInv, proc = "up", ~known, Created, faults' \in 0 .. MaxFaults,
         \/ disk' = <<DescFrame>>
         \/ disk' = <<TornFrame>> /\ faults' > 0
  PROVE  IndInv'
<1> USE DEF Created
<1>1. Scalars
  BY TypeParts DEF IndInv
<1>2. /\ FileOK(disk') /\ At(disk', "counters") = {} /\ At(disk', "meta") = {}
      /\ Sound(Legible(disk'), clock')
  BY SmallFiles
<1>3. /\ disk' # <<>> /\ Within(disk', <<DescFrame>>) /\ Covers(disk', <<DescFrame>>)
      /\ Len(disk') = Len(<<DescFrame>>) /\ (HasTorn(disk') => faults' > 0)
  <2>1. CASE disk' = <<DescFrame>>
    <3>1. <<DescFrame>> \in Seq(Frame) /\ ~HasTorn(<<DescFrame>>)
      BY NewFile, WholeIsOK DEF Whole
    <3>2. Within(<<DescFrame>>, <<DescFrame>>) /\ Covers(<<DescFrame>>, <<DescFrame>>)
      BY <3>1, WholeIsBlurred
    <3> QED
      BY <2>1, <3>1, <3>2
  <2>2. CASE disk' = <<TornFrame>> /\ faults' > 0
    BY <2>2 DEF Within, Covers
  <2> QED
    BY <2>1, <2>2
<1>4. frames' = <<>> /\ <<DescFrame>> \o frames' = <<DescFrame>>
  BY NewFile
<1>5. TypeOK'
  <2>1. Scalars'
    <3>1. (exists \in BOOLEAN /\ known \in BOOLEAN /\ loaded \in BOOLEAN /\ done \in BOOLEAN
             /\ failed \in BOOLEAN /\ active \in BOOLEAN)'
      BY Zenon
    <3>2. (/\ proc \in {"up", "down", "hung", "stuck"}
           /\ nextId \in Nat /\ maxSize \in {0, MaxTraceSize} /\ period \in Nat \ {0}
           /\ clock \in 0 .. MaxClock /\ kills \in 0 .. MaxKills)'
      BY <1>1 DEF Scalars
    <3> QED
      BY <3>1, <3>2 DEF Scalars
  <2>2. frames' \in Seq(Frame \ {TornFrame})
    OBVIOUS
  <2> QED
    BY <1>2, <2>1, <2>2 DEF TypeOK, Scalars, FileOK
<1>6. Stored'
  <2>1. Mirrors(disk', <<DescFrame>> \o frames')
    BY <1>3, <1>4 DEF Mirrors
  <2>2. At(frames', "desc") = {}
    BY DEF At
  <2>3. proc' = "up"
    OBVIOUS
  <2> QED
    BY <1>3, <2>1, <2>2, <2>3 DEF Stored
<1>7. DiskIsMemory'
  BY <1>3, <1>4 DEF DiskIsMemory
<1>8. Unbroken'
  <2>1. ASSUME kills = 0 PROVE clock = 0 /\ proc = "up"
    BY <2>1 DEF IndInv, Unbroken
  <2>2. At(<<>>, "meta") = {} /\ At(<<>>, "counters") = {}
    BY DEF At
  <2>3. Numbered(<<>>, 0) /\ Numbered(disk', 0)
    BY <1>2, <2>2 DEF Numbered, OneIdPerName
  <2>4. PerPeriod(<<>>, 0, 1)
    <3>1. Cardinality({}) = 0 /\ 0 \div 1 = 0
      BY FS_EmptySet
    <3> QED
      BY <2>2, <3>1 DEF PerPeriod
  <2> QED
    BY <2>1, <2>3, <2>4 DEF Unbroken
<1>9. SamplesBounded'
  BY <1>1, <1>2, Numbers, NoneIsFew DEF SamplesBounded
<1>10. Sound(frames', clock')
  BY NewFile
<1>11. ReadersReturn'
  BY DEF ReadersReturn
<1> QED
  BY <1>2, <1>5, <1>6, <1>7, <1>8, <1>9, <1>10, <1>11 DEF IndInv

\* Trace::new, with all of its writes.
LEMMA CreateInv == ASSUME IndInv, Create PROVE IndInv'
<1>1. faults' \in 0 .. MaxFaults
  BY TypeParts DEF IndInv, Scalars, Create
<1> QED
  BY <1>1, CreatedInv DEF Create

\* The number of faults after another one.
LEMMA FaultIs ==
  ASSUME IndInv, Fault
  PROVE  faults' \in 0 .. MaxFaults /\ faults' > 0
<1>1. faults \in 0 .. MaxFaults /\ faults \in Nat /\ MaxFaults \in Nat
  BY TypeParts, Numbers DEF IndInv, Scalars
<1> QED
  BY <1>1 DEF Fault

LEMMA CreateShortInv == ASSUME IndInv, CreateShort PROVE IndInv'
  BY FaultIs, CreatedInv DEF CreateShort

\* A trace that cannot be created leaves a file that nobody has.
LEMMA CreateFailsInv == ASSUME IndInv, CreateFails PROVE IndInv'
<1> USE DEF CreateFails, memory, state
<1>1. faults' \in 0 .. MaxFaults /\ faults' > 0
  BY FaultIs
<1>2. /\ FileOK(disk') /\ At(disk', "counters") = {} /\ At(disk', "meta") = {}
      /\ Sound(Legible(disk'), clock')
  BY SmallFiles
<1>3. TypeOK'
  <2>1. exists' \in BOOLEAN
    BY Zenon
  <2> QED
    BY <1>1, <1>2, <2>1 DEF IndInv, TypeOK, FileOK
<1>4. Stored'
  BY DEF IndInv, Stored
<1>5. DiskIsMemory'
  BY DEF IndInv, Stored, DiskIsMemory
<1>6. Unbroken'
  <2>1. Numbered(disk', nextId)
    BY <1>2 DEF Numbered, OneIdPerName
  <2> QED
    BY <2>1 DEF IndInv, Unbroken
<1>7. SamplesBounded'
  BY <1>1 DEF SamplesBounded
<1>8. ReadersReturn' /\ Sound(frames', clock')
  BY <1>1 DEF IndInv, ReadersReturn
<1> QED
  BY <1>2, <1>3, <1>4, <1>5, <1>6, <1>7, <1>8 DEF IndInv

\* The process is started again.
LEMMA RestartInv == ASSUME IndInv, Restart PROVE IndInv'
<1> USE DEF Restart
<1>1. Scalars /\ FileOK(disk)
  BY TypeParts DEF IndInv
<1>2. ~known /\ ~active /\ ~loaded /\ ~failed /\ maxSize = 0 /\ frames = <<>> /\ kills # 0
  BY DEF IndInv, Stored, Unbroken
<1>3. Readable => ~MayHang /\ exists /\ disk # <<>> /\ ~HasTorn(disk)
  <2>1. disk # <<>> => 1 \in DOMAIN disk
    BY <1>1 DEF FileOK
  <2> QED
    BY <2>1 DEF Readable, MayHang, HasTorn
<1>4. known' \in BOOLEAN
  BY Zenon DEF Readable
<1>5. proc' \in {"up", "hung"} /\ (known' => proc' = "up")
  BY <1>3
<1>6. TypeOK'
  BY <1>1, <1>4, <1>5 DEF IndInv, TypeOK
<1>7. Stored'
  BY <1>2, <1>3, <1>5 DEF IndInv, Stored
<1>8. Unbroken' /\ DiskIsMemory'
  BY <1>2 DEF Unbroken, DiskIsMemory
<1>9. /\ Sound(Legible(disk'), clock') /\ Sound(frames', clock')
      /\ SamplesBounded' /\ ReadersReturn'
  BY <1>5 DEF IndInv, SamplesBounded, ReadersReturn
<1> QED
  BY <1>6, <1>7, <1>8, <1>9 DEF IndInv

\* A kill between two operations, and one while the file is created.
LEMMA KillInv == ASSUME IndInv, Kill PROVE IndInv'
<1> USE DEF Kill
<1>1. Scalars /\ FileOK(disk) /\ disk \in Seq(Frame)
  BY TypeParts DEF IndInv, FileOK
<1>2. exists' \in BOOLEAN /\ clock' \in 0 .. MaxClock
  BY <1>1 DEF Scalars
<1>3. (~exists' => disk' = <<>>) /\ Sound(Legible(disk'), clock')
  BY DEF IndInv, Stored
<1>4. ASSUME faults = 0 PROVE Few(disk', kills + 1)
  <2> DEFINE n == Cardinality(At(disk, "counters"))
  <2>1. n \in Nat
    BY <1>1, AtFinite
  <2>2. (n - kills) * SampleBytes <= MaxTraceSize
    BY <1>4 DEF IndInv, SamplesBounded, Few
  <2> HIDE DEF n
  <2>3. (n - (kills + 1)) * SampleBytes <= MaxTraceSize
    BY <1>1, <2>1, <2>2, Numbers, FewerIsFew, SMTT(30)
  <2> QED
    BY <2>3 DEF Few, n
<1>5. FileOK(disk')
  BY <1>1
<1> QED
  BY <1>2, <1>3, <1>4, <1>5, KilledInv

\* A description that is cut off leaves an empty or torn file.
LEMMA KillInCreateInv == ASSUME IndInv, KillInCreate PROVE IndInv'
<1> USE DEF KillInCreate
<1>1. Scalars
  BY TypeParts DEF IndInv
<1>2. <<DescFrame>> \in Seq(Frame) /\ Whole(<<DescFrame>>) /\ Sound(<<DescFrame>>, clock')
  BY NewFile DEF Whole
<1>3. disk' \in Seq(Frame) /\ Within(disk', <<DescFrame>>)
  BY <1>2, TornIs
<1>4. FileOK(disk') /\ Sound(Legible(disk'), clock')
  BY <1>2, <1>3, FileFrom
<1>5. exists' \in BOOLEAN /\ exists'
  BY Zenon
<1>6. clock' \in 0 .. MaxClock
  BY <1>1 DEF Scalars
<1>7. Few(disk', kills + 1)
  <2>1. At(<<DescFrame>>, "counters") = {}
    BY SmallFiles
  <2>2. At(disk', "counters") = {}
    BY <1>2, <1>3, <2>1, WithinAt
  <2>3. kills + 1 \in Nat
    BY <1>1, Numbers
  <2> QED
    BY <1>1, <2>2, <2>3, NoneIsFew
<1> QED
  BY <1>4, <1>5, <1>6, <1>7, KilledInv

-----------------------------------------------------------------------------
(***************************************************************************)
(* Pushes.  w is what the file would be if no write had been short.        *)
(***************************************************************************)
Base(w) ==
  /\ Whole(w) /\ Mirrors(disk, w) /\ Sound(w, clock)
  /\ \A i \in At(frames, "meta") : \E j \in At(w, "meta") : w[j].id = frames[i].id
  /\ Cardinality(At(frames, "counters")) <= Cardinality(At(w, "counters"))
  /\ ~HasTorn(disk) => disk = w
  /\ maxSize # 0 => w = <<DescFrame>> \o frames /\ frames \in Seq(Plain)
  /\ loaded => w \in {frames, <<DescFrame>> \o frames}

\* A trace of the store has such a file as long as no push has failed.
LEMMA KnownTrace ==
  ASSUME IndInv, known, ~failed
  PROVE  \E w : Base(w)
<1>1. FileOK(disk) /\ frames \in Seq(Frame \ {TornFrame}) /\ disk \in Seq(Frame)
  BY TypeParts DEF IndInv, FileOK
<1>2. frames \in Seq(Frame) /\ Sound(frames, clock) /\ disk # <<>>
  BY <1>1 DEF IndInv, Stored
<1>3. CASE Mirrors(disk, <<DescFrame>> \o frames) /\ At(frames, "desc") = {}
  <2> DEFINE w == <<DescFrame>> \o frames
  <2>1. \A i \in 1 .. Len(frames) : frames[i] \in Plain
    <3>1. \A i \in 1 .. Len(frames) : frames[i] \in Frame /\ frames[i] # TornFrame
      BY <1>1
    <3>2. \A i \in 1 .. Len(frames) : frames[i] # DescFrame
      BY <1>2, <1>3, FrameKinds DEF At
    <3> QED
      BY <3>1, <3>2, FrameKinds
  <2>2. frames \in Seq(Plain)
    BY <1>2, <2>1
  <2>3. Whole(w)
    BY <2>2, ConsWhole
  <2>4. Sound(w, clock)
    BY <1>2, ConsSound
  <2>5. Shifted(w, frames, "meta")
    BY <1>2, ConsPositions
  <2>6. Cardinality(At(w, "counters")) = Cardinality(At(frames, "counters"))
    BY <1>2, ConsCount
  <2> HIDE DEF w
  <2>7. \A i \in At(frames, "meta") : \E j \in At(w, "meta") : w[j].id = frames[i].id
    <3>1. \A i \in At(frames, "meta") : i + 1 \in At(w, "meta") /\ w[i + 1] = frames[i]
      BY <2>5 DEF Shifted
    <3> QED
      BY <3>1
  <2>8. Cardinality(At(frames, "counters")) <= Cardinality(At(w, "counters"))
    <3>1. Cardinality(At(frames, "counters")) \in Nat
      BY <1>2, AtFinite
    <3> QED
      BY <2>6, <3>1
  <2>9. Mirrors(disk, w) /\ w \in Seq(Frame)
    BY <1>3, <2>3 DEF w, Whole
  <2>10. ~HasTorn(disk) => disk = w
    BY <1>1, <2>9, MirrorsWhole
  <2>11. Base(w)
    BY <2>2, <2>3, <2>4, <2>7, <2>8, <2>9, <2>10 DEF Base, w
  <2> QED
    BY <2>11
<1>4. CASE maxSize = 0 /\ ~HasTorn(disk) /\ (frames = disk \/ (frames = <<>> /\ ~loaded))
  <2>1. Whole(disk)
    BY <1>1, <1>2, <1>4, OKIsWhole
  <2>2. Sound(disk, clock)
    BY <1>1, <1>4, LegibleWhole DEF IndInv
  <2>3. Mirrors(disk, disk)
    BY <1>1, WholeIsBlurred DEF Mirrors
  <2>4. /\ \A i \in At(frames, "meta") : \E j \in At(disk, "meta") : disk[j].id = frames[i].id
        /\ Cardinality(At(frames, "counters")) <= Cardinality(At(disk, "counters"))
    <3>1. Cardinality(At(disk, "counters")) \in Nat
      BY <1>1, AtFinite
    <3>2. CASE frames = disk
      BY <3>1, <3>2
    <3>3. CASE frames = <<>>
      <4>1. At(frames, "meta") = {} /\ At(frames, "counters") = {}
        BY <3>3 DEF At
      <4>2. Cardinality({}) = 0
        BY FS_EmptySet
      <4> QED
        BY <3>1, <4>1, <4>2
    <3> QED
      BY <1>4, <3>2, <3>3
  <2>5. Base(disk)
    BY <1>4, <2>1, <2>2, <2>3, <2>4 DEF Base
  <2> QED
    BY <2>5
<1> QED
  BY <1>3, <1>4 DEF IndInv, Stored

\* What a push at time t makes of it: the file and the memory with the new
\* frames, and the fold, are whole and can be read from the front.
Outcome(new, w, t) ==
  /\ new \in Seq(Plain) /\ new \in Seq(Frame)
  /\ w \o new \in Seq(Frame) /\ Whole(w \o new) /\ Sound(w \o new, t)
  /\ frames \o new \in Seq(Frame \ {TornFrame}) /\ frames \o new \in Seq(Frame)
  /\ Sound(frames \o new, t)
  /\ Fold(frames \o new) \in Seq(Plain) /\ Sound(Fold(frames \o new), t)
  /\ Folded(new) \in Seq(Frame) /\ Whole(Folded(new)) /\ Sound(Folded(new), t)
  /\ maxSize # 0 => /\ w \o new = <<DescFrame>> \o (frames \o new)
                    /\ frames \o new \in Seq(Plain)

LEMMA PushFacts ==
  ASSUME IndInv, known, ~failed, NEW w, Base(w), NEW S \in SUBSET Names,
         NEW order \in Orders(S \ Described(frames)), NEW new, new = Written(order, S)
  PROVE  /\ Pushed(new, frames, order, nextId, clock, period)
         /\ Outcome(new, w, clock + period)
<1>1. Scalars /\ frames \in Seq(Frame \ {TornFrame})
  BY TypeParts DEF IndInv
<1>2. nextId \in Nat /\ clock \in Nat /\ period \in Nat \ {0} /\ clock + period \in Nat
  BY <1>1, Numbers
<1>3. /\ Whole(w) /\ w \in Seq(Frame) /\ Sound(w, clock)
      /\ \A i \in At(frames, "meta") : \E j \in At(w, "meta") : w[j].id = frames[i].id
  BY DEF Base, Whole
<1>4. frames \in Seq(Frame) /\ Sound(frames, clock)
  BY <1>1 DEF IndInv
<1>5. Pushed(new, frames, order, nextId, clock, period)
  BY <1>2, <1>4, WrittenIs
<1>6. new \in Seq(Plain)
  BY <1>5 DEF Pushed
<1>7. new \in Seq(Frame) /\ new \in Seq(Frame \ {TornFrame})
  BY <1>6, FrameKinds
<1>8. Whole(w \o new) /\ w \o new \in Seq(Frame)
  BY <1>3, <1>6, WholeExtended DEF Whole
<1>9. Sound(w \o new, clock + period)
  BY <1>2, <1>3, <1>5, ExtendSound
<1>10. Sound(frames \o new, clock + period)
  BY <1>2, <1>4, <1>5, ExtendSound
<1>11. frames \o new \in Seq(Frame \ {TornFrame}) /\ frames \o new \in Seq(Frame)
  BY <1>1, <1>4, <1>7
<1> DEFINE s == frames \o new
           f == Fold(s)
<1> HIDE DEF s
<1>12. f \in Seq(Plain) /\ Sound(f, clock + period)
  <2>1. s \in Seq(Frame) /\ Sound(s, clock + period)
    BY <1>10, <1>11 DEF s
  <2>2. Sound(f, clock + period)
    BY <1>2, <2>1, FoldSound
  <2>3. \E m, c, p, q : Folds(f, s, m, c, p, q)
    BY <2>1, FoldIs
  <2> QED
    BY <2>2, <2>3 DEF Folds
<1>13. f \in Seq(Frame)
  BY <1>12, FrameKinds
<1> HIDE DEF f
<1>14. Folded(new) = <<DescFrame>> \o f
  BY DEF Folded, f, s
<1>15. Whole(Folded(new)) /\ Folded(new) \in Seq(Frame)
  BY <1>12, <1>14, ConsWhole DEF Whole
<1>16. Sound(Folded(new), clock + period)
  BY <1>12, <1>13, <1>14, ConsSound
<1>17. ASSUME maxSize # 0
       PROVE  w \o new = <<DescFrame>> \o s /\ s \in Seq(Plain)
  <2> DEFINE d == <<DescFrame>>
  <2>1. d \in Seq(Frame) /\ w = d \o frames /\ frames \in Seq(Plain)
    BY <1>17, FrameKinds DEF Base
  <2> HIDE DEF d
  <2>2. (d \o frames) \o new = d \o (frames \o new)
    BY <1>4, <1>7, <2>1
  <2>3. s \in Seq(Plain)
    BY <1>6, <2>1 DEF s
  <2> QED
    BY <2>1, <2>2, <2>3 DEF d, s
<1>18. /\ s = frames \o new /\ f = Fold(frames \o new)
  BY DEF s, f
<1>19. Outcome(new, w, clock + period)
  BY <1>6, <1>7, <1>8, <1>9, <1>10, <1>11, <1>12, <1>15, <1>16, <1>17, <1>18 DEF Outcome
<1> QED
  BY <1>5, <1>19

\* While the proxy was not restarted, a push keeps the ids unique and adds the
\* sample of one period.
LEMMA PushUnbroken ==
  ASSUME IndInv, known, ~failed, ~done, kills = 0, NEW S \in SUBSET Names,
         NEW order \in Orders(S \ Described(frames)), NEW new,
         Pushed(new, frames, order, nextId, clock, period)
  PROVE  /\ Numbered(frames \o new, nextId + Len(order))
         /\ PerPeriod(frames \o new, clock + period, period)
<1>1. nextId \in Nat /\ clock \in Nat /\ period \in Nat \ {0}
  BY TypeParts, Numbers DEF IndInv
<1>2. frames \in Seq(Frame)
  BY TypeParts DEF IndInv
<1>4. Numbered(frames, nextId) /\ PerPeriod(frames, clock, period)
  BY DEF IndInv, Unbroken
<1> DEFINE D == S \ Described(frames)
<1>5. IsFiniteSet(D)
  BY FS_Subset, SizesAssumption
<1>6. /\ order \in Seq(D) /\ Len(order) \in Nat
      /\ \A i, j \in 1 .. Len(order) : order[i] = order[j] => i = j
  BY <1>5, OrderIs
<1>7. ASSUME NEW i \in At(frames, "meta"), NEW j \in 1 .. Len(order)
      PROVE  frames[i].name # order[j]
  <2>1. order[j] \in Names /\ order[j] \notin Described(frames)
    BY <1>6
  <2> QED
    BY <2>1 DEF Described, Describes
<1>8. Numbered(frames \o new, nextId + Len(order))
  BY <1>1, <1>2, <1>4, <1>6, <1>7, ExtendNumbered
<1>9. PerPeriod(frames \o new, clock + period, period)
  BY <1>1, <1>2, <1>4, ExtendPeriod
<1> QED
  BY <1>8, <1>9

\* How many samples a push leaves in the file and in the fold.
LEMMA PushCounts ==
  ASSUME IndInv, known, ~failed, NEW w, Base(w), NEW new, NEW order,
         Pushed(new, frames, order, nextId, clock, period), Outcome(new, w, clock + period)
  PROVE  /\ Cardinality(At(w, "counters")) \in Nat
         /\ Cardinality(At(w \o new, "counters")) = Cardinality(At(w, "counters")) + 1
         /\ Cardinality(At(Folded(new), "counters")) \in Nat
         /\ Cardinality(At(Folded(new), "counters")) <= Cardinality(At(w, "counters"))
<1> DEFINE n == Cardinality(At(w, "counters"))
           m == Cardinality(At(frames, "counters"))
           s == frames \o new
<1>1. nextId \in Nat /\ frames \in Seq(Frame) /\ w \in Seq(Frame)
  <2>1. Scalars /\ frames \in Seq(Frame \ {TornFrame})
    BY TypeParts DEF IndInv
  <2>2. w \in Seq(Frame)
    BY DEF Base, Whole
  <2> QED
    BY <2>1, <2>2, Numbers
<1>2. n \in Nat /\ m \in Nat /\ m <= n
  BY <1>1, AtFinite DEF Base
<1>3. Cardinality(At(w \o new, "counters")) = n + 1
  BY <1>1, ExtendCount
<1>4. Cardinality(At(s, "counters")) = m + 1
  BY <1>1, ExtendCount
<1>5. s \in Seq(Frame) /\ Fold(s) \in Seq(Plain)
  BY DEF Outcome
<1> HIDE DEF n, m, s
<1>6. Cardinality(At(Fold(s), "counters")) = (m + 1) \div 2
  BY <1>4, <1>5, FoldCount
<1>7. Fold(s) \in Seq(Frame)
  BY <1>5, FrameKinds
<1>8. Cardinality(At(Folded(new), "counters")) = Cardinality(At(Fold(s), "counters"))
  BY <1>7, ConsCount DEF Folded, s
<1>9. (m + 1) \div 2 \in Nat /\ (m + 1) \div 2 <= n
  BY <1>2
<1> QED
  BY <1>2, <1>3, <1>6, <1>8, <1>9 DEF n

\* A push that is killed leaves a file that can be read up to a torn frame.
LEMMA KillInPushInv ==
  ASSUME IndInv, NEW S \in SUBSET Names, KillInPush(S)
  PROVE  IndInv'
<1>1. Scalars /\ known /\ ~failed /\ exists /\ exists \in BOOLEAN /\ disk \in Seq(Frame)
  BY TypeParts DEF KillInPush, Takes, IndInv, Stored, Scalars, FileOK
<1>2. clock' = clock + period /\ clock' \in 0 .. MaxClock /\ Killed
  BY <1>1, Numbers DEF KillInPush, Takes
<1>3. PICK order \in Orders(S \ Described(frames)) :
        LET new == Written(order, S) IN
        \/ /\ \E part \in Torn(new) : disk' = disk \o part
           /\ UNCHANGED exists
        \/ /\ MayFold(disk \o new)
           /\ \/ exists' = FALSE /\ disk' = <<>>
              \/ disk' \in Torn(Folded(new)) /\ UNCHANGED exists
  BY DEF KillInPush
<1> DEFINE new == Written(order, S)
<1>4. PICK w : Base(w)
  BY <1>1, KnownTrace
<1>5. Pushed(new, frames, order, nextId, clock, period) /\ Outcome(new, w, clock + period)
  BY <1>1, <1>4, PushFacts
<1>6. \/ /\ \E part \in Torn(new) : disk' = disk \o part
         /\ UNCHANGED exists
      \/ exists' = FALSE /\ disk' = <<>>
      \/ disk' \in Torn(Folded(new)) /\ UNCHANGED exists
  BY <1>3
<1> HIDE DEF new
<1>7. exists' \in BOOLEAN /\ (~exists' => disk' = <<>>)
  <2>1. CASE UNCHANGED exists
    BY <1>1, <2>1
  <2>2. CASE exists' = FALSE /\ disk' = <<>>
    <3>1. exists' \in BOOLEAN
      BY <2>2, Zenon
    <3> QED
      BY <2>2, <3>1
  <2> QED
    BY <1>6, <2>1, <2>2
<1>8. PICK v \in {w \o new, Folded(new)} : disk' \in Seq(Frame) /\ Within(disk', v)
  <2>1. CASE \E part \in Torn(new) : disk' = disk \o part
    <3>1. PICK part \in Torn(new) : disk' = disk \o part
      BY <2>1
    <3>2. new \in Seq(Frame)
      BY <1>5 DEF Outcome
    <3>3. part \in Seq(Frame) /\ Within(part, new)
      BY <3>2, TornIs
    <3>4. w \in Seq(Frame) /\ Mirrors(disk, w)
      BY <1>4 DEF Base, Whole
    <3>5. disk \o part \in Seq(Frame) /\ Within(disk \o part, w \o new)
      BY <1>1, <3>2, <3>3, <3>4, WithinBehind
    <3> QED
      BY <3>1, <3>5
  <2>2. CASE disk' = <<>>
    <3>1. Within(<<>>, w \o new)
      <4>1. Len(w \o new) \in Nat
        BY <1>5 DEF Outcome
      <4> QED
        BY <4>1 DEF Within
    <3> QED
      BY <2>2, <3>1
  <2>3. CASE disk' \in Torn(Folded(new))
    <3>1. Folded(new) \in Seq(Frame)
      BY <1>5 DEF Outcome
    <3> QED
      BY <2>3, <3>1, TornIs
  <2> QED
    BY <1>6, <2>1, <2>2, <2>3
<1>9. Whole(v) /\ Sound(v, clock + period) /\ v \in Seq(Frame)
  BY <1>5, <1>8 DEF Outcome
<1>10. FileOK(disk') /\ Sound(Legible(disk'), clock')
  BY <1>2, <1>8, <1>9, FileFrom
<1>11. ASSUME faults = 0 PROVE Few(disk', kills + 1)
  <2> DEFINE x == Cardinality(At(disk', "counters"))
             n == Cardinality(At(disk, "counters"))
             y == Cardinality(At(v, "counters"))
  <2>1. disk = w
    BY <1>1, <1>4, <1>11 DEF IndInv, Stored, Base
  <2>2. n \in Nat /\ y \in Nat /\ y <= n + 1
    <3>1. /\ n \in Nat /\ Cardinality(At(w \o new, "counters")) = n + 1
          /\ Cardinality(At(Folded(new), "counters")) \in Nat
          /\ Cardinality(At(Folded(new), "counters")) <= n
      BY <1>1, <1>4, <1>5, <2>1, PushCounts
    <3>2. CASE v = w \o new
      <4>1. y = n + 1
        BY <3>1, <3>2
      <4> HIDE DEF y, n
      <4> QED
        BY <3>1, <4>1
    <3>3. CASE v = Folded(new)
      <4>1. y \in Nat /\ y <= n
        BY <3>1, <3>3
      <4> HIDE DEF y, n
      <4> QED
        BY <3>1, <4>1
    <3> QED
      BY <1>8, <3>2, <3>3
  <2>3. x \in Nat /\ x <= y
    BY <1>8, <1>9, WithinCount
  <2>4. (n - kills) * SampleBytes <= MaxTraceSize
    BY <1>11 DEF IndInv, SamplesBounded, Few
  <2> HIDE DEF x, n, y
  <2>a. kills \in Nat
    BY <1>1, Numbers
  <2>5. kills + 1 \in Nat /\ x - (kills + 1) <= n - kills
    BY <2>2, <2>3, <2>a
  <2>6. (x - (kills + 1)) * SampleBytes <= MaxTraceSize
    BY <1>1, <2>2, <2>3, <2>4, <2>5, <2>a, Numbers, FewerIsFew
  <2> QED
    BY <2>6 DEF Few, x
<1> QED
  BY <1>2, <1>7, <1>10, <1>11, KilledInv

\* The parts of a push that go well: what is written may be short if that counts
\* as a fault.
Went(new, appended, folded) ==
  /\ appended \in Seq(Frame) /\ Len(appended) = Len(new) /\ Within(appended, new)
  /\ folded \in Seq(Frame) /\ Len(folded) = Len(Folded(new)) /\ Within(folded, Folded(new))
  /\ StorePush(new, appended, folded)
  /\ faults' \in 0 .. MaxFaults
  /\ faults' > 0 \/ (faults' = faults /\ appended = new /\ folded = Folded(new))

\* The file and the memory after it.
After ==
  /\ frames' \in Seq(Plain) /\ Sound(frames', clock')
  /\ Whole(<<DescFrame>> \o frames') /\ disk' \in Seq(Frame)
  /\ Mirrors(disk', <<DescFrame>> \o frames')
  /\ HasTorn(disk') => faults' > 0
  /\ period' \in Nat \ {0}

\* The file is kept only if it is within a maximum size that is not 0.
LEMMA StayIs ==
  ASSUME IndInv, known, ~failed, NEW w, Base(w), NEW new, Outcome(new, w, clock + period),
         NEW c \in Seq(Frame), Within(c, new), MayStay(disk \o c)
  PROVE  /\ maxSize # 0
         /\ SampleBytes * Cardinality(At(disk \o c, "counters")) <= MaxTraceSize
<1> DEFINE e == disk \o c
<1>1. Scalars /\ disk \in Seq(Frame)
  BY TypeParts DEF IndInv, FileOK
<1>2. /\ w \in Seq(Frame) /\ Mirrors(disk, w) /\ new \in Seq(Frame) /\ Len(w) \in Nat \ {0}
      /\ w \o new \in Seq(Frame) /\ Whole(w \o new) /\ Sound(w \o new, clock + period)
  BY DEF Base, Whole, Outcome
<1>3. e \in Seq(Frame) /\ Within(e, w \o new) /\ Len(e) = Len(disk) + Len(c)
  BY <1>1, <1>2, WithinBehind
<1> HIDE DEF e
<1>4. FileOK(e)
  BY <1>2, <1>3, FileFrom
<1>5. IsFiniteSet(Entries(e))
  BY <1>2, <1>3, EntriesFinite DEF Sound
<1>6. e # <<>>
  <2>1. Len(disk) = Len(w) /\ Len(c) \in Nat
    BY <1>2 DEF Mirrors
  <2>2. Len(e) # 0
    BY <1>2, <1>3, <2>1
  <2> QED
    BY <2>2
<1>7. Size(e) \in Nat /\ SampleBytes * Cardinality(At(e, "counters")) <= Size(e) /\ Size(e) > 0
  BY <1>4, <1>5, <1>6, SizeIs
<1>8. Size(e) <= maxSize /\ maxSize \in Nat /\ maxSize <= MaxTraceSize /\ MaxTraceSize \in Nat
  BY <1>1, Numbers DEF MayStay, e
<1>9. Cardinality(At(e, "counters")) \in Nat /\ SampleBytes \in Nat
  BY <1>1, <1>3, AtFinite, Numbers
<1>10. SampleBytes * Cardinality(At(e, "counters")) \in Nat
  BY <1>9
<1> QED
  BY <1>7, <1>8, <1>10 DEF e

LEMMA AfterPush ==
  ASSUME IndInv, Takes, NEW w, Base(w), NEW new, Outcome(new, w, clock + period),
         NEW appended, NEW folded, Went(new, appended, folded)
  PROVE  After
<1>1. Scalars /\ known /\ ~failed /\ disk \in Seq(Frame)
  BY TypeParts DEF Takes, IndInv, Stored, FileOK
<1>2. clock' = clock + period /\ period \in Nat \ {0} /\ period' \in {period, 2 * period}
  BY <1>1, Numbers DEF Takes, Went, StorePush
<1>3. period' \in Nat \ {0}
  BY <1>2
<1>4. CASE MayStay(disk \o appended) /\ disk' = disk \o appended /\ frames' = frames \o new
  <2>1. maxSize # 0
    BY <1>1, <1>4, StayIs DEF Went
  <2>2. /\ w \o new = <<DescFrame>> \o frames' /\ frames' \in Seq(Plain)
        /\ Sound(frames', clock') /\ Whole(w \o new) /\ new \in Seq(Frame)
    BY <1>2, <1>4, <2>1 DEF Outcome
  <2>3. w \in Seq(Frame) /\ Mirrors(disk, w) /\ (~HasTorn(disk) => disk = w)
    BY DEF Base, Whole
  <2>4. appended \in Seq(Frame) /\ Within(appended, new) /\ Len(appended) = Len(new)
    BY DEF Went
  <2>5. /\ disk' \in Seq(Frame) /\ Within(disk', w \o new)
        /\ Len(disk') = Len(disk) + Len(appended) /\ Len(w \o new) = Len(w) + Len(new)
    <3>a. /\ disk \in Seq(Frame) /\ w \in Seq(Frame) /\ Mirrors(disk, w)
          /\ appended \in Seq(Frame) /\ new \in Seq(Frame) /\ Within(appended, new)
      BY <1>1, <2>2, <2>3, <2>4
    <3>1. /\ disk \o appended \in Seq(Frame) /\ Within(disk \o appended, w \o new)
          /\ Len(disk \o appended) = Len(disk) + Len(appended)
          /\ Len(w \o new) = Len(w) + Len(new)
      BY <3>a, WithinBehind
    <3> QED
      BY <1>4, <3>1
  <2>6. Mirrors(disk', w \o new)
    BY <2>3, <2>4, <2>5 DEF Mirrors
  <2>7. HasTorn(disk') => faults' > 0
    <3>1. CASE faults' > 0
      BY <3>1
    <3>2. CASE faults' = faults /\ appended = new /\ ~(faults' > 0)
      <4>1. disk = w
        BY <1>1, <2>3, <3>2 DEF IndInv, Stored
      <4> QED
        BY <1>4, <2>2, <3>2, <4>1, WholeIsOK
    <3> QED
      BY <3>1, <3>2 DEF Went
  <2> QED
    BY <1>3, <2>2, <2>5, <2>6, <2>7 DEF After
<1>5. CASE disk' = folded /\ frames' = Fold(frames \o new)
  <2>1. /\ Folded(new) = <<DescFrame>> \o frames' /\ frames' \in Seq(Plain)
        /\ Sound(frames', clock') /\ Whole(Folded(new))
    BY <1>2, <1>5 DEF Outcome, Folded
  <2>2. disk' \in Seq(Frame) /\ Mirrors(disk', Folded(new))
    BY <1>5 DEF Went, Mirrors
  <2>3. HasTorn(disk') => faults' > 0
    BY <1>5, <2>1, WholeIsOK DEF Went
  <2> QED
    BY <1>3, <2>1, <2>2, <2>3 DEF After
<1> QED
  BY <1>4, <1>5 DEF Went, StorePush

\* ... and keeps the ids unique and a sample per period.
LEMMA AfterUnbroken ==
  ASSUME IndInv, Takes, kills = 0, NEW w, NEW S \in SUBSET Names,
         NEW order \in Orders(S \ Described(frames)), NEW new,
         Pushed(new, frames, order, nextId, clock, period), Outcome(new, w, clock + period),
         NEW appended, NEW folded, Went(new, appended, folded),
         nextId' = nextId + Len(order)
  PROVE  Numbered(frames', nextId') /\ PerPeriod(frames', clock', period')
<1>1. Scalars /\ known /\ ~failed /\ ~done
  BY TypeParts DEF Takes, IndInv, Stored
<1>2. clock' = clock + period /\ clock + period \in Nat /\ period \in Nat \ {0}
  BY <1>1, Numbers DEF Takes
<1> DEFINE s == frames \o new
<1>3. Numbered(s, nextId + Len(order)) /\ PerPeriod(s, clock + period, period)
  BY <1>1, PushUnbroken
<1>4. s \in Seq(Frame) /\ Sound(s, clock + period)
  BY DEF Outcome
<1>5. \/ frames' = s /\ period' = period
      \/ frames' = Fold(s) /\ period' = 2 * period
  BY DEF Went, StorePush
<1> HIDE DEF s
<1>6. CASE frames' = s /\ period' = period
  BY <1>2, <1>3, <1>6
<1>7. CASE frames' = Fold(s) /\ period' = 2 * period
  <2>1. Numbered(Fold(s), nextId + Len(order))
    BY <1>3, <1>4, FoldNumbered
  <2>2. PerPeriod(Fold(s), clock + period, 2 * period)
    BY <1>2, <1>3, <1>4, FoldPeriod
  <2> QED
    BY <1>2, <1>7, <2>1, <2>2
<1> QED
  BY <1>5, <1>6, <1>7

\* ... and the number of samples within bounds.
LEMMA AfterBounded ==
  ASSUME IndInv, Takes, NEW w, Base(w), NEW new, NEW order,
         Pushed(new, frames, order, nextId, clock, period), Outcome(new, w, clock + period),
         NEW appended, NEW folded, Went(new, appended, folded), kills' = kills
  PROVE  SamplesBounded'
<1> SUFFICES ASSUME faults' = 0 PROVE Few(disk', kills)
  BY DEF SamplesBounded
<1>1. Scalars /\ known /\ ~failed
  BY TypeParts DEF Takes, IndInv, Stored
<1>2. faults = 0 /\ appended = new /\ folded = Folded(new)
  BY DEF Went
<1>3. disk = w /\ new \in Seq(Frame) /\ Within(new, new)
  BY <1>1, <1>2, WholeIsBlurred DEF IndInv, Stored, Base, Outcome
<1>4. /\ kills \in Nat /\ SampleBytes \in Nat \ {0} /\ MaxTraceSize \in Nat
  BY <1>1, Numbers
<1>5. CASE MayStay(disk \o new) /\ disk' = disk \o new
  <2> DEFINE x == Cardinality(At(disk', "counters"))
  <2>1. SampleBytes * x <= MaxTraceSize
    BY <1>1, <1>3, <1>5, StayIs
  <2>2. x \in Nat
    <3>1. disk' \in Seq(Frame)
      BY <1>3, <1>5 DEF Outcome
    <3> QED
      BY <3>1, AtFinite
  <2> HIDE DEF x
  <2>3. (x - 0) * SampleBytes <= MaxTraceSize
    BY <1>4, <2>1, <2>2
  <2>4. x - kills <= x - 0
    BY <1>4, <2>2
  <2>5. (x - kills) * SampleBytes <= MaxTraceSize
    BY <1>4, <2>2, <2>3, <2>4, FewerIsFew
  <2> QED
    BY <2>5 DEF Few, x
<1>6. CASE disk' = Folded(new)
  <2> DEFINE x == Cardinality(At(disk', "counters"))
             n == Cardinality(At(disk, "counters"))
  <2>1. /\ Cardinality(At(Folded(new), "counters")) \in Nat /\ n \in Nat
        /\ Cardinality(At(Folded(new), "counters")) <= n
    BY <1>1, <1>3, PushCounts
  <2>2. x \in Nat /\ x <= n
    BY <1>6, <2>1
  <2>3. (n - kills) * SampleBytes <= MaxTraceSize
    BY <1>2 DEF IndInv, SamplesBounded, Few
  <2> HIDE DEF x, n
  <2>4. n \in Nat /\ x - kills <= n - kills
    BY <1>4, <2>1, <2>2
  <2>5. (x - kills) * SampleBytes <= MaxTraceSize
    BY <1>4, <2>2, <2>3, <2>4, FewerIsFew
  <2> QED
    BY <2>5 DEF Few, x
<1> QED
  BY <1>2, <1>5, <1>6 DEF Went, StorePush

\* A sample, folded or not and in full or not, keeps the invariant.
LEMMA PushedInv ==
  ASSUME IndInv, Takes, NEW S \in SUBSET Names,
         NEW order \in Orders(S \ Described(frames)), NEW new, new = Written(order, S),
         NEW appended, NEW folded, Went(new, appended, folded),
         nextId' = nextId + Len(order),
         UNCHANGED <<exists, proc, known, loaded, maxSize, done, failed, active, kills>>
  PROVE  IndInv'
<1>1. Scalars /\ known /\ ~failed /\ exists /\ proc = "up"
  BY TypeParts DEF Takes, IndInv, Stored
<1>2. PICK w : Base(w)
  BY <1>1, KnownTrace
<1>3. Pushed(new, frames, order, nextId, clock, period) /\ Outcome(new, w, clock + period)
  BY <1>1, <1>2, PushFacts
<1>4. After
  BY <1>2, <1>3, AfterPush
<1> DEFINE e == <<DescFrame>> \o frames'
<1>5. /\ frames' \in Seq(Plain) /\ Sound(frames', clock') /\ Whole(e) /\ disk' \in Seq(Frame)
      /\ Mirrors(disk', e) /\ (HasTorn(disk') => faults' > 0) /\ period' \in Nat \ {0}
  BY <1>4 DEF After
<1>6. /\ frames' \in Seq(Frame) /\ frames' \in Seq(Frame \ {TornFrame})
      /\ At(frames', "desc") = {}
  <2>1. \A i \in 1 .. Len(frames') : frames'[i] \in Plain
    BY <1>5
  <2>2. \A i \in DOMAIN frames' : frames'[i].kind # "desc"
    BY <1>5, <2>1, FrameKinds DEF Plain
  <2>3. At(frames', "desc") = {}
    BY <2>2 DEF At
  <2> QED
    BY <1>5, <2>3, FrameKinds
<1>7. e \in Seq(Frame) /\ Len(disk') = Len(e) /\ Within(disk', e)
  BY <1>5 DEF Mirrors, Whole
<1>8. Sound(e, clock')
  BY <1>5, <1>6, ConsSound
<1>9. FileOK(disk') /\ Sound(Legible(disk'), clock')
  BY <1>5, <1>7, <1>8, FileFrom
<1>10. Len(e) \in Nat \ {0} /\ DOMAIN e = 1 .. Len(e)
  BY <1>5 DEF Whole
<1> HIDE DEF e
<1>11. Covers(disk', e) /\ disk' # <<>>
  <2>1. DOMAIN disk' = 1 .. Len(e)
    BY <1>5, <1>7
  <2> QED
    BY <1>7, <1>10, <2>1 DEF Within, Covers
<1>12. TypeOK'
  <2>1. clock' \in 0 .. MaxClock /\ nextId' \in Nat /\ faults' \in 0 .. MaxFaults
    <3>1. clock \in Nat /\ period \in Nat /\ nextId \in Nat /\ Len(order) \in Nat
      BY <1>1, <1>3, Numbers DEF Pushed
    <3>2. clock' = clock + period /\ clock + period <= MaxClock /\ MaxClock \in Nat
      BY SizesAssumption DEF Takes
    <3>3. faults' \in 0 .. MaxFaults
      BY DEF Went
    <3> QED
      BY <3>1, <3>2, <3>3
  <2>2. Scalars'
    BY <1>1, <1>5, <2>1 DEF Scalars
  <2> QED
    BY <1>6, <1>9, <2>2 DEF TypeOK, Scalars, FileOK
<1>13. Stored'
  <2>1. Mirrors(disk', <<DescFrame>> \o frames')
    BY <1>5 DEF e
  <2>2. HasTorn(disk') => faults' > 0
    BY <1>5
  <2> QED
    BY <1>1, <1>6, <1>11, <2>1, <2>2 DEF IndInv, Stored
<1>14. DiskIsMemory'
  <2>1. ~failed' /\ Covers(disk', <<DescFrame>> \o frames') /\ Within(disk', <<DescFrame>> \o frames')
    BY <1>1, <1>7, <1>11 DEF e
  <2>2. HasTorn(disk') => faults' > 0
    BY <1>5
  <2> QED
    BY <2>1, <2>2 DEF DiskIsMemory
<1>15. Unbroken'
  <2>1. ASSUME kills = 0
        PROVE  /\ Numbered(frames', nextId') /\ PerPeriod(frames', clock', period')
               /\ Numbered(disk', nextId')
    <3>1. Numbered(frames', nextId') /\ PerPeriod(frames', clock', period')
      BY <1>2, <1>3, <2>1, AfterUnbroken
    <3>2. Numbered(e, nextId')
      BY <1>6, <3>1, ConsNumbered DEF e
    <3>3. Numbered(disk', nextId')
      BY <1>5, <1>7, <3>2, WithinNumbered
    <3> QED
      BY <3>1, <3>3
  <2> QED
    BY <1>1, <2>1 DEF IndInv, Unbroken
<1>16. SamplesBounded'
  BY <1>2, <1>3, AfterBounded
<1>17. ReadersReturn'
  BY <1>1 DEF ReadersReturn
<1> QED
  BY <1>5, <1>9, <1>12, <1>13, <1>14, <1>15, <1>16, <1>17 DEF IndInv

LEMMA PushInv == ASSUME IndInv, NEW S \in SUBSET Names, Push(S) PROVE IndInv'
<1>1. Scalars /\ known /\ ~failed /\ Takes
  BY TypeParts DEF Push, Takes, IndInv, Stored
<1>2. PICK order \in Orders(S \ Described(frames)) :
        LET new == Written(order, S) IN
        StorePush(new, new, Folded(new)) /\ nextId' = nextId + Len(order)
  BY DEF Push
<1> DEFINE new == Written(order, S)
<1>3. PICK w : Base(w)
  BY <1>1, KnownTrace
<1>4. Outcome(new, w, clock + period)
  BY <1>1, <1>3, PushFacts
<1> HIDE DEF new
<1>5. new \in Seq(Frame) /\ Folded(new) \in Seq(Frame)
  BY <1>4 DEF Outcome
<1>6. Within(new, new) /\ Within(Folded(new), Folded(new))
  BY <1>5, WholeIsBlurred
<1>7. StorePush(new, new, Folded(new)) /\ nextId' = nextId + Len(order)
  BY <1>2 DEF new
<1>8. faults' = faults /\ faults' \in 0 .. MaxFaults
  BY <1>1 DEF Push, Scalars
<1>9. Went(new, new, Folded(new))
  BY <1>5, <1>6, <1>7, <1>8 DEF Went
<1>10. UNCHANGED <<exists, proc, known, loaded, maxSize, done, failed, active, kills>>
  BY DEF Push
<1> QED
  BY <1>1, <1>7, <1>9, <1>10, PushedInv DEF new

LEMMA PushShortInv == ASSUME IndInv, NEW S \in SUBSET Names, PushShort(S) PROVE IndInv'
<1>1. Scalars /\ known /\ ~failed /\ Takes
  BY TypeParts DEF PushShort, Takes, IndInv, Stored
<1>2. PICK order \in Orders(S \ Described(frames)) :
        LET new == Written(order, S) IN
        /\ \E appended \in Blurred(new), folded \in Blurred(Folded(new)) :
             StorePush(new, appended, folded)
        /\ nextId' = nextId + Len(order)
  BY DEF PushShort
<1> DEFINE new == Written(order, S)
<1>3. PICK w : Base(w)
  BY <1>1, KnownTrace
<1>4. Outcome(new, w, clock + period)
  BY <1>1, <1>3, PushFacts
<1> HIDE DEF new
<1>5. new \in Seq(Frame) /\ Folded(new) \in Seq(Frame)
  BY <1>4 DEF Outcome
<1>6. PICK appended \in Blurred(new), folded \in Blurred(Folded(new)) :
        StorePush(new, appended, folded)
  BY <1>2 DEF new
<1>7. /\ appended \in Seq(Frame) /\ Len(appended) = Len(new) /\ Within(appended, new)
      /\ folded \in Seq(Frame) /\ Len(folded) = Len(Folded(new)) /\ Within(folded, Folded(new))
  BY <1>5, BlurredIs
<1>8. faults' \in 0 .. MaxFaults /\ faults' > 0
  BY FaultIs DEF PushShort
<1>9. Went(new, appended, folded)
  BY <1>6, <1>7, <1>8 DEF Went
<1>10. UNCHANGED <<exists, proc, known, loaded, maxSize, done, failed, active, kills>>
  BY DEF PushShort
<1> QED
  BY <1>1, <1>2, <1>9, <1>10, PushedInv DEF new

-----------------------------------------------------------------------------
(***************************************************************************)
(* Pushes that fail.                                                       *)
(***************************************************************************)
\* x is the beginning of s.
Begins(x, s) ==
  /\ x \in Seq(Frame) /\ s \in Seq(Frame) /\ Len(x) \in Nat /\ Len(s) \in Nat
  /\ Len(x) <= Len(s) /\ \A i \in 1 .. Len(x) : x[i] = s[i]

\* The beginning of what is put behind d.
LEMMA BeginsBehind ==
  ASSUME NEW d \in Seq(Frame), NEW x, NEW s, Begins(x, s)
  PROVE  Begins(d \o x, d \o s) /\ Len(d \o x) = Len(d) + Len(x)
<1> DEFINE e == d \o x
           f == d \o s
<1>0. x \in Seq(Frame) /\ s \in Seq(Frame) /\ Len(x) <= Len(s)
  BY DEF Begins
<1>1. /\ e \in Seq(Frame) /\ Len(e) = Len(d) + Len(x) /\ Len(d) \in Nat /\ Len(x) \in Nat
      /\ \A i \in 1 .. Len(d) : e[i] = d[i]
      /\ \A i \in 1 .. Len(x) : e[Len(d) + i] = x[i]
      /\ \A i \in 1 .. Len(e) : i \in 1 .. Len(d) \/ i - Len(d) \in 1 .. Len(x)
  BY <1>0, BehindIs
<1>2. /\ f \in Seq(Frame) /\ Len(f) = Len(d) + Len(s) /\ Len(s) \in Nat
      /\ \A i \in 1 .. Len(d) : f[i] = d[i]
      /\ \A i \in 1 .. Len(s) : f[Len(d) + i] = s[i]
  BY <1>0, BehindIs
<1> HIDE DEF e, f
<1>3. ASSUME NEW i \in 1 .. Len(e) PROVE e[i] = f[i]
  <2>1. CASE i \in 1 .. Len(d)
    BY <1>1, <1>2, <2>1
  <2>2. CASE i - Len(d) \in 1 .. Len(x)
    <3> DEFINE j == i - Len(d)
    <3>1. j \in 1 .. Len(x) /\ i = Len(d) + j /\ j \in 1 .. Len(s)
      BY <1>0, <1>1, <1>2, <2>2
    <3> HIDE DEF j
    <3> QED
      BY <1>1, <1>2, <3>1 DEF Begins
  <2> QED
    BY <1>1, <2>1, <2>2
<1>4. Len(e) \in Nat /\ Len(f) \in Nat /\ Len(e) <= Len(f)
  BY <1>0, <1>1, <1>2
<1>5. Begins(e, f)
  BY <1>1, <1>2, <1>3, <1>4 DEF Begins
<1> QED
  BY <1>1, <1>5 DEF e, f

\* A damaged file covers the beginning of what it should be, if it is as long.
LEMMA CoversBeginning ==
  ASSUME NEW d \in Seq(Frame), NEW s, Within(d, s), NEW x, Begins(x, s), Len(x) <= Len(d)
  PROVE  Covers(d, x)
<1>1. /\ DOMAIN d = 1 .. Len(d) /\ Len(d) \in Nat /\ DOMAIN x = 1 .. Len(x) /\ Len(x) \in Nat
      /\ \A i \in 1 .. Len(x) : x[i] = s[i]
      /\ \A i \in 1 .. Len(d) : d[i] \in {s[i], TornFrame}
  BY DEF Begins, Within
<1>2. \A i \in 1 .. Len(x) : i \in 1 .. Len(d)
  BY <1>1
<1> QED
  BY <1>1, <1>2 DEF Covers

\* The frames of a failed push of which the memory takes the first ones.
LEMMA BeginsIs ==
  ASSUME NEW s \in Seq(Frame), NEW x, Begins(x, s), NEW t, Sound(s, t)
  PROVE  Sound(x, t) /\ Within(x, s)
<1>1. x \in Seq(Frame) /\ Len(x) <= Len(s) /\ DOMAIN x = 1 .. Len(x)
      /\ \A i \in 1 .. Len(x) : x[i] = s[i]
  BY DEF Begins
<1>2. Within(x, s)
  BY <1>1 DEF Within
<1> QED
  BY <1>1, <1>2, PrefixSound

LEMMA BeginsClean ==
  ASSUME NEW s \in Seq(Frame \ {TornFrame}), NEW x, Begins(x, s)
  PROVE  x \in Seq(Frame \ {TornFrame})
<1>1. /\ x \in Seq(Frame) /\ Len(x) \in Nat /\ Len(s) \in Nat /\ Len(x) <= Len(s)
      /\ \A i \in 1 .. Len(x) : x[i] = s[i]
  BY DEF Begins
<1>2. \A i \in 1 .. Len(s) : s[i] \in Frame \ {TornFrame}
  OBVIOUS
<1>3. \A i \in 1 .. Len(x) : x[i] \in Frame \ {TornFrame}
  BY <1>1, <1>2
<1> QED
  BY <1>1, <1>3

\* A push that fails with the first frames of it, x, in memory keeps the
\* invariant: the file covers what is in memory, or is lost in a fold.
LEMMA FailedInv ==
  ASSUME IndInv, Takes, Fault, NEW w, Base(w), NEW S \in SUBSET Names,
         NEW order \in Orders(S \ Described(frames)), NEW new,
         Pushed(new, frames, order, nextId, clock, period), Outcome(new, w, clock + period),
         NEW x, Begins(x, new), frames' = frames \o x,
         NEW v \in {w \o new, Folded(new)}, disk' \in Seq(Frame), Within(disk', v),
         exists' \in BOOLEAN, ~exists' => disk' = <<>>,
         Covers(disk', w \o x) \/ Within(disk', <<DescFrame>> \o Fold(frames')),
         nextId' = nextId + Len(order), failed' = TRUE, active' = FALSE,
         UNCHANGED <<proc, known, loaded, maxSize, done, period, kills>>
  PROVE  IndInv'
<1>1. Scalars /\ known /\ ~failed /\ ~done /\ proc = "up" /\ frames \in Seq(Frame \ {TornFrame})
  BY TypeParts DEF Takes, IndInv, Stored
<1>2. frames \in Seq(Frame) /\ w \in Seq(Frame)
  <2>1. frames \in Seq(Frame)
    BY <1>1
  <2>2. w \in Seq(Frame)
    BY DEF Base, Whole
  <2> QED
    BY <2>1, <2>2
<1> DEFINE s == frames \o new
<1>3. Begins(frames', s)
  BY <1>2, BeginsBehind
<1>4. s \in Seq(Frame) /\ Sound(s, clock + period)
  BY DEF Outcome
<1>5. clock' = clock + period
  BY DEF Takes
<1>6. Sound(frames', clock') /\ Within(frames', s) /\ frames' \in Seq(Frame)
  BY <1>3, <1>4, <1>5, BeginsIs DEF Begins
<1>7. frames' \in Seq(Frame \ {TornFrame})
  BY <1>3, BeginsClean DEF Outcome
<1>8. v \in Seq(Frame) /\ Whole(v) /\ Sound(v, clock')
  BY <1>5 DEF Outcome
<1>9. FileOK(disk') /\ Sound(Legible(disk'), clock')
  BY <1>8, FileFrom
<1>10. faults' \in 0 .. MaxFaults /\ faults' > 0
  BY FaultIs
<1>11. TypeOK'
  <2>1. clock' \in 0 .. MaxClock /\ nextId' \in Nat
    <3>1. clock \in Nat /\ period \in Nat /\ nextId \in Nat /\ Len(order) \in Nat
      BY <1>1, Numbers DEF Pushed
    <3>2. clock + period <= MaxClock /\ MaxClock \in Nat
      BY SizesAssumption DEF Takes
    <3> QED
      BY <1>5, <3>1, <3>2
  <2>2. active' \in BOOLEAN /\ failed' \in BOOLEAN
    BY Zenon
  <2>3. Scalars'
    BY <1>1, <1>10, <2>1, <2>2 DEF Scalars
  <2> QED
    BY <1>7, <1>9, <2>3 DEF TypeOK, Scalars, FileOK
<1>12. Stored'
  BY <1>1, <1>10 DEF IndInv, Stored
<1>13. DiskIsMemory'
  <2> SUFFICES ASSUME loaded
               PROVE  \/ \E whole \in {frames', <<DescFrame>> \o frames'} : Covers(disk', whole)
                      \/ Within(disk', <<DescFrame>> \o Fold(frames'))
    BY DEF DiskIsMemory
  <2>1. CASE Covers(disk', w \o x)
    <3> DEFINE d == <<DescFrame>>
    <3>1. d \in Seq(Frame) /\ x \in Seq(Frame)
      BY FrameKinds DEF Begins
    <3>2. w = frames \/ w = d \o frames
      BY DEF Base
    <3> HIDE DEF d
    <3>3. (d \o frames) \o x = d \o (frames \o x)
      BY <1>2, <3>1, SMTT(30)
    <3>4. w \o x \in {frames', d \o frames'}
      BY <3>2, <3>3
    <3> QED
      BY <2>1, <3>4 DEF d
  <2> QED
    BY <2>1
<1>14. Unbroken'
  <2>1. ASSUME kills = 0
        PROVE  Numbered(frames', nextId') /\ Numbered(disk', nextId')
    <3>1. Numbered(s, nextId') /\ maxSize # 0
      <4>1. Numbered(s, nextId')
        BY <1>1, <2>1, PushUnbroken
      <4>2. maxSize = MaxTraceSize
        BY <1>1, <2>1 DEF IndInv, Unbroken
      <4> QED
        BY <1>1, <4>1, <4>2, Numbers
    <3>2. Numbered(frames', nextId')
      BY <1>4, <1>6, <3>1, WithinNumbered
    <3> HIDE DEF s
    <3>3. CASE v = w \o new
      <4>1. v = <<DescFrame>> \o s
        BY <3>1, <3>3 DEF Outcome, s
      <4>2. Numbered(v, nextId')
        BY <1>4, <3>1, <4>1, ConsNumbered
      <4> QED
        BY <1>8, <3>2, <4>2, WithinNumbered
    <3>4. CASE v = Folded(new)
      <4>1. v = <<DescFrame>> \o Fold(s) /\ Fold(s) \in Seq(Plain)
        BY <3>4 DEF Outcome, Folded, s
      <4>2. Numbered(Fold(s), nextId')
        BY <1>4, <3>1, FoldNumbered
      <4>3. Fold(s) \in Seq(Frame)
        BY <4>1, FrameKinds
      <4>4. Numbered(v, nextId')
        BY <4>1, <4>2, <4>3, ConsNumbered
      <4> QED
        BY <1>8, <3>2, <4>4, WithinNumbered
    <3> QED
      BY <3>3, <3>4
  <2> QED
    BY <1>1, <2>1 DEF IndInv, Unbroken
<1>15. SamplesBounded' /\ ReadersReturn'
  BY <1>1, <1>10 DEF SamplesBounded, ReadersReturn
<1> QED
  BY <1>6, <1>9, <1>11, <1>12, <1>13, <1>14, <1>15 DEF IndInv

\* The descriptions of a push are the beginning of it.
LEMMA MetasBegin ==
  ASSUME frames \in Seq(Frame), nextId \in Nat, NEW S \in SUBSET Names,
         NEW order \in Orders(S \ Described(frames)), NEW new, new = Written(order, S),
         new \in Seq(Frame)
  PROVE  /\ Begins(NewMetas(order), new) /\ Len(NewMetas(order)) = Len(order)
         /\ Len(new) = Len(order) + 1 /\ Len(order) \in Nat
<1> DEFINE D == S \ Described(frames)
           m == NewMetas(order)
           z == Sample(frames \o m, S)
<1>1. IsFiniteSet(D) /\ D \in SUBSET Names
  BY FS_Subset, SizesAssumption
<1>2. m \in Seq(MetaFrames) /\ Len(m) = Len(order) /\ Len(order) \in Nat
  BY <1>1, MetasAre, OrderIs
<1>3. new = m \o <<z>>
  BY DEF Written
<1> HIDE DEF m, z
<1>4. m \in Seq(Frame)
  BY <1>2 DEF Frame
<1>5. Len(new) = Len(m) + 1 /\ \A i \in 1 .. Len(m) : new[i] = m[i]
  <2> DEFINE T == MetaFrames \cup {z}
  <2>1. m \in Seq(T) /\ <<z>> \in Seq(T) /\ Len(<<z>>) = 1
    BY <1>2
  <2> HIDE DEF T
  <2> QED
    BY <1>3, <2>1
<1>6. Begins(m, new)
  BY <1>2, <1>4, <1>5 DEF Begins
<1> QED
  BY <1>2, <1>5, <1>6 DEF m

\* A push that fails.
LEMMA PushFailsInv == ASSUME IndInv, NEW S \in SUBSET Names, PushFails(S) PROVE IndInv'
<1>1. /\ Scalars /\ known /\ ~failed /\ Takes /\ Fault /\ exists /\ exists \in BOOLEAN
      /\ disk \in Seq(Frame) /\ nextId \in Nat
  BY TypeParts, Numbers DEF PushFails, Takes, IndInv, Stored, FileOK, Scalars
<1>2. frames \in Seq(Frame)
  BY TypeParts DEF IndInv
<1>3. PICK order \in Orders(S \ Described(frames)) :
        LET new == Written(order, S) IN
        (AppendFails(order, new) \/ FoldFails(new)) /\ nextId' = nextId + Len(order)
  BY DEF PushFails
<1> DEFINE new == Written(order, S)
           m == NewMetas(order)
<1>4. PICK w : Base(w)
  BY <1>1, KnownTrace
<1>5. Pushed(new, frames, order, nextId, clock, period) /\ Outcome(new, w, clock + period)
  BY <1>1, <1>4, PushFacts
<1>6. new \in Seq(Frame) /\ w \o new \in Seq(Frame) /\ Folded(new) \in Seq(Frame)
  BY <1>5 DEF Outcome
<1>7. /\ Begins(m, new) /\ Len(m) = Len(order)
      /\ Len(new) = Len(order) + 1 /\ Len(order) \in Nat
  BY <1>1, <1>2, <1>6, MetasBegin
<1>8. /\ nextId' = nextId + Len(order) /\ failed' = TRUE /\ active' = FALSE
      /\ UNCHANGED <<proc, known, loaded, maxSize, done, period, kills>>
  BY <1>3 DEF PushFails
<1>9. w \in Seq(Frame) /\ Mirrors(disk, w) /\ Len(disk) = Len(w)
  BY <1>4 DEF Base, Whole, Mirrors
<1>10. AppendFails(order, new) \/ FoldFails(new)
  BY <1>3
<1> HIDE DEF new, m
<1>11. ASSUME NEW part \in Seq(Frame), Within(part, new), NEW x, Begins(x, new),
              Len(x) <= Len(part), disk' = disk \o part, frames' = frames \o x,
              exists' = exists
       PROVE  IndInv'
  <2>1. disk \o part \in Seq(Frame) /\ Within(disk \o part, w \o new)
        /\ Len(disk \o part) = Len(disk) + Len(part)
    BY <1>1, <1>6, <1>9, <1>11, WithinBehind
  <2>2. Begins(w \o x, w \o new) /\ Len(w \o x) = Len(w) + Len(x)
    BY <1>9, <1>11, BeginsBehind
  <2>3. Len(w) \in Nat /\ Len(x) \in Nat /\ Len(part) \in Nat
    BY <1>9, <1>11 DEF Begins
  <2>4. Len(w \o x) <= Len(disk \o part)
    BY <1>9, <1>11, <2>1, <2>2, <2>3
  <2>5. Covers(disk \o part, w \o x)
    BY <2>1, <2>2, <2>4, CoversBeginning
  <2>6. disk' \in Seq(Frame) /\ Within(disk', w \o new) /\ Covers(disk', w \o x)
    BY <1>11, <2>1, <2>5
  <2>7. exists' \in BOOLEAN /\ (~exists' => disk' = <<>>)
    BY <1>1, <1>11
  <2> QED
    BY <1>1, <1>4, <1>5, <1>8, <1>11, <2>6, <2>7, FailedInv
<1>12. CASE AppendFails(order, new)
  <2>1. PICK at \in 1 .. Len(new) :
          /\ \E part \in Blurred(SubSeq(new, 1, at)) \cup Blurred(SubSeq(new, 1, at - 1)) :
               disk' = disk \o part
          /\ frames' = IF at = Len(new) THEN frames \o m ELSE frames
          /\ UNCHANGED exists
    BY <1>12 DEF AppendFails, m
  <2>2. PICK part : /\ part \in Blurred(SubSeq(new, 1, at)) \cup Blurred(SubSeq(new, 1, at - 1))
                    /\ disk' = disk \o part
    BY <2>1
  <2>3. at \in 0 .. Len(new) /\ at - 1 \in 0 .. Len(new)
    BY <1>7
  <2>4. part \in Seq(Frame) /\ Within(part, new) /\ Len(part) \in {at, at - 1}
    BY <1>6, <2>2, <2>3, BlurredPart
  <2>5. CASE at = Len(new)
    <3>1. Len(m) <= Len(part)
      BY <1>7, <2>4, <2>5
    <3>2. frames' = frames \o m /\ exists' = exists
      BY <2>1, <2>5
    <3> QED
      BY <1>7, <1>11, <2>2, <2>4, <3>1, <3>2
  <2>6. CASE at # Len(new)
    <3>1. Begins(<<>>, new) /\ Len(<<>>) <= Len(part)
      BY <1>6, <2>4 DEF Begins
    <3>2. frames' = frames \o <<>> /\ exists' = exists
      BY <1>2, <2>1, <2>6
    <3> QED
      BY <1>11, <2>2, <2>4, <3>1, <3>2
  <2> QED
    BY <2>5, <2>6
<1>13. CASE FoldFails(new)
  <2>1. frames' = frames \o new /\ Begins(new, new)
    BY <1>6, <1>13 DEF FoldFails, Begins
  <2>2. <<DescFrame>> \o Fold(frames') = Folded(new)
    BY <2>1 DEF Folded
  <2>3. CASE (\E appended \in Blurred(new) : disk' = disk \o appended) /\ exists' = exists
    <3>1. PICK appended \in Blurred(new) : disk' = disk \o appended
      BY <2>3
    <3>2. appended \in Seq(Frame) /\ Len(appended) = Len(new) /\ Within(appended, new)
      BY <1>6, BlurredIs
    <3>3. Len(new) <= Len(appended)
      BY <1>7, <3>2
    <3> QED
      BY <1>11, <2>1, <2>3, <3>1, <3>2, <3>3
  <2>4. ASSUME disk' \in Seq(Frame), Within(disk', Folded(new)), exists' \in BOOLEAN,
               ~exists' => disk' = <<>>
        PROVE  IndInv'
    BY <1>1, <1>4, <1>5, <1>8, <2>1, <2>2, <2>4, FailedInv
  <2>5. CASE disk' = <<>> /\ exists' = FALSE
    <3>1. disk' \in Seq(Frame) /\ Within(disk', Folded(new))
      <4>1. Len(Folded(new)) \in Nat
        BY <1>6
      <4> QED
        BY <2>5, <4>1 DEF Within
    <3>2. exists' \in BOOLEAN
      BY <2>5, Zenon
    <3> QED
      BY <2>4, <2>5, <3>1, <3>2
  <2>6. CASE disk' \in Broken(Folded(new)) /\ exists' = exists
    <3>1. disk' \in Seq(Frame) /\ Within(disk', Folded(new))
      BY <1>6, <2>6, BrokenIs
    <3> QED
      BY <1>1, <2>4, <2>6, <3>1
  <2> QED
    BY <1>13, <2>3, <2>5, <2>6 DEF FoldFails
<1> QED
  BY <1>10, <1>12, <1>13

\* Every step preserves the invariant.
LEMMA NextIndInv == IndInv /\ [Next]_vars => IndInv'
<1> SUFFICES ASSUME IndInv, [Next]_vars PROVE IndInv'
  OBVIOUS
<1>1. CASE UNCHANGED vars
  <2>1. /\ exists' = exists /\ disk' = disk /\ proc' = proc /\ known' = known
        /\ loaded' = loaded /\ frames' = frames /\ nextId' = nextId /\ maxSize' = maxSize
        /\ done' = done /\ failed' = failed /\ active' = active /\ period' = period
        /\ clock' = clock /\ kills' = kills /\ faults' = faults
    BY <1>1 DEF vars, memory, state
  <2>2. TypeOK' /\ Stored' /\ DiskIsMemory'
    BY <2>1 DEF IndInv, TypeOK, Stored, DiskIsMemory
  <2>3. /\ Unbroken' /\ SamplesBounded' /\ ReadersReturn'
        /\ Sound(Legible(disk'), clock') /\ Sound(frames', clock')
    BY <2>1 DEF IndInv, Unbroken, SamplesBounded, ReadersReturn
  <2> QED
    BY <2>2, <2>3 DEF IndInv
<1>2. CASE Next
  <2>1. CASE Reopen \/ Create \/ CreateShort \/ CreateFails \/ PushRefused \/ Done
    BY <2>1, ReopenInv, CreateInv, CreateShortInv, CreateFailsInv, PushRefusedInv, DoneInv
  <2>2. CASE Load \/ LoadSticks \/ Kill \/ KillInCreate \/ Restart
    BY <2>2, LoadInv, LoadSticksInv, KillInv, KillInCreateInv, RestartInv
  <2>3. CASE \E S \in SUBSET Names : Push(S) \/ PushShort(S) \/ PushFails(S) \/ KillInPush(S)
    BY <2>3, PushInv, PushShortInv, PushFailsInv, KillInPushInv
  <2> QED
    BY <1>2, <2>1, <2>2, <2>3 DEF Next
<1> QED
  BY <1>1, <1>2

-----------------------------------------------------------------------------
\* The inductive invariant holds of every run of the trace store.
THEOREM Inductive == Spec => []IndInv
<1>1. Init => IndInv
  BY InitIndInv
<1>2. IndInv /\ [Next]_vars => IndInv'
  BY NextIndInv
<1> QED
  BY <1>1, <1>2, PTL DEF Spec

\* The types: in particular a file starts with the description of its job,
\* and no torn frame gets into the memory (load).
THEOREM TypeCorrect == Spec => []TypeOK
<1>1. IndInv => TypeOK
  BY DEF IndInv
<1> QED
  BY <1>1, Inductive, PTL

\* What a process has created or read is what is on the disk; after a failed
\* push it is covered by the file, or the file was lost in a fold
\* (TraceState::push, fold, load, scrape_trace).
THEOREM DiskAndMemoryAgree == Spec => []DiskIsMemory
<1>1. IndInv => DiskIsMemory
  BY DEF IndInv
<1> QED
  BY <1>1, Inductive, PTL

\* A file can be read from the front up to a torn frame after any failed or
\* short write, any kill and any fold (check_counter, push, fold).
THEOREM SamplesAreDescribed == Spec => []SamplesDescribed
<1>1. IndInv => SamplesDescribed
  BY DEF IndInv, Sound, SamplesDescribed
<1> QED
  BY <1>1, Inductive, PTL

\* Samples stay in the order of time (fold, TraceFrame::sum).
THEOREM SamplesAreInOrder == Spec => []SamplesInOrder
<1>1. IndInv => SamplesInOrder
  BY DEF IndInv, Sound, SamplesInOrder
<1> QED
  BY <1>1, Inductive, PTL

\* All folds together lose less than one period of the time that was sampled
\* (fold, scrape_trace).
THEOREM FoldsLoseLessThanAPeriod == Spec => []SampledPerPeriod
<1>1. IndInv => SampledPerPeriod
  <2> SUFFICES ASSUME IndInv, kills = 0, active, ~done, ~HasTorn(disk)
               PROVE  PerPeriod(disk, clock, period)
    BY DEF SampledPerPeriod, PerPeriod
  <2>1. known /\ ~failed /\ PerPeriod(frames, clock, period) /\ maxSize = MaxTraceSize
    BY DEF IndInv, Stored, Unbroken
  <2>2. Scalars /\ frames \in Seq(Frame \ {TornFrame})
    BY TypeParts DEF IndInv
  <2>3. maxSize # 0 /\ frames \in Seq(Frame)
    <3>1. maxSize # 0
      BY <2>1, <2>2, Numbers
    <3>2. frames \in Seq(Frame)
      BY <2>2
    <3> QED
      BY <3>1, <3>2
  <2>4. PICK w : Base(w)
    BY <2>1, KnownTrace
  <2>5. disk = <<DescFrame>> \o frames
    BY <2>3, <2>4 DEF Base
  <2> QED
    BY <2>1, <2>3, <2>5, ConsPeriod
<1> QED
  BY <1>1, Inductive, PTL

\* An id stands for one counter, after failed pushes too (check_counter,
\* current_counter_id).
THEOREM IdsStayUnique == Spec => []IdsAreUnique
<1>1. IndInv => IdsAreUnique
  BY DEF IndInv, Unbroken, Numbered, IdsAreUnique
<1> QED
  BY <1>1, Inductive, PTL

\* However many counters a sample has, a file never has more samples than fit
\* into its maximum size without counters, but for one for every kill (push,
\* fold).
THEOREM SamplesStayBounded == Spec => []SamplesBounded
<1>1. IndInv => SamplesBounded
  BY DEF IndInv
<1> QED
  BY <1>1, Inductive, PTL

\* A reader that never returns has met a failing or short write of a live
\* process, never what a kill has left (load_existing_traces, read_frame_at).
THEOREM ReadersAlwaysReturn == Spec => []ReadersReturn
<1>1. IndInv => ReadersReturn
  BY DEF IndInv
<1> QED
  BY <1>1, Inductive, PTL
===============================================================================
