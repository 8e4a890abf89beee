----------------------------- MODULE SumTheorems -----------------------------
(***************************************************************************)
(* Facts about SumFunctionOnSet(f, S), the sum of f[x] for the elements x  *)
(* of a finite set S, which the community modules define by choosing one   *)
(* element after the other: the sum exists, and the order does not matter. *)
(*                                                                         *)
(* Induction is by the least counterexample (LeastNat).                    *)
(***************************************************************************)
EXTENDS Integers, Sequences, FiniteSets, Functions, FiniteSetTheorems, TLAPS

\* Every set of natural numbers that is not empty has a least element.
LEMMA LeastNat ==
  ASSUME NEW T \in SUBSET Nat, T # {}
  PROVE  \E x \in T : \A y \in T : x <= y
<1> DEFINE R == {p \in Nat \X Nat : p[1] < p[2]}
<1>1. IsWellFoundedOn(R, Nat)
  <2>1. OpToRel(<, Nat) = R
    BY DEF OpToRel
  <2> QED
    BY <2>1, NatLessThanWellFounded
<1>2. PICK x \in T : \A y \in T : <<y, x>> \notin R
  BY <1>1, WFMin
<1>3. ASSUME NEW y \in T PROVE x <= y
  <2>1. <<y, x>> \in Nat \X Nat
    OBVIOUS
  <2>2. ~(y < x)
    BY <1>2, <2>1
  <2> QED
    BY <2>2
<1> QED
  BY <1>3

-----------------------------------------------------------------------------
\* The element that is taken first, and the equation the sum is defined by.
First(s) == CHOOSE x \in s : TRUE

AddsUp(g, f, S) ==
  g = [s \in S |-> IF s = {} THEN 0 ELSE f[First(s)] + g[s \ {First(s)}]]

\* The subsets of S with at most n elements.
UpTo(S, n) == {s \in SUBSET S : Cardinality(s) <= n}

\* The first element of a non-empty finite set is one of its own, and one less are left.
LEMMA FirstIsElement ==
  ASSUME NEW S, IsFiniteSet(S), NEW s \in SUBSET S, s # {}
  PROVE  /\ First(s) \in s /\ s \ {First(s)} \in SUBSET S
         /\ IsFiniteSet(s) /\ Cardinality(s) \in Nat \ {0}
         /\ Cardinality(s \ {First(s)}) = Cardinality(s) - 1
<1>1. First(s) \in s
  BY DEF First
<1>2. IsFiniteSet(s) /\ Cardinality(s) \in Nat
  BY FS_Subset, FS_CardinalityType
<1>3. Cardinality(s) # 0
  BY <1>2, FS_EmptySet
<1>4. Cardinality(s \ {First(s)}) = Cardinality(s) - 1
  BY <1>1, <1>2, FS_RemoveElement
<1> QED
  BY <1>1, <1>2, <1>3, <1>4

\* A function that adds up the subsets of up to n elements exists for every n.
LEMMA PartialSums ==
  ASSUME NEW S, IsFiniteSet(S), NEW f, \A x \in S : f[x] \in Int
  PROVE  \A n \in Nat : \E g \in [UpTo(S, n) -> Int] : AddsUp(g, f, UpTo(S, n))
<1> DEFINE P(n) == \E g \in [UpTo(S, n) -> Int] : AddsUp(g, f, UpTo(S, n))
<1> SUFFICES ASSUME NEW T, T = {n \in Nat : ~P(n)}, T # {} PROVE FALSE
  OBVIOUS
<1>1. PICK m \in T : \A y \in T : m <= y
  BY LeastNat
<1>2. ~P(m) /\ m \in Nat
  OBVIOUS
<1>3. CASE m = 0
  <2> DEFINE g == [s \in UpTo(S, 0) |-> 0]
  <2>1. \A s \in UpTo(S, 0) : s = {}
    <3> SUFFICES ASSUME NEW s \in UpTo(S, 0) PROVE s = {}
      OBVIOUS
    <3>1. IsFiniteSet(s) /\ Cardinality(s) \in Nat /\ Cardinality(s) <= 0
      BY FS_Subset, FS_CardinalityType DEF UpTo
    <3> QED
      BY <3>1, FS_EmptySet
  <2>2. AddsUp(g, f, UpTo(S, 0))
    BY <2>1 DEF AddsUp
  <2> QED
    BY <1>2, <1>3, <2>2
<1>4. CASE m # 0
  <2>1. m - 1 \in Nat /\ m - 1 \notin T
    BY <1>1, <1>2, <1>4
  <2>2. PICK g \in [UpTo(S, m - 1) -> Int] : AddsUp(g, f, UpTo(S, m - 1))
    BY <2>1
  <2> DEFINE h == [s \in UpTo(S, m) |->
                     IF s = {} THEN 0 ELSE f[First(s)] + g[s \ {First(s)}]]
  <2>3. ASSUME NEW s \in UpTo(S, m), s # {}
        PROVE  /\ First(s) \in S /\ s \ {First(s)} \in UpTo(S, m - 1)
               /\ s \ {First(s)} \in UpTo(S, m)
    BY <1>2, <2>3, FirstIsElement DEF UpTo
  <2>4. h \in [UpTo(S, m) -> Int]
    BY <2>3
  <2>5. ASSUME NEW s \in UpTo(S, m - 1)
        PROVE  h[s] = g[s]
    <3>1. s \in UpTo(S, m)
      <4>1. Cardinality(s) \in Nat
        BY FS_Subset, FS_CardinalityType DEF UpTo
      <4> QED
        BY <1>2, <4>1 DEF UpTo
    <3>2. g[s] = IF s = {} THEN 0 ELSE f[First(s)] + g[s \ {First(s)}]
      BY <2>2 DEF AddsUp
    <3> QED
      BY <3>1, <3>2
  <2>6. AddsUp(h, f, UpTo(S, m))
    BY <2>3, <2>5 DEF AddsUp
  <2> QED
    BY <1>2, <2>4, <2>6
<1> QED
  BY <1>3, <1>4

\* The sums over the subsets of S.
SumsOf(g, f, S) == g \in [SUBSET S -> Int] /\ AddsUp(g, f, SUBSET S)

\* The sum over S is the value for S of such a function.
LEMMA SumExists ==
  ASSUME NEW S, IsFiniteSet(S), NEW f, \A x \in S : f[x] \in Int
  PROVE  \E g : SumsOf(g, f, S) /\ SumFunctionOnSet(f, S) = g[S]
<1>1. Cardinality(S) \in Nat
  BY FS_CardinalityType
<1>2. UpTo(S, Cardinality(S)) = SUBSET S
  BY FS_Subset DEF UpTo
<1>3. PICK g \in [SUBSET S -> Int] : AddsUp(g, f, SUBSET S)
  <2>1. \A n \in Nat : \E g \in [UpTo(S, n) -> Int] : AddsUp(g, f, UpTo(S, n))
    BY PartialSums
  <2>2. \E g \in [UpTo(S, Cardinality(S)) -> Int] : AddsUp(g, f, UpTo(S, Cardinality(S)))
    BY <1>1, <2>1
  <2> QED
    BY <1>2, <2>2
<1>4. \E h : AddsUp(h, f, SUBSET S) /\ SumFunctionOnSet(f, S) = h[S]
  BY <1>3, ZenonT(30) DEF AddsUp, First, SumFunctionOnSet, FoldFunctionOnSet, MapThenFoldSet
<1>5. PICK h : AddsUp(h, f, SUBSET S) /\ SumFunctionOnSet(f, S) = h[S]
  BY <1>4
<1> DEFINE T == {n \in Nat : \E s \in SUBSET S : Cardinality(s) = n /\ h[s] \notin Int}
<1>6. T = {}
  <2> SUFFICES ASSUME T # {} PROVE FALSE
    OBVIOUS
  <2>1. PICK m \in T : \A y \in T : m <= y
    BY LeastNat
  <2>2. PICK s \in SUBSET S : Cardinality(s) = m /\ h[s] \notin Int
    OBVIOUS
  <2>3. h[s] = IF s = {} THEN 0 ELSE f[First(s)] + h[s \ {First(s)}]
    BY <1>5 DEF AddsUp
  <2>4. s # {}
    BY <2>2, <2>3
  <2>5. /\ First(s) \in S /\ s \ {First(s)} \in SUBSET S
        /\ Cardinality(s \ {First(s)}) = m - 1 /\ m \in Nat \ {0}
    BY <2>2, <2>4, FirstIsElement
  <2>6. h[s \ {First(s)}] \in Int
    <3>1. m - 1 \notin T /\ m - 1 \in Nat
      BY <2>1, <2>5
    <3> QED
      BY <2>5, <3>1
  <2> QED
    BY <2>2, <2>3, <2>4, <2>5, <2>6
<1>7. \A s \in SUBSET S : h[s] \in Int
  <2> SUFFICES ASSUME NEW s \in SUBSET S PROVE h[s] \in Int
    OBVIOUS
  <2>1. Cardinality(s) \in Nat
    BY FS_Subset, FS_CardinalityType
  <2> QED
    BY <1>6, <2>1
<1>8. h \in [SUBSET S -> Int]
  BY <1>5, <1>7 DEF AddsUp
<1> QED
  BY <1>5, <1>8 DEF SumsOf

(***************************************************************************)
(* Two such functions agree on a set where what they add up agrees, even   *)
(* if they are sums over different sets.                                   *)
(***************************************************************************)
LEMMA SumsAgree ==
  ASSUME NEW S, NEW U, IsFiniteSet(S), IsFiniteSet(U), NEW f, NEW e,
         NEW g, SumsOf(g, f, S), NEW h, SumsOf(h, e, U)
  PROVE  \A r \in SUBSET (S \cap U) : (\A x \in r : f[x] = e[x]) => g[r] = h[r]
<1> SUFFICES ASSUME NEW r \in SUBSET (S \cap U), \A x \in r : f[x] = e[x]
             PROVE  g[r] = h[r]
  OBVIOUS
<1> DEFINE T == {n \in Nat : \E s \in SUBSET r : Cardinality(s) = n /\ g[s] # h[s]}
<1>1. T = {}
  <2> SUFFICES ASSUME T # {} PROVE FALSE
    OBVIOUS
  <2>1. PICK m \in T : \A y \in T : m <= y
    BY LeastNat
  <2>2. PICK s \in SUBSET r : Cardinality(s) = m /\ g[s] # h[s]
    OBVIOUS
  <2>3. /\ g[s] = IF s = {} THEN 0 ELSE f[First(s)] + g[s \ {First(s)}]
        /\ h[s] = IF s = {} THEN 0 ELSE e[First(s)] + h[s \ {First(s)}]
    BY DEF SumsOf, AddsUp
  <2>4. s # {} /\ s \in SUBSET S
    BY <2>2, <2>3
  <2>5. /\ First(s) \in s /\ s \ {First(s)} \in SUBSET r
        /\ Cardinality(s \ {First(s)}) = m - 1 /\ m \in Nat \ {0}
    BY <2>2, <2>4, FirstIsElement
  <2>6. g[s \ {First(s)}] = h[s \ {First(s)}]
    <3>1. m - 1 \notin T /\ m - 1 \in Nat
      BY <2>1, <2>5
    <3> QED
      BY <2>5, <3>1
  <2> QED
    BY <2>2, <2>3, <2>4, <2>5, <2>6
<1>2. Cardinality(r) \in Nat
  BY FS_Subset, FS_CardinalityType
<1> QED
  BY <1>1, <1>2

-----------------------------------------------------------------------------
\* Nothing adds up to 0.
THEOREM SumEmpty == \A f : SumFunctionOnSet(f, {}) = 0
<1> SUFFICES ASSUME NEW f PROVE SumFunctionOnSet(f, {}) = 0
  OBVIOUS
<1>1. IsFiniteSet({})
  BY FS_EmptySet
<1>2. PICK g :
        SumsOf(g, f, {}) /\ SumFunctionOnSet(f, {}) = g[{}]
  BY <1>1, SumExists
<1> QED
  BY <1>2 DEF SumsOf, AddsUp

\* The sum depends on the values in the set only.
THEOREM SumSame ==
  ASSUME NEW S, IsFiniteSet(S), NEW f, NEW e, \A x \in S : f[x] \in Int /\ f[x] = e[x]
  PROVE  SumFunctionOnSet(f, S) = SumFunctionOnSet(e, S)
<1>1. PICK g : SumsOf(g, f, S) /\ SumFunctionOnSet(f, S) = g[S]
  BY SumExists
<1>2. \A x \in S : e[x] \in Int
  OBVIOUS
<1>3. PICK h : SumsOf(h, e, S) /\ SumFunctionOnSet(e, S) = h[S]
  BY <1>2, SumExists
<1>4. g[S] = h[S]
  <2>1. \A r \in SUBSET (S \cap S) : (\A x \in r : f[x] = e[x]) => g[r] = h[r]
    BY <1>1, <1>3, SumsAgree
  <2> QED
    BY <2>1
<1> QED
  BY <1>1, <1>3, <1>4

\* Any element can be taken first.
LEMMA AnyFirst ==
  ASSUME NEW S, IsFiniteSet(S), NEW f, \A x \in S : f[x] \in Int,
         NEW g, SumsOf(g, f, S)
  PROVE  \A r \in SUBSET S : \A a \in r : \A q : q = r \ {a} => g[r] = f[a] + g[q]
<1> SUFFICES ASSUME NEW r \in SUBSET S, NEW a \in r
             PROVE  g[r] = f[a] + g[r \ {a}]
  OBVIOUS
<1> DEFINE T == {n \in Nat : \E s \in SUBSET S : \E x \in s :
                              Cardinality(s) = n /\ g[s] # f[x] + g[s \ {x}]}
<1>1. T = {}
  <2> SUFFICES ASSUME T # {} PROVE FALSE
    OBVIOUS
  <2>1. PICK m \in T : \A y \in T : m <= y
    BY LeastNat
  <2>0. PICK s \in SUBSET S : \E x \in s : Cardinality(s) = m /\ g[s] # f[x] + g[s \ {x}]
    OBVIOUS
  <2>2. PICK x \in s : Cardinality(s) = m /\ g[s] # f[x] + g[s \ {x}]
    BY <2>0
  <2> DEFINE c == First(s)
  <2>3. g[s] = f[c] + g[s \ {c}]
    BY DEF SumsOf, AddsUp
  <2>4. /\ c \in s /\ s \ {c} \in SUBSET S /\ IsFiniteSet(s)
        /\ Cardinality(s \ {c}) = m - 1 /\ m \in Nat \ {0}
    BY <2>2, FirstIsElement
  <2>5. c # x
    BY <2>2, <2>3
  <2>6. Cardinality(s \ {x}) = m - 1 /\ s \ {x} \in SUBSET S
    BY <2>2, <2>4, FS_RemoveElement
  <2>7. m - 1 \notin T /\ m - 1 \in Nat
    <3> HIDE DEF T
    <3> QED
      BY <2>1, <2>4
  <2>8. g[s \ {c}] = f[x] + g[(s \ {c}) \ {x}]
    BY <2>4, <2>5, <2>7
  <2>9. g[s \ {x}] = f[c] + g[(s \ {x}) \ {c}]
    BY <2>4, <2>5, <2>6, <2>7
  <2>10. (s \ {c}) \ {x} = (s \ {x}) \ {c} /\ (s \ {c}) \ {x} \in SUBSET S
    OBVIOUS
  <2>11. g[(s \ {c}) \ {x}] \in Int /\ f[x] \in Int /\ f[c] \in Int
    BY <2>4, <2>10 DEF SumsOf
  <2> DEFINE w == g[(s \ {c}) \ {x}]
  <2>12. g[s] = f[c] + (f[x] + w) /\ g[s \ {x}] = f[c] + w
    BY <2>3, <2>8, <2>9, <2>10
  <2>13. g[s] # f[x] + (f[c] + w)
    BY <2>2, <2>12
  <2>14. w \in Int /\ f[x] \in Int /\ f[c] \in Int
    BY <2>11
  <2> HIDE DEF c, w
  <2> QED
    BY <2>12, <2>13, <2>14
<1>2. Cardinality(r) \in Nat
  BY FS_Subset, FS_CardinalityType
<1> QED
  BY <1>1, <1>2

\* The sum over S is what one element contributes and the sum over the others.
THEOREM SumRemove ==
  ASSUME NEW S, IsFiniteSet(S), NEW f, \A x \in S : f[x] \in Int, NEW a \in S
  PROVE  /\ SumFunctionOnSet(f, S) = f[a] + SumFunctionOnSet(f, S \ {a})
         /\ SumFunctionOnSet(f, S \ {a}) \in Int
<1>1. IsFiniteSet(S \ {a}) /\ \A x \in S \ {a} : f[x] \in Int
  BY FS_RemoveElement
<1>2. PICK g : SumsOf(g, f, S) /\ SumFunctionOnSet(f, S) = g[S]
  BY SumExists
<1>3. PICK h :
        SumsOf(h, f, S \ {a}) /\ SumFunctionOnSet(f, S \ {a}) = h[S \ {a}]
  BY <1>1, SumExists
<1>4. g[S] = f[a] + g[S \ {a}]
  <2>1. \A r \in SUBSET S : \A b \in r : \A q : q = r \ {b} => g[r] = f[b] + g[q]
    BY <1>2, AnyFirst
  <2> QED
    BY <2>1
<1>5. g[S \ {a}] = h[S \ {a}]
  <2>1. \A r \in SUBSET (S \cap (S \ {a})) : (\A x \in r : f[x] = f[x]) => g[r] = h[r]
    BY <1>1, <1>2, <1>3, SumsAgree
  <2> QED
    BY <2>1
<1> QED
  BY <1>2, <1>3, <1>4, <1>5 DEF SumsOf

\* A sum of integers is one.
THEOREM SumIsInt ==
  ASSUME NEW S, IsFiniteSet(S), NEW f, \A x \in S : f[x] \in Int
  PROVE  SumFunctionOnSet(f, S) \in Int
<1>1. PICK g : SumsOf(g, f, S) /\ SumFunctionOnSet(f, S) = g[S]
  BY SumExists
<1>2. S \in SUBSET S
  OBVIOUS
<1> QED
  BY <1>1, <1>2 DEF SumsOf

\* When one value changes the sum changes by the same amount.
THEOREM SumChange ==
  ASSUME NEW S, IsFiniteSet(S), NEW f, NEW e, NEW a \in S,
         \A x \in S : f[x] \in Int /\ e[x] \in Int,
         \A x \in S \ {a} : f[x] = e[x]
  PROVE  SumFunctionOnSet(e, S) = SumFunctionOnSet(f, S) - f[a] + e[a]
<1>1. IsFiniteSet(S \ {a})
  BY FS_RemoveElement
<1>2. SumFunctionOnSet(f, S \ {a}) = SumFunctionOnSet(e, S \ {a})
  BY <1>1, SumSame
<1>3. /\ SumFunctionOnSet(f, S) = f[a] + SumFunctionOnSet(f, S \ {a})
      /\ SumFunctionOnSet(f, S \ {a}) \in Int
  BY SumRemove
<1>4. SumFunctionOnSet(e, S) = e[a] + SumFunctionOnSet(e, S \ {a})
  BY SumRemove
<1> QED
  BY <1>2, <1>3, <1>4

\* A new element adds its value.
THEOREM SumAdd ==
  ASSUME NEW S, IsFiniteSet(S), NEW f, NEW a, a \notin S, NEW U, U = S \cup {a},
         \A x \in U : f[x] \in Int
  PROVE  SumFunctionOnSet(f, U) = SumFunctionOnSet(f, S) + f[a]
<1>1. IsFiniteSet(S \cup {a}) /\ (S \cup {a}) \ {a} = S
  BY FS_AddElement
<1>2. /\ SumFunctionOnSet(f, S \cup {a}) = f[a] + SumFunctionOnSet(f, (S \cup {a}) \ {a})
      /\ SumFunctionOnSet(f, (S \cup {a}) \ {a}) \in Int
  <2>1. a \in S \cup {a}
    OBVIOUS
  <2> QED
    BY <1>1, <2>1, SumRemove
<1>3. SumFunctionOnSet(f, S) \in Int /\ f[a] \in Int
  BY <1>1, <1>2
<1>4. SumFunctionOnSet(f, S \cup {a}) = f[a] + SumFunctionOnSet(f, S)
  BY <1>1, <1>2
<1> QED
  BY <1>3, <1>4

\* A sum of members of a set of integers that is closed under addition is one.
LEMMA SumInSet ==
  ASSUME NEW A \in SUBSET Int, 0 \in A, \A a, b \in A : a + b \in A,
         NEW S, IsFiniteSet(S), NEW f, \A x \in S : f[x] \in A
  PROVE  SumFunctionOnSet(f, S) \in A
<1> DEFINE T == {n \in Nat : \E s \in SUBSET S :
                              Cardinality(s) = n /\ SumFunctionOnSet(f, s) \notin A}
<1>1. T = {}
  <2> SUFFICES ASSUME T # {} PROVE FALSE
    OBVIOUS
  <2>1. PICK m \in T : \A y \in T : m <= y
    BY LeastNat
  <2>2. PICK s \in SUBSET S : Cardinality(s) = m /\ SumFunctionOnSet(f, s) \notin A
    OBVIOUS
  <2>3. s # {}
    BY <2>2, SumEmpty
  <2> DEFINE q == s \ {First(s)}
  <2>4. /\ First(s) \in s /\ q \in SUBSET S /\ IsFiniteSet(s)
        /\ Cardinality(q) = m - 1 /\ m \in Nat \ {0}
    BY <2>2, <2>3, FirstIsElement
  <2>5. SumFunctionOnSet(f, s) = f[First(s)] + SumFunctionOnSet(f, q)
    BY <2>4, SumRemove
  <2>6. SumFunctionOnSet(f, q) \in A
    <3>1. m - 1 \in Nat /\ m - 1 \notin T
      <4> HIDE DEF T
      <4> QED
        BY <2>1, <2>4
    <3> QED
      BY <2>4, <3>1
  <2> QED
    BY <2>2, <2>4, <2>5, <2>6
<1>2. Cardinality(S) \in Nat
  BY FS_CardinalityType
<1> QED
  BY <1>1, <1>2

\* A sum of natural numbers is one.
THEOREM SumIsNat ==
  ASSUME NEW S, IsFiniteSet(S), NEW f, \A x \in S : f[x] \in Nat
  PROVE  SumFunctionOnSet(f, S) \in Nat
<1>1. Nat \in SUBSET Int /\ 0 \in Nat /\ \A a, b \in Nat : a + b \in Nat
  OBVIOUS
<1> QED
  BY <1>1, SumInSet

\* Zeros add up to zero.
THEOREM SumIsZero ==
  ASSUME NEW S, IsFiniteSet(S), NEW f, \A x \in S : f[x] = 0
  PROVE  SumFunctionOnSet(f, S) = 0
<1> DEFINE A == {0}
<1>1. A \in SUBSET Int /\ 0 \in A /\ \A a, b \in A : a + b \in A
  OBVIOUS
<1>2. \A x \in S : f[x] \in A
  OBVIOUS
<1>3. SumFunctionOnSet(f, S) \in A
  <2> HIDE DEF A
  <2> QED
    BY <1>1, <1>2, SumInSet
<1> QED
  BY <1>3

-----------------------------------------------------------------------------
\* The last of n + 1 numbers.
THEOREM SumLast ==
  ASSUME NEW n \in Nat, NEW u, NEW v, \A i \in 1 .. n + 1 : u[i] \in Int,
         \A i \in 1 .. n : v[i] = u[i]
  PROVE  /\ SumFunctionOnSet(u, 1 .. n + 1) = SumFunctionOnSet(v, 1 .. n) + u[n + 1]
         /\ SumFunctionOnSet(v, 1 .. n) \in Int
<1>1. IsFiniteSet(1 .. n) /\ 1 .. n + 1 = (1 .. n) \cup {n + 1} /\ n + 1 \notin 1 .. n
  BY FS_Interval
<1>2. SumFunctionOnSet(u, 1 .. n + 1) = SumFunctionOnSet(u, 1 .. n) + u[n + 1]
  BY <1>1, SumAdd
<1>3. SumFunctionOnSet(u, 1 .. n) = SumFunctionOnSet(v, 1 .. n)
  <2>1. \A i \in 1 .. n : u[i] \in Int /\ u[i] = v[i]
    OBVIOUS
  <2> QED
    BY <1>1, <2>1, SumSame
<1>4. SumFunctionOnSet(v, 1 .. n) \in Int
  <2>1. \A i \in 1 .. n : v[i] \in Int
    OBVIOUS
  <2> QED
    BY <1>1, <2>1, SumIsInt
<1> QED
  BY <1>1, <1>2, <1>3, <1>4

\* The first of n + 1 numbers.
THEOREM SumFirst ==
  ASSUME NEW n \in Nat, NEW u, NEW v, \A i \in 1 .. n + 1 : u[i] \in Int,
         \A i \in 1 .. n : v[i] = u[i + 1]
  PROVE  SumFunctionOnSet(u, 1 .. n + 1) = u[1] + SumFunctionOnSet(v, 1 .. n)
<1> DEFINE U(k) == SumFunctionOnSet(u, 1 .. k)
           V(k) == SumFunctionOnSet(v, 1 .. k)
           T == {k \in Nat : k <= n /\ U(k + 1) # u[1] + V(k)}
<1>1. \A k \in Nat : k <= n => U(k + 1) = U(k) + u[k + 1] /\ U(k) \in Int
  <2> SUFFICES ASSUME NEW k \in Nat, k <= n
               PROVE  U(k + 1) = U(k) + u[k + 1] /\ U(k) \in Int
    OBVIOUS
  <2>1. (\A i \in 1 .. k + 1 : u[i] \in Int) /\ \A i \in 1 .. k : u[i] = u[i]
    OBVIOUS
  <2> QED
    BY <2>1, SumLast
<1>2. \A k \in Nat : k < n => V(k + 1) = V(k) + u[k + 2] /\ V(k) \in Int
  <2> SUFFICES ASSUME NEW k \in Nat, k < n
               PROVE  V(k + 1) = V(k) + u[k + 2] /\ V(k) \in Int
    OBVIOUS
  <2>1. (\A i \in 1 .. k + 1 : v[i] \in Int) /\ \A i \in 1 .. k : v[i] = v[i]
    OBVIOUS
  <2>2. V(k + 1) = V(k) + v[k + 1] /\ V(k) \in Int
    BY <2>1, SumLast
  <2>3. v[k + 1] = u[k + 2]
    OBVIOUS
  <2> QED
    BY <2>2, <2>3
<1>3. U(0) = 0 /\ V(0) = 0
  <2>1. 1 .. 0 = {}
    OBVIOUS
  <2> QED
    BY <2>1, SumEmpty
<1>4. T = {}
  <2> SUFFICES ASSUME T # {} PROVE FALSE
    OBVIOUS
  <2>1. PICK m \in T : \A y \in T : m <= y
    <3> HIDE DEF U, V
    <3> QED BY LeastNat
  <2> HIDE DEF U, V
  <2>2. m \in Nat /\ m <= n /\ U(m + 1) # u[1] + V(m)
    OBVIOUS
  <2>3. m # 0
    <3>1. 0 \in Nat /\ 0 <= n /\ 0 + 1 = 1
      OBVIOUS
    <3>2. U(1) = U(0) + u[1] /\ u[1] \in Int
      BY <1>1, <3>1
    <3> QED
      BY <1>3, <2>2, <3>2
  <2>4. m - 1 \in Nat /\ m - 1 < n /\ m - 1 \notin T
    BY <2>1, <2>2, <2>3
  <2>5. U(m) = u[1] + V(m - 1)
    BY <2>2, <2>4
  <2>6. U(m + 1) = U(m) + u[m + 1]
    BY <1>1, <2>2
  <2>7. V(m) = V(m - 1) + u[m + 1] /\ V(m - 1) \in Int
    BY <1>2, <2>2, <2>4
  <2>8. u[1] \in Int /\ u[m + 1] \in Int
    BY <2>2
  <2> QED
    BY <2>2, <2>5, <2>6, <2>7, <2>8
<1> QED
  BY <1>4
=============================================================================
