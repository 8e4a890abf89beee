-------------------------- MODULE AggregationProofs --------------------------
(***************************************************************************)
(* Proofs about Aggregation, for any finite set of proxies, whichever      *)
(* proxy scrapes which, and any number of clients, increments and faults.  *)
(***************************************************************************)
EXTENDS Aggregation, SumTheorems

\* The scrapers of a proxy can be counted.
LEMMA WatchedFinite ==
  ASSUME NEW n
  PROVE  IsFiniteSet(Children(n)) /\ IsFiniteSet(Watched(n)) /\ Cardinality(Watched(n)) \in Nat
<1>1. Children(n) \in SUBSET Others
  BY DEF Children
<1>2. IsFiniteSet(Children(n))
  BY <1>1, TreeAssumption, FS_Subset
<1>3. Watched(n) \in SUBSET Children(n)
  BY DEF Watched
<1>4. IsFiniteSet(Watched(n))
  BY <1>2, <1>3, FS_Subset
<1> QED
  BY <1>2, <1>4, FS_CardinalityType

\* What the scrapers have seen is a natural number, no less than what one saw.
LEMMA SeenIsNat ==
  ASSUME TypeOK, NEW n
  PROVE  Seen(n) \in Nat /\ \A c \in Children(n) : SeenOf(c) <= Seen(n)
<1> DEFINE f == [c \in Others |-> SeenOf(c)]
<1>1. \A c \in Children(n) : f[c] \in Nat /\ f[c] = SeenOf(c)
  BY DEF TypeOK, Children, SeenOf
<1>2. Seen(n) = SumFunctionOnSet(f, Children(n))
  BY DEF Seen
<1> HIDE DEF f
<1>3. SumFunctionOnSet(f, Children(n)) \in Nat
  BY <1>1, WatchedFinite, SumIsNat
<1>4. ASSUME NEW c \in Children(n)
      PROVE  SeenOf(c) <= Seen(n)
  <2> DEFINE q == Children(n) \ {c}
  <2>1. IsFiniteSet(q) /\ \A d \in q : f[d] \in Nat
    BY <1>1, WatchedFinite, FS_RemoveElement
  <2>2. SumFunctionOnSet(f, q) \in Nat
    <3> HIDE DEF q
    <3> QED
      BY <2>1, SumIsNat
  <2>3. \A d \in Children(n) : f[d] \in Int
    BY <1>1
  <2>4. SumFunctionOnSet(f, Children(n)) = f[c] + SumFunctionOnSet(f, q)
    BY <2>3, WatchedFinite, SumRemove
  <2> QED
    BY <1>1, <1>2, <2>2, <2>4
<1> QED
  BY <1>2, <1>3, <1>4

\* Who knows no scraped job has seen nothing.
LEMMA SeenNothing ==
  ASSUME NEW n, Watched(n) = {}
  PROVE  Seen(n) = 0
<1> DEFINE f == [c \in Others |-> SeenOf(c)]
<1>1. \A c \in Children(n) : f[c] = 0
  BY DEF Children, Watched, SeenOf
<1>2. Seen(n) = SumFunctionOnSet(f, Children(n))
  BY DEF Seen
<1> HIDE DEF f
<1> QED
  BY <1>1, <1>2, WatchedFinite, SumIsZero

\* The same of the next state.
LEMMA SeenNothingNext ==
  ASSUME NEW n, Watched(n)' = {}
  PROVE  Seen(n)' = 0
<1> DEFINE f == [c \in Others |-> SeenOf(c)']
<1>1. \A c \in Children(n) : f[c] = 0
  BY DEF Children, Watched, SeenOf
<1>2. Seen(n)' = SumFunctionOnSet(f, Children(n))
  BY DEF Seen, Children
<1> HIDE DEF f
<1> QED
  BY <1>1, <1>2, WatchedFinite, SumIsZero

\* Where the shadow state of no child changes, nothing changes.
LEMMA SeenSame ==
  ASSUME TypeOK, NEW n, \A c \in Children(n) : shadow'[c] = shadow[c]
  PROVE  Seen(n)' = Seen(n) /\ Watched(n)' = Watched(n)
<1> DEFINE f == [c \in Others |-> SeenOf(c)]
           e == [c \in Others |-> SeenOf(c)']
<1>1. \A c \in Children(n) : f[c] \in Int /\ f[c] = e[c]
  BY DEF TypeOK, Children, SeenOf
<1>2. Seen(n) = SumFunctionOnSet(f, Children(n)) /\ Seen(n)' = SumFunctionOnSet(e, Children(n))
  BY DEF Seen, Children
<1> HIDE DEF f, e
<1>3. Seen(n)' = Seen(n)
  BY <1>1, <1>2, WatchedFinite, SumSame
<1>4. Watched(n)' = Watched(n)
  BY DEF Watched, Children
<1> QED
  BY <1>3, <1>4

\* One scraper sees another value, learns of the job or forgets it.
LEMMA SeenChanges ==
  ASSUME TypeOK, NEW c \in Others, NEW v \in Nat \cup {Unknown},
         shadow' = [shadow EXCEPT ![c] = v]
  PROVE  /\ Seen(Parent[c])' = Seen(Parent[c]) - SeenOf(c) + (IF v = Unknown THEN 0 ELSE v)
         /\ Cardinality(Watched(Parent[c])') =
              Cardinality(Watched(Parent[c])) - (IF shadow[c] = Unknown THEN 0 ELSE 1)
                                              + (IF v = Unknown THEN 0 ELSE 1)
         /\ \A n \in Nodes \ {Parent[c]} : Seen(n)' = Seen(n) /\ Watched(n)' = Watched(n)
<1> DEFINE p == Parent[c]
           f == [d \in Others |-> SeenOf(d)]
           e == [d \in Others |-> SeenOf(d)']
<1>1. \A d \in Others : shadow'[d] = IF d = c THEN v ELSE shadow[d]
  BY DEF TypeOK
<1>2. c \in Children(p) /\ p \in Nodes
  BY TreeAssumption DEF Children
<1>3. /\ \A d \in Children(p) : f[d] \in Int /\ e[d] \in Int
      /\ \A d \in Children(p) \ {c} : f[d] = e[d]
  BY <1>1, ValuesAssumption DEF TypeOK, Children, SeenOf
<1>4. Seen(p) = SumFunctionOnSet(f, Children(p)) /\ Seen(p)' = SumFunctionOnSet(e, Children(p))
  BY DEF Seen, Children
<1>5. f[c] = SeenOf(c) /\ e[c] = IF v = Unknown THEN 0 ELSE v
  BY <1>1 DEF SeenOf
<1>6. Seen(p)' = Seen(p) - SeenOf(c) + (IF v = Unknown THEN 0 ELSE v)
  <2>1. SumFunctionOnSet(e, Children(p)) = SumFunctionOnSet(f, Children(p)) - f[c] + e[c]
    <3> HIDE DEF e, f, p
    <3> QED
      BY <1>2, <1>3, WatchedFinite, SumChange
  <2> QED
    BY <1>4, <1>5, <2>1
<1>7. Cardinality(Watched(p)') = Cardinality(Watched(p)) - (IF shadow[c] = Unknown THEN 0 ELSE 1)
                                                        + (IF v = Unknown THEN 0 ELSE 1)
  <2>1. Watched(p)' = IF v = Unknown THEN Watched(p) \ {c} ELSE Watched(p) \cup {c}
    BY <1>1, <1>2 DEF Watched, Children
  <2>2. c \in Watched(p) <=> shadow[c] # Unknown
    BY <1>2 DEF Watched
  <2>3. IsFiniteSet(Watched(p)) /\ Cardinality(Watched(p)) \in Nat
    BY WatchedFinite
  <2> HIDE DEF p
  <2>4. CASE v = Unknown
    <3>1. Cardinality(Watched(p) \ {c}) =
            IF c \in Watched(p) THEN Cardinality(Watched(p)) - 1 ELSE Cardinality(Watched(p))
      BY <2>3, FS_RemoveElement
    <3>2. Cardinality(Watched(p)') = Cardinality(Watched(p) \ {c})
      BY <2>1, <2>4
    <3> QED
      BY <2>2, <2>3, <2>4, <3>1, <3>2
  <2>5. CASE v # Unknown
    <3>1. Cardinality(Watched(p) \cup {c}) =
            IF c \in Watched(p) THEN Cardinality(Watched(p)) ELSE Cardinality(Watched(p)) + 1
      BY <2>3, FS_AddElement
    <3>2. Cardinality(Watched(p)') = Cardinality(Watched(p) \cup {c})
      BY <2>1, <2>5
    <3> QED
      BY <2>2, <2>3, <2>5, <3>1, <3>2
  <2> QED
    BY <2>4, <2>5
<1>8. ASSUME NEW n \in Nodes \ {p}
      PROVE  Seen(n)' = Seen(n) /\ Watched(n)' = Watched(n)
  <2>1. \A d \in Children(n) : shadow'[d] = shadow[d]
    BY <1>1 DEF Children
  <2> QED
    BY <2>1, SeenSame
<1> QED
  BY <1>6, <1>7, <1>8

-----------------------------------------------------------------------------
\* An entry without references: no clients, and nobody scraped below it.
LEMMA UnusedSeesNothing ==
  ASSUME IndInv, NEW n \in Nodes, counter[n] = 0
  PROVE  clients[n] = 0 /\ Watched(n) = {} /\ Seen(n) = 0 /\ Listed(n) = 0
<1>1. clients[n] = 0 /\ Cardinality(Watched(n)) = 0
  BY WatchedFinite DEF IndInv, TypeOK, ReferencesCover
<1>2. Watched(n) = {}
  BY <1>1, WatchedFinite, FS_EmptySet
<1> QED
  BY <1>1, <1>2, SeenNothing DEF IndInv, UnusedIsEmpty, Listed

\* What a proxy lists is a natural number.
LEMMA ListedIsNat ==
  ASSUME TypeOK, NEW n \in Nodes
  PROVE  Listed(n) \in Nat
BY ValuesAssumption DEF TypeOK, Listed

\* What the properties add up are natural numbers.
LEMMA Numbers ==
  ASSUME TypeOK
  PROVE  \A n \in Nodes :
           /\ Listed(n) \in Nat /\ Seen(n) \in Nat /\ Cardinality(Watched(n)) \in Nat
           /\ own[n] \in Nat /\ past[n] \in Nat /\ first[n] \in Nat
           /\ counter[n] \in Nat /\ clients[n] \in Nat
BY ListedIsNat, SeenIsNat, WatchedFinite DEF TypeOK

\* The tree.
LEMMA ParentIsNode ==
  ASSUME NEW c \in Others
  PROVE  Parent[c] \in Nodes /\ c \in Nodes /\ c # Root /\ c \in Children(Parent[c])
BY TreeAssumption DEF Nodes, Children

\* Nothing is counted or seen at the start.
LEMMA InitIndInv == Init => IndInv
<1> SUFFICES ASSUME Init PROVE IndInv
  OBVIOUS
<1> USE DEF Init
<1>1. TypeOK
  BY BoundsAssumption DEF TypeOK
<1>2. \A n \in Nodes : Watched(n) = {}
  BY DEF Watched, Children
<1>3. \A n \in Nodes : Seen(n) = 0 /\ Cardinality(Watched(n)) = 0
  BY <1>2, SeenNothing, FS_EmptySet
<1>4. ReferencesCover /\ UnusedIsEmpty
  BY <1>3 DEF ReferencesCover, UnusedIsEmpty
<1>5. SeenIsCounted /\ ExactWhileCalm
  BY <1>3 DEF SeenIsCounted, ExactWhileCalm, Listed
<1>6. CalmGrows
  BY DEF CalmGrows
<1> QED
  BY <1>1, <1>4, <1>5, <1>6 DEF IndInv

\* A client connects.
LEMMA AttachIndInv ==
  ASSUME IndInv, NEW n \in Nodes, Attach(n)
  PROVE  IndInv'
<1> USE DEF IndInv
<1>1. /\ \A m \in Nodes : /\ counter'[m] = IF m = n THEN counter[m] + 1 ELSE counter[m]
                          /\ clients'[m] = IF m = n THEN clients[m] + 1 ELSE clients[m]
      /\ joined < MaxClients /\ joined' = joined + 1 /\ calm' = (calm /\ NoticedAt(n))
      /\ UNCHANGED <<value, shadow, saved, own, past, first, total, faults, scraped>>
  BY DEF Attach, TypeOK
<1>2. \A m \in Nodes : Seen(m)' = Seen(m) /\ Watched(m)' = Watched(m) /\ Listed(m)' = Listed(m)
  BY <1>1, SeenSame DEF Listed
<1>3. TypeOK'
  BY <1>1, BoundsAssumption DEF TypeOK, ReferencesCover, Attach
<1>4. ReferencesCover'
  BY <1>1, <1>2, WatchedFinite DEF TypeOK, ReferencesCover
<1>5. UnusedIsEmpty'
  BY <1>1 DEF TypeOK, UnusedIsEmpty
<1>6. SeenIsCounted' /\ ExactWhileCalm'
  BY <1>1, <1>2 DEF SeenIsCounted, ExactWhileCalm
<1>7. CalmGrows'
  BY <1>1, <1>2, ParentIsNode DEF CalmGrows, NoticedAt, TypeOK
<1> QED
  BY <1>3, <1>4, <1>5, <1>6, <1>7

\* A client describes the counter, or adds to it.
LEMMA CountIndInv ==
  ASSUME IndInv, NEW n \in Nodes, Describe(n) \/ Increment(n)
  PROVE  IndInv'
<1> USE DEF IndInv
<1>1. /\ clients[n] > 0
      /\ UNCHANGED <<clients, counter, shadow, saved, past, first, joined, faults, calm, scraped>>
  BY DEF Describe, Increment
<1>2. \A m \in Nodes : Seen(m)' = Seen(m) /\ Watched(m)' = Watched(m)
  BY <1>1, SeenSame
<1>3. counter[n] > 0
  BY <1>1, WatchedFinite DEF TypeOK, ReferencesCover
<1>4. TypeOK'
  <2>1. CASE Describe(n)
    BY <2>1 DEF TypeOK, Describe
  <2>2. CASE Increment(n)
    <3>1. value[n] \in Nat /\ total + 1 \in 0 .. MaxIncrements
      BY <2>2, BoundsAssumption DEF TypeOK, Increment
    <3> QED
      BY <2>2, <3>1 DEF TypeOK, Increment
  <2> QED
    BY <2>1, <2>2
<1>5. PICK d \in {0, 1} : \A m \in Nodes :
        /\ Listed(m)' = IF m = n THEN Listed(m) + d ELSE Listed(m)
        /\ own'[m] = IF m = n THEN own[m] + d ELSE own[m]
        /\ m # n => value'[m] = value[m]
  <2>1. CASE Describe(n)
    BY <2>1, ListedIsNat, ValuesAssumption DEF Describe, Listed, TypeOK
  <2>2. CASE Increment(n)
    BY <2>2, ValuesAssumption DEF Increment, Listed, TypeOK
  <2> QED
    BY <2>1, <2>2
<1>6. ReferencesCover'
  BY <1>1, <1>2 DEF ReferencesCover
<1>7. UnusedIsEmpty'
  BY <1>1, <1>3, <1>5 DEF UnusedIsEmpty
<1>8. SeenIsCounted' /\ ExactWhileCalm'
  BY <1>1, <1>2, <1>5, Numbers DEF SeenIsCounted, ExactWhileCalm
<1>9. CalmGrows'
  BY <1>1, <1>5, ListedIsNat, ParentIsNode DEF CalmGrows, TypeOK
<1> QED
  BY <1>4, <1>6, <1>7, <1>8, <1>9

\* What an entry loses with a reference, and that it loses all with the last.
LEMMA RelaxEntry ==
  ASSUME TypeOK, NEW n \in Nodes, counter[n] > 0, Relax(n)
  PROVE  /\ \A m \in Nodes : counter'[m] = IF m = n THEN counter[m] - 1 ELSE counter[m]
         /\ \A m \in Nodes : IF m = n /\ counter[n] = 1
              THEN value'[m] = Absent /\ own'[m] = 0 /\ first'[m] = 0 /\ Listed(m)' = 0
              ELSE /\ value'[m] = value[m] /\ own'[m] = own[m] /\ first'[m] = first[m]
                   /\ Listed(m)' = Listed(m)
         /\ counter' \in [Nodes -> Nat] /\ value' \in [Nodes -> Nat \cup {Absent}]
         /\ saved' \in Nat \cup {Absent}
         /\ own' \in [Nodes -> Nat] /\ first' \in [Nodes -> Nat]
<1>1. \A m \in Nodes : counter'[m] = IF m = n THEN counter[m] - 1 ELSE counter[m]
  BY DEF TypeOK, Relax
<1>2. counter' \in [Nodes -> Nat]
  BY DEF TypeOK, Relax
<1>3. \A m \in Nodes : IF m = n /\ counter[n] = 1
              THEN value'[m] = Absent /\ own'[m] = 0 /\ first'[m] = 0
              ELSE value'[m] = value[m] /\ own'[m] = own[m] /\ first'[m] = first[m]
  BY DEF TypeOK, Relax
<1>4. /\ value' \in [Nodes -> Nat \cup {Absent}] /\ saved' \in Nat \cup {Absent}
      /\ own' \in [Nodes -> Nat] /\ first' \in [Nodes -> Nat]
  BY DEF TypeOK, Relax
<1> QED
  BY <1>1, <1>2, <1>3, <1>4 DEF Listed

\* A client disconnects.
LEMMA DetachIndInv ==
  ASSUME IndInv, NEW n \in Nodes, Detach(n)
  PROVE  IndInv'
<1> USE DEF IndInv
<1>1. /\ \A m \in Nodes : clients'[m] = IF m = n THEN clients[m] - 1 ELSE clients[m]
      /\ clients[n] > 0 /\ Relax(n)
      /\ \A m \in Nodes : past'[m] = IF m = n /\ counter[n] = 1 THEN 0 ELSE past[m]
      /\ UNCHANGED <<shadow, total, joined, faults, calm, scraped>>
  BY DEF Detach, TypeOK
<1>2. \A m \in Nodes : Seen(m)' = Seen(m) /\ Watched(m)' = Watched(m)
  BY <1>1, SeenSame
<1>3. counter[n] > 0
  BY <1>1, Numbers DEF ReferencesCover
<1>4. /\ \A m \in Nodes : counter'[m] = IF m = n THEN counter[m] - 1 ELSE counter[m]
      /\ \A m \in Nodes : IF m = n /\ counter[n] = 1
           THEN value'[m] = Absent /\ own'[m] = 0 /\ first'[m] = 0 /\ Listed(m)' = 0
           ELSE /\ value'[m] = value[m] /\ own'[m] = own[m] /\ first'[m] = first[m]
                /\ Listed(m)' = Listed(m)
  BY <1>1, <1>3, RelaxEntry
<1>5. TypeOK'
  <2>1. clients' \in [Nodes -> 0 .. MaxClients] /\ past' \in [Nodes -> Nat]
    BY <1>1, BoundsAssumption DEF Detach, TypeOK
  <2> QED
    BY <1>1, <1>3, <2>1, RelaxEntry DEF TypeOK
<1>6. ReferencesCover'
  BY <1>1, <1>2, <1>4, Numbers DEF ReferencesCover, TypeOK
<1>7. UnusedIsEmpty'
  BY <1>1, <1>4, Numbers DEF UnusedIsEmpty
<1>8. counter[n] = 1 => Seen(n) = 0
  <2>1. counter[n] = 1 => Cardinality(Watched(n)) = 0
    BY <1>1, Numbers DEF ReferencesCover
  <2> QED
    BY <2>1, WatchedFinite, FS_EmptySet, SeenNothing
<1>9. SeenIsCounted' /\ ExactWhileCalm'
  BY <1>1, <1>2, <1>4, <1>8, Numbers DEF SeenIsCounted, ExactWhileCalm
<1>10. CalmGrows'
  BY <1>1, <1>4, ParentIsNode, Numbers DEF CalmGrows
<1> QED
  BY <1>5, <1>6, <1>7, <1>9, <1>10

-----------------------------------------------------------------------------
\* A scraper finds the job for the first time.
LEMMA ScrapeNewIndInv ==
  ASSUME IndInv, NEW n \in Others, ScrapeNew(n)
  PROVE  IndInv'
<1> USE DEF IndInv
<1> DEFINE p == Parent[n]
           v == Listed(n)
           x == IF v # 0 /\ value[p] = Absent THEN v ELSE 0
<1>1. p \in Nodes /\ n \in Nodes /\ v \in Nat /\ x \in Nat
  BY ParentIsNode, ListedIsNat
<1>2. /\ counter[n] > 0 /\ shadow[n] = Unknown /\ shadow' = [shadow EXCEPT ![n] = v]
      /\ \A m \in Nodes : counter'[m] = IF m = p THEN counter[m] + 1 ELSE counter[m]
      /\ \A m \in Nodes : first'[m] = IF m = p THEN first[m] + x ELSE first[m]
      /\ (calm' => calm /\ NoticedAt(p))
      /\ UNCHANGED <<clients, saved, own, past, total, joined, faults, scraped>>
  <2>1. calm' => calm /\ NoticedAt(p)
    BY Zenon DEF ScrapeNew
  <2> QED
    BY <1>1, <2>1 DEF ScrapeNew, TypeOK
<1>3. /\ value' \in [Nodes -> Nat \cup {Absent}]
      /\ \A m \in Nodes : m # p => value'[m] = value[m]
      /\ Listed(p)' = Listed(p) + v + x
  <2>1. CASE v = 0
    BY <1>1, <2>1, ListedIsNat DEF ScrapeNew, TypeOK, Listed
  <2>2. CASE v # 0
    <3>1. value' = [value EXCEPT ![p] = PushAndMerge(p, v)]
      BY <2>2 DEF ScrapeNew
    <3>2. PushAndMerge(p, v) \in Nat /\ PushAndMerge(p, v) = Listed(p) + v + x
      BY <1>1, <2>2 DEF PushAndMerge, TypeOK, Listed
    <3> HIDE DEF v
    <3> QED
      BY <1>1, <3>1, <3>2, ValuesAssumption DEF TypeOK, Listed
  <2> QED
    BY <2>1, <2>2
<1>4. \A m \in Nodes : m # p => Listed(m)' = Listed(m)
  BY <1>3 DEF Listed
<1> HIDE DEF v, x
<1>5. v # Unknown /\ SeenOf(n) = 0
  BY <1>1, <1>2, ValuesAssumption DEF SeenOf
<1>6. /\ Seen(p)' = Seen(p) + v /\ Cardinality(Watched(p)') = Cardinality(Watched(p)) + 1
      /\ \A m \in Nodes \ {p} : Seen(m)' = Seen(m) /\ Watched(m)' = Watched(m)
  <2>1. /\ Seen(p)' = Seen(p) - SeenOf(n) + (IF v = Unknown THEN 0 ELSE v)
        /\ Cardinality(Watched(p)') =
             Cardinality(Watched(p)) - (IF shadow[n] = Unknown THEN 0 ELSE 1)
                                     + (IF v = Unknown THEN 0 ELSE 1)
        /\ \A m \in Nodes \ {p} : Seen(m)' = Seen(m) /\ Watched(m)' = Watched(m)
    BY <1>1, <1>2, SeenChanges
  <2>2. Seen(p) \in Nat /\ Cardinality(Watched(p)) \in Nat
    BY <1>1, Numbers
  <2> HIDE DEF p
  <2> QED
    BY <1>1, <1>2, <1>5, <2>1, <2>2
<1>7. TypeOK'
  <2>1. counter' \in [Nodes -> Nat] /\ first' \in [Nodes -> Nat]
    BY <1>1, <1>2 DEF TypeOK, ScrapeNew
  <2>2. shadow' \in [Others -> Nat \cup {Unknown}] /\ calm' \in BOOLEAN
    BY <1>1, <1>2 DEF TypeOK, NoticedAt, ScrapeNew
  <2> QED
    BY <1>2, <1>3, <2>1, <2>2 DEF TypeOK
<1> HIDE DEF p
<1>8. ReferencesCover'
  BY <1>1, <1>2, <1>6, Numbers DEF ReferencesCover
<1>9. UnusedIsEmpty'
  BY <1>1, <1>2, <1>3, Numbers DEF UnusedIsEmpty
<1>10. SeenIsCounted' /\ ExactWhileCalm'
  BY <1>1, <1>2, <1>3, <1>4, <1>6, Numbers DEF SeenIsCounted, ExactWhileCalm
<1>11. CalmGrows'
  <2> SUFFICES ASSUME calm', NEW m \in Others, counter'[m] > 0, shadow'[m] # Unknown
               PROVE  shadow'[m] <= Listed(m)'
    BY DEF CalmGrows
  <2>1. m \in Nodes /\ Listed(m) <= Listed(m)' /\ Listed(m)' \in Nat /\ Listed(m) \in Nat
    BY <1>1, <1>3, <1>4, ParentIsNode, Numbers
  <2>2. CASE m = n
    BY <2>1, <2>2, <1>2, <1>1 DEF TypeOK, v
  <2>3. CASE m # n
    <3>1. shadow'[m] = shadow[m] /\ shadow[m] \in Nat
      BY <1>2, <2>3 DEF TypeOK
    <3>2. counter[m] > 0
      BY <1>2, <2>1, <3>1, ParentIsNode DEF NoticedAt
    <3> QED
      BY <1>2, <2>1, <3>1, <3>2 DEF CalmGrows
  <2> QED
    BY <2>2, <2>3
<1> QED
  BY <1>7, <1>8, <1>9, <1>10, <1>11

\* The entry of a job that some scraper knows has a reference of it.
LEMMA WatchedIsReferenced ==
  ASSUME IndInv, NEW n \in Others, shadow[n] # Unknown
  PROVE  /\ counter[Parent[n]] > 0 /\ Cardinality(Watched(Parent[n])) > 0
         /\ shadow[n] \in Nat /\ SeenOf(n) = shadow[n] /\ shadow[n] <= Seen(Parent[n])
<1> DEFINE p == Parent[n]
<1>1. p \in Nodes /\ n \in Watched(p) /\ n \in Children(p)
  BY ParentIsNode DEF Watched
<1>2. Cardinality(Watched(p)) > 0
  BY <1>1, WatchedFinite, FS_EmptySet
<1>3. counter[p] > 0
  BY <1>1, <1>2, Numbers DEF IndInv, ReferencesCover
<1>4. shadow[n] \in Nat /\ SeenOf(n) = shadow[n]
  BY DEF IndInv, TypeOK, SeenOf
<1> QED
  BY <1>1, <1>2, <1>3, <1>4, SeenIsNat DEF IndInv

\* A scraper sees another value.
LEMMA ScrapeAgainIndInv ==
  ASSUME IndInv, NEW n \in Others, ScrapeAgain(n)
  PROVE  IndInv'
<1> USE DEF IndInv
<1> DEFINE p == Parent[n]
           v == Listed(n)
           s == shadow[n]
           d == Substract(v, s)
           x == IF value[p] = Absent THEN d ELSE 0
<1>1. p \in Nodes /\ n \in Nodes /\ v \in Nat
  BY ParentIsNode, ListedIsNat
<1>2. /\ counter[n] > 0 /\ s # Unknown /\ shadow' = [shadow EXCEPT ![n] = v]
      /\ v # 0 \/ s # 0
      /\ value' = [value EXCEPT ![p] = PushAndMerge(p, d)]
      /\ \A m \in Nodes : first'[m] = IF m = p /\ value[p] = Absent THEN first[m] + d ELSE first[m]
      /\ UNCHANGED <<clients, counter, saved, own, past, total, joined, faults, calm, scraped>>
  BY <1>1 DEF ScrapeAgain, TypeOK
<1>3. counter[p] > 0 /\ s \in Nat /\ SeenOf(n) = s /\ s <= Seen(p)
  BY <1>2, WatchedIsReferenced
<1>4. /\ d \in Int /\ (v = 0 => d = s) /\ (v # 0 => d = v - s)
      /\ calm => d >= 0 /\ d = v - s
  <2>1. calm => s <= v
    BY <1>2 DEF CalmGrows
  <2> QED
    BY <1>1, <1>2, <1>3, <2>1 DEF Substract
<1>5. Listed(p) >= own[p] + Seen(p) /\ own[p] \in Nat /\ Seen(p) \in Nat /\ Listed(p) \in Nat
  BY <1>1, Numbers DEF SeenIsCounted
<1>6. value[p] = Absent => Listed(p) = 0 /\ s = 0 /\ d = v
  <2>1. value[p] = Absent => Listed(p) = 0
    BY DEF Listed
  <2> QED
    BY <1>1, <1>3, <1>4, <1>5, <2>1
<1>7. x \in Nat
  BY <1>1, <1>6
<1>8. PushAndMerge(p, d) = Listed(p) + d + x /\ Listed(p) + d + x \in Nat
  BY <1>1, <1>3, <1>4, <1>5, <1>6 DEF PushAndMerge, Listed
<1>9. first' \in [Nodes -> Nat] /\ \A m \in Nodes : first'[m] = IF m = p THEN first[m] + x ELSE first[m]
  BY <1>1, <1>2, <1>7 DEF ScrapeAgain, TypeOK
<1> HIDE DEF d, x
<1>10. /\ value' \in [Nodes -> Nat \cup {Absent}]
       /\ Listed(p)' = Listed(p) + d + x
       /\ \A m \in Nodes : m # p => value'[m] = value[m] /\ Listed(m)' = Listed(m)
  BY <1>1, <1>2, <1>8, ValuesAssumption DEF TypeOK, Listed
<1>11. shadow' \in [Others -> Nat \cup {Unknown}] /\ shadow'[n] = v
  BY <1>1, <1>2 DEF TypeOK
<1>12. TypeOK'
  BY <1>2, <1>9, <1>10, <1>11 DEF TypeOK
<1> HIDE DEF v
<1>13. /\ Seen(p)' = Seen(p) - s + v /\ Cardinality(Watched(p)') = Cardinality(Watched(p))
       /\ \A m \in Nodes \ {p} : Seen(m)' = Seen(m) /\ Watched(m)' = Watched(m)
  <2>1. /\ Seen(p)' = Seen(p) - SeenOf(n) + (IF v = Unknown THEN 0 ELSE v)
        /\ Cardinality(Watched(p)') =
             Cardinality(Watched(p)) - (IF shadow[n] = Unknown THEN 0 ELSE 1)
                                     + (IF v = Unknown THEN 0 ELSE 1)
        /\ \A m \in Nodes \ {p} : Seen(m)' = Seen(m) /\ Watched(m)' = Watched(m)
    BY <1>1, <1>2, SeenChanges
  <2>2. Seen(p) \in Nat /\ Cardinality(Watched(p)) \in Nat /\ v # Unknown
    BY <1>1, Numbers, ValuesAssumption
  <2> HIDE DEF p
  <2> QED
    BY <1>1, <1>2, <1>3, <2>1, <2>2
<1> HIDE DEF p, s
<1>14. ReferencesCover'
  BY <1>1, <1>2, <1>13, Numbers DEF ReferencesCover
<1>15. UnusedIsEmpty'
  BY <1>1, <1>2, <1>3, <1>9, <1>10 DEF UnusedIsEmpty
<1>16. SeenIsCounted'
  BY <1>1, <1>2, <1>3, <1>4, <1>5, <1>7, <1>10, <1>13, Numbers DEF SeenIsCounted
<1>17. ExactWhileCalm'
  <2> SUFFICES ASSUME calm, NEW m \in Nodes
               PROVE  Listed(m)' = own'[m] + Seen(m)' + past'[m] + first'[m]
    BY <1>2 DEF ExactWhileCalm
  <2>1. /\ Listed(m) = own[m] + Seen(m) + past[m] + first[m]
        /\ own'[m] = own[m] /\ past'[m] = past[m]
    BY <1>2 DEF ExactWhileCalm
  <2>2. CASE m = p
    <3>1. d = v - s /\ first'[m] = first[m] + x
      BY <1>4, <1>9, <2>2
    <3>2. /\ Listed(m) \in Nat /\ own[m] \in Nat /\ Seen(m) \in Nat
          /\ past[m] \in Nat /\ first[m] \in Nat
      BY Numbers
    <3>3. Listed(m)' = Listed(m) + d + x /\ Seen(m)' = Seen(m) - s + v
      BY <1>10, <1>13, <2>2
    <3> QED
      BY <1>1, <1>3, <1>7, <2>1, <3>1, <3>2, <3>3
  <2>3. CASE m # p
    BY <1>9, <1>10, <1>13, <2>1, <2>3
  <2> QED
    BY <2>2, <2>3
<1>18. CalmGrows'
  <2> SUFFICES ASSUME calm', NEW m \in Others, counter'[m] > 0, shadow'[m] # Unknown
               PROVE  shadow'[m] <= Listed(m)'
    BY DEF CalmGrows
  <2>1. m \in Nodes /\ Listed(m) <= Listed(m)' /\ Listed(m)' \in Nat /\ Listed(m) \in Nat
    BY <1>1, <1>2, <1>4, <1>5, <1>7, <1>10, ParentIsNode, Numbers
  <2>2. CASE m = n
    BY <2>1, <2>2, <1>1, <1>11 DEF v
  <2>3. CASE m # n
    <3>1. shadow'[m] = shadow[m] /\ shadow[m] \in Nat
      BY <1>2, <2>3 DEF TypeOK
    <3> QED
      BY <1>2, <2>1, <3>1 DEF CalmGrows
  <2> QED
    BY <2>2, <2>3
<1> QED
  BY <1>12, <1>14, <1>15, <1>16, <1>17, <1>18

\* A scraper forgets a job: it is no longer counted there, and nothing else changes.
LEMMA SeenForgotten ==
  ASSUME IndInv, NEW n \in Others, shadow[n] # Unknown,
         shadow' = [shadow EXCEPT ![n] = Unknown]
  PROVE  /\ Seen(Parent[n])' = Seen(Parent[n]) - shadow[n]
         /\ Cardinality(Watched(Parent[n])') = Cardinality(Watched(Parent[n])) - 1
         /\ \A m \in Nodes \ {Parent[n]} : Seen(m)' = Seen(m) /\ Watched(m)' = Watched(m)
         /\ shadow' \in [Others -> Nat \cup {Unknown}]
<1> DEFINE p == Parent[n]
<1>1. /\ Seen(p)' = Seen(p) - SeenOf(n) + (IF Unknown = Unknown THEN 0 ELSE Unknown)
      /\ Cardinality(Watched(p)') =
             Cardinality(Watched(p)) - (IF shadow[n] = Unknown THEN 0 ELSE 1)
                                     + (IF Unknown = Unknown THEN 0 ELSE 1)
      /\ \A m \in Nodes \ {p} : Seen(m)' = Seen(m) /\ Watched(m)' = Watched(m)
  BY SeenChanges DEF IndInv
<1>2. /\ Seen(p) \in Nat /\ Cardinality(Watched(p)) \in Nat
      /\ SeenOf(n) = shadow[n] /\ shadow[n] \in Nat
  BY ParentIsNode, Numbers, WatchedIsReferenced DEF IndInv
<1>3. shadow' \in [Others -> Nat \cup {Unknown}]
  BY DEF IndInv, TypeOK
<1> HIDE DEF p
<1>4. Seen(p)' = Seen(p) - shadow[n] /\ Cardinality(Watched(p)') = Cardinality(Watched(p)) - 1
  BY <1>1, <1>2
<1> QED
  BY <1>1, <1>3, <1>4 DEF p

\* The job has left the child.
LEMMA ScrapeGoneIndInv ==
  ASSUME IndInv, NEW n \in Others, ScrapeGone(n)
  PROVE  IndInv'
<1> USE DEF IndInv
<1> DEFINE p == Parent[n]
<1>1. /\ counter[n] = 0 /\ shadow[n] # Unknown /\ shadow' = [shadow EXCEPT ![n] = Unknown]
      /\ Relax(p) /\ p \in Nodes
      /\ past' = [past EXCEPT ![p] = IF counter[p] = 1 THEN 0 ELSE @ + shadow[n]]
      /\ UNCHANGED <<clients, total, joined, faults, calm, scraped>>
  BY ParentIsNode DEF ScrapeGone
<1>2. /\ counter[p] > 0 /\ Cardinality(Watched(p)) > 0
      /\ shadow[n] \in Nat /\ shadow[n] <= Seen(p)
  BY <1>1, WatchedIsReferenced
<1>3. /\ past' \in [Nodes -> Nat]
      /\ \A m \in Nodes : past'[m] = IF m # p THEN past[m]
                                     ELSE IF counter[p] = 1 THEN 0 ELSE past[m] + shadow[n]
  BY <1>1, <1>2 DEF TypeOK
<1>4. /\ \A m \in Nodes : counter'[m] = IF m = p THEN counter[m] - 1 ELSE counter[m]
      /\ \A m \in Nodes : IF m = p /\ counter[p] = 1
           THEN value'[m] = Absent /\ own'[m] = 0 /\ first'[m] = 0 /\ Listed(m)' = 0
           ELSE /\ value'[m] = value[m] /\ own'[m] = own[m] /\ first'[m] = first[m]
                /\ Listed(m)' = Listed(m)
  BY <1>1, <1>2, RelaxEntry
<1>5. /\ Seen(p)' = Seen(p) - shadow[n]
      /\ Cardinality(Watched(p)') = Cardinality(Watched(p)) - 1
      /\ \A m \in Nodes \ {p} : Seen(m)' = Seen(m) /\ Watched(m)' = Watched(m)
      /\ shadow' \in [Others -> Nat \cup {Unknown}]
  BY <1>1, SeenForgotten
<1>6. TypeOK'
  BY <1>1, <1>2, <1>3, <1>5, RelaxEntry DEF TypeOK
<1>7. counter[p] = 1 => Seen(p)' = 0
  <2>1. counter[p] = 1 => Cardinality(Watched(p)') = 0
    BY <1>1, <1>2, <1>5, Numbers DEF ReferencesCover
  <2>2. Watched(p)' \in SUBSET Children(p)
    BY DEF Watched, Children
  <2>3. IsFiniteSet(Watched(p)')
    BY <2>2, WatchedFinite, FS_Subset
  <2>4. counter[p] = 1 => Watched(p)' = {}
    BY <2>1, <2>3, FS_EmptySet
  <2> QED
    BY <2>4, SeenNothingNext
<1> HIDE DEF p
<1>8. ReferencesCover'
  BY <1>1, <1>4, <1>5, Numbers DEF ReferencesCover
<1>9. UnusedIsEmpty'
  BY <1>1, <1>2, <1>3, <1>4, Numbers DEF UnusedIsEmpty
<1>10. SeenIsCounted' /\ ExactWhileCalm'
  BY <1>1, <1>2, <1>3, <1>4, <1>5, <1>7, Numbers DEF SeenIsCounted, ExactWhileCalm
<1>11. CalmGrows'
  <2>1. \A m \in Others : shadow'[m] # Unknown => shadow'[m] = shadow[m]
    BY <1>1 DEF TypeOK
  <2> QED
    BY <1>1, <1>4, <2>1, ParentIsNode, Numbers DEF CalmGrows
<1> QED
  BY <1>6, <1>8, <1>9, <1>10, <1>11

-----------------------------------------------------------------------------
\* A scraper is dropped, or replaced by one that has seen nothing yet.
LEMMA DropScraperIndInv ==
  ASSUME IndInv, NEW n \in Others, DropScraper(n)
  PROVE  IndInv'
<1> USE DEF IndInv
<1> DEFINE p == Parent[n]
<1>1. /\ shadow' = [shadow EXCEPT ![n] = Unknown] /\ p \in Nodes
      /\ past' = [past EXCEPT ![p] = @ + SeenOf(n)] /\ ~calm' /\ calm' \in BOOLEAN
      /\ faults' = faults + 1 /\ faults < MaxFaults
      /\ UNCHANGED <<clients, counter, value, saved, own, first, total, joined>>
      /\ scraped' \in {scraped, scraped \ {n}}
  BY ParentIsNode DEF DropScraper
<1>2. /\ SeenOf(n) \in Nat /\ (SeenOf(n) > 0 => counter[p] > 0)
      /\ Seen(p)' = Seen(p) - SeenOf(n)
      /\ Cardinality(Watched(p)') <= Cardinality(Watched(p)) /\ Cardinality(Watched(p)') \in Nat
      /\ \A m \in Nodes \ {p} : Seen(m)' = Seen(m) /\ Watched(m)' = Watched(m)
      /\ shadow' \in [Others -> Nat \cup {Unknown}]
  <2>1. CASE shadow[n] = Unknown
    <3>1. shadow' = shadow /\ SeenOf(n) = 0
      BY <1>1, <2>1 DEF TypeOK, SeenOf
    <3>2. \A m \in Nodes : Seen(m)' = Seen(m) /\ Watched(m)' = Watched(m)
      BY <3>1, SeenSame
    <3> QED
      BY <1>1, <3>1, <3>2, Numbers DEF TypeOK
  <2>2. CASE shadow[n] # Unknown
    <3>1. counter[p] > 0 /\ shadow[n] \in Nat /\ SeenOf(n) = shadow[n]
          /\ Cardinality(Watched(p)) > 0
      BY <2>2, WatchedIsReferenced
    <3>2. /\ Seen(p)' = Seen(p) - shadow[n]
          /\ Cardinality(Watched(p)') = Cardinality(Watched(p)) - 1
          /\ \A m \in Nodes \ {p} : Seen(m)' = Seen(m) /\ Watched(m)' = Watched(m)
          /\ shadow' \in [Others -> Nat \cup {Unknown}]
      BY <1>1, <2>2, SeenForgotten
    <3>3. Cardinality(Watched(p)) \in Nat
      BY <1>1, Numbers
    <3> HIDE DEF p
    <3> QED
      BY <3>1, <3>2, <3>3
  <2> QED
    BY <2>1, <2>2
<1>3. /\ past' \in [Nodes -> Nat]
      /\ \A m \in Nodes : past'[m] = IF m = p THEN past[m] + SeenOf(n) ELSE past[m]
  BY <1>1, <1>2 DEF TypeOK
<1>4. \A m \in Nodes : Listed(m)' = Listed(m)
  BY <1>1 DEF Listed
<1>5. TypeOK'
  BY <1>1, <1>2, <1>3, BoundsAssumption DEF TypeOK
<1> HIDE DEF p
<1>6. ReferencesCover'
  BY <1>1, <1>2, Numbers DEF ReferencesCover
<1>7. UnusedIsEmpty'
  <2>1. \A m \in Nodes : counter[m] = 0 => past'[m] = past[m]
    BY <1>1, <1>2, <1>3, Numbers
  <2> QED
    BY <1>1, <2>1 DEF UnusedIsEmpty
<1>8. SeenIsCounted'
  BY <1>1, <1>2, <1>4, Numbers DEF SeenIsCounted
<1> QED
  BY <1>1, <1>5, <1>6, <1>7, <1>8 DEF ExactWhileCalm, CalmGrows

\* A proxy that was not scraped is scraped again: no value changes.
LEMMA JoinAgainIndInv ==
  ASSUME IndInv, NEW n \in Others, JoinAgain(n)
  PROVE  IndInv'
<1>1. /\ UNCHANGED <<clients, counter, value, shadow, saved, own, past, first, total, joined,
                     faults, calm>>
      /\ scraped' \subseteq Others
  BY DEF JoinAgain, IndInv, TypeOK
<1>2. /\ \A m \in Nodes : Seen(m)' = Seen(m) /\ Watched(m)' = Watched(m)
      /\ \A m : Listed(m)' = Listed(m)
  BY <1>1, SeenSame DEF IndInv, Listed
<1> QED
  BY <1>1, <1>2 DEF IndInv, TypeOK, ReferencesCover, UnusedIsEmpty, SeenIsCounted, ExactWhileCalm,
     CalmGrows

\* A proxy starts again with nothing.
LEMMA CrashRestartIndInv ==
  ASSUME IndInv, NEW n \in Others, CrashRestart(n)
  PROVE  IndInv'
<1> USE DEF IndInv
<1>1. /\ n \in Nodes /\ ~calm' /\ calm' \in BOOLEAN
      /\ faults' = faults + 1 /\ faults < MaxFaults /\ UNCHANGED <<saved, total, joined>>
  BY ParentIsNode DEF CrashRestart
<1>2. \A m \in Nodes : IF m = n
        THEN /\ clients'[m] = 0 /\ counter'[m] = 0 /\ value'[m] = Absent
             /\ own'[m] = 0 /\ past'[m] = 0 /\ first'[m] = 0 /\ Listed(m)' = 0
        ELSE /\ clients'[m] = clients[m] /\ counter'[m] = counter[m] /\ value'[m] = value[m]
             /\ own'[m] = own[m] /\ past'[m] = past[m] /\ first'[m] = first[m]
             /\ Listed(m)' = Listed(m)
  BY DEF CrashRestart, TypeOK, Listed
<1>3. Seen(n)' = 0 /\ Cardinality(Watched(n)') = 0
  <2>1. Watched(n)' = {}
    BY DEF CrashRestart, Watched, Children
  <2> QED
    BY <2>1, SeenNothingNext, FS_EmptySet
<1>4. ASSUME NEW m \in Nodes, m # n
      PROVE  Seen(m)' = Seen(m) /\ Watched(m)' = Watched(m)
  <2>1. \A c \in Children(m) : shadow'[c] = shadow[c]
    BY <1>4 DEF CrashRestart, Children
  <2> QED
    BY <2>1, SeenSame
<1>5. TypeOK'
  BY <1>1, BoundsAssumption DEF CrashRestart, TypeOK
<1>6. ReferencesCover' /\ UnusedIsEmpty'
  BY <1>1, <1>2, <1>3, <1>4, Numbers DEF ReferencesCover, UnusedIsEmpty, TypeOK
<1>7. SeenIsCounted'
  BY <1>2, <1>3, <1>4 DEF SeenIsCounted
<1> QED
  BY <1>1, <1>5, <1>6, <1>7 DEF ExactWhileCalm, CalmGrows

-----------------------------------------------------------------------------
\* Every step keeps the invariant.
LEMMA NextIndInv == IndInv /\ [Next]_vars => IndInv'
<1> SUFFICES ASSUME IndInv, [Next]_vars PROVE IndInv'
  OBVIOUS
<1>1. CASE Next
  BY <1>1, AttachIndInv, CountIndInv, DetachIndInv, ScrapeNewIndInv, ScrapeAgainIndInv,
     ScrapeGoneIndInv, DropScraperIndInv, JoinAgainIndInv, CrashRestartIndInv DEF Next, Scrape
<1>2. CASE UNCHANGED vars
  <2>1. \A n \in Nodes : Seen(n)' = Seen(n) /\ Watched(n)' = Watched(n) /\ Listed(n)' = Listed(n)
    BY <1>2, SeenSame DEF IndInv, vars, Listed
  <2>2. \A n \in Others : Listed(n)' = Listed(n)
    BY <1>2 DEF vars, Listed
  <2> QED
    BY <1>2, <2>1, <2>2 DEF vars, IndInv, TypeOK, ReferencesCover, UnusedIsEmpty, SeenIsCounted,
       ExactWhileCalm, CalmGrows
<1> QED
  BY <1>1, <1>2

\* The inductive invariant holds in every state.
THEOREM Inductive == Spec => []IndInv
BY InitIndInv, NextIndInv, PTL DEF Spec

(***************************************************************************)
(* The values of the exporters and of the shadow states are always natural *)
(* numbers: the difference of substract may be negative, a value that it   *)
(* is merged into never is, whatever crashed, ended or was replaced.       *)
(***************************************************************************)
THEOREM TypeCorrect == Spec => []TypeOK
BY Inductive, PTL DEF IndInv

(***************************************************************************)
(* For any tree of proxies, the exporter of a job holds at least what its  *)
(* own clients added and what the scrapers in place have read, across      *)
(* crashes, restarts and replaced scrapers (scrape_proxy).                 *)
(***************************************************************************)
THEOREM SeenValuesAreCounted == Spec => []SeenIsCounted
BY Inductive, PTL DEF IndInv

(***************************************************************************)
(* For any tree of proxies, while all is calm the value is exactly what    *)
(* clients and scrapers brought plus each name's first value once more     *)
(* (push, then accumulate, in scrape_proxy).                               *)
(***************************************************************************)
THEOREM ValuesAreExactWhileCalm == Spec => []ExactWhileCalm
BY Inductive, PTL DEF IndInv
=============================================================================
