--------------------------- MODULE ClientLibProofs ---------------------------
(***************************************************************************)
(* Proofs about ClientLib, for any finite set of threads, any set of       *)
(* metrics and any capacity of the socket.                                 *)
(***************************************************************************)
EXTENDS ClientLib, SumTheorems

-----------------------------------------------------------------------------
\* The values in a sequence of commands add up to an integer; none to zero.
LEMMA CarriedIsInt ==
  ASSUME NEW s \in Seq(Commands), NEW n
  PROVE  Carried(s, n) \in Int /\ (s = <<>> => Carried(s, n) = 0)
<1> DEFINE f == [i \in 1 .. Len(s) |-> Weight(s[i], n)]
           S == 1 .. Len(s)
<1>1. \A i \in S : f[i] \in Int
  <2>1. \A i \in S : s[i] \in Commands
    OBVIOUS
  <2> QED
    BY <2>1 DEF Weight, Commands
<1>2. IsFiniteSet(S)
  BY FS_Interval
<1>3. Carried(s, n) = SumFunctionOnSet(f, S)
  BY DEF Carried
<1>4. s = <<>> => S = {}
  OBVIOUS
<1> HIDE DEF f, S
<1>5. SumFunctionOnSet(f, S) \in Int
  BY <1>1, <1>2, SumIsInt
<1> QED
  BY <1>3, <1>4, <1>5, SumEmpty

\* A command at the end of a sequence brings its own weight.
LEMMA CarriedAppend ==
  ASSUME NEW s \in Seq(Commands), NEW m \in Commands, NEW n
  PROVE  Carried(Append(s, m), n) = Carried(s, n) + Weight(m, n)
<1> DEFINE k == Len(s)
           v == [i \in 1 .. k |-> Weight(s[i], n)]
           t == Append(s, m)
           u == [i \in 1 .. k + 1 |-> Weight(t[i], n)]
<1>1. k \in Nat /\ Len(t) = k + 1 /\ t[k + 1] = m /\ \A i \in 1 .. k : t[i] = s[i]
  OBVIOUS
<1>2. \A i \in 1 .. k + 1 : t[i] \in Commands
  BY <1>1
<1>3. /\ \A i \in 1 .. k + 1 : u[i] \in Int
      /\ \A i \in 1 .. k : v[i] = u[i]
      /\ u[k + 1] = Weight(m, n)
  <2> HIDE DEF t
  <2> QED
    BY <1>1, <1>2 DEF Weight, Commands
<1>4. Carried(t, n) = SumFunctionOnSet(u, 1 .. k + 1) /\ Carried(s, n) = SumFunctionOnSet(v, 1 .. k)
  <2> HIDE DEF t
  <2> QED
    BY <1>1 DEF Carried
<1> HIDE DEF k, u, v, t
<1>5. SumFunctionOnSet(u, 1 .. k + 1) = SumFunctionOnSet(v, 1 .. k) + u[k + 1]
  BY <1>1, <1>3, SumLast
<1> QED
  BY <1>3, <1>4, <1>5 DEF t

\* The first command of a sequence takes its weight with it.
LEMMA CarriedTail ==
  ASSUME NEW s \in Seq(Commands), s # <<>>, NEW n
  PROVE  /\ Carried(s, n) = Weight(Head(s), n) + Carried(Tail(s), n)
         /\ Head(s) \in Commands /\ Tail(s) \in Seq(Commands) /\ Weight(Head(s), n) \in Int
<1> DEFINE k == Len(s) - 1
           t == Tail(s)
           u == [i \in 1 .. k + 1 |-> Weight(s[i], n)]
           v == [i \in 1 .. k |-> Weight(t[i], n)]
<1>1. /\ k \in Nat /\ Len(s) = k + 1 /\ Len(t) = k /\ Head(s) = s[1]
      /\ \A i \in 1 .. k : t[i] = s[i + 1]
      /\ t \in Seq(Commands)
  OBVIOUS
<1>2. \A i \in 1 .. k + 1 : s[i] \in Commands
  BY <1>1
<1>3. /\ \A i \in 1 .. k + 1 : u[i] \in Int
      /\ \A i \in 1 .. k : v[i] = u[i + 1]
      /\ u[1] = Weight(Head(s), n) /\ Head(s) \in Commands
  <2> HIDE DEF t, k
  <2> QED
    BY <1>1, <1>2 DEF Weight, Commands
<1>4. Carried(s, n) = SumFunctionOnSet(u, 1 .. k + 1) /\ Carried(t, n) = SumFunctionOnSet(v, 1 .. k)
  <2> HIDE DEF t, k
  <2> QED
    BY <1>1 DEF Carried
<1> HIDE DEF k, u, v, t
<1>5. SumFunctionOnSet(u, 1 .. k + 1) = u[1] + SumFunctionOnSet(v, 1 .. k)
  BY <1>1, <1>3, SumFirst
<1>6. u[1] \in Int
  BY <1>1, <1>3
<1> QED
  BY <1>1, <1>3, <1>4, <1>5, <1>6 DEF t

\* The threads that may dump can be counted.
LEMMA DumpersFinite == IsFiniteSet(Dumpers)
BY ThreadsAssumption, FS_AddElement DEF Dumpers

\* Sums over the dumping threads.
LEMMA DumpersSum ==
  ASSUME NEW f, NEW g, NEW d \in Dumpers, \A e \in Dumpers : f[e] \in Int /\ g[e] \in Int,
         \A e \in Dumpers \ {d} : f[e] = g[e]
  PROVE  /\ SumFunctionOnSet(f, Dumpers) \in Int
         /\ SumFunctionOnSet(g, Dumpers) = SumFunctionOnSet(f, Dumpers) - f[d] + g[d]
<1>1. SumFunctionOnSet(f, Dumpers) \in Int
  BY DumpersFinite, SumIsInt
<1>2. SumFunctionOnSet(g, Dumpers) = SumFunctionOnSet(f, Dumpers) - f[d] + g[d]
  BY DumpersFinite, SumChange
<1> QED
  BY <1>1, <1>2

\* The batches add up to an integer; one of them changes the sum by its own change.
LEMMA BatchedChanges ==
  ASSUME batch \in [Dumpers -> Seq(Commands)], NEW d \in Dumpers, NEW b \in Seq(Commands),
         batch' = [batch EXCEPT ![d] = b], NEW n
  PROVE  Batched(n) \in Int /\ Batched(n)' = Batched(n) - Carried(batch[d], n) + Carried(b, n)
<1> DEFINE f == [e \in Dumpers |-> Carried(batch[e], n)]
           g == [e \in Dumpers |-> Carried(batch'[e], n)]
<1>1. \A e \in Dumpers : f[e] \in Int /\ g[e] \in Int
  BY CarriedIsInt
<1>2. \A e \in Dumpers \ {d} : f[e] = g[e]
  OBVIOUS
<1>3. f[d] = Carried(batch[d], n) /\ g[d] = Carried(b, n)
  OBVIOUS
<1>4. Batched(n) = SumFunctionOnSet(f, Dumpers) /\ Batched(n)' = SumFunctionOnSet(g, Dumpers)
  BY DEF Batched, Carried, Weight, ValueFor
<1> HIDE DEF f, g
<1>5. /\ SumFunctionOnSet(f, Dumpers) \in Int
      /\ SumFunctionOnSet(g, Dumpers) = SumFunctionOnSet(f, Dumpers) - f[d] + g[d]
  BY <1>1, <1>2, DumpersSum, Zenon
<1> QED
  BY <1>3, <1>4, <1>5

\* Empty batches hold nothing.
LEMMA BatchedNothing ==
  ASSUME \A d \in Dumpers : batch[d] = <<>>, NEW n
  PROVE  Batched(n) = 0
<1> DEFINE f == [e \in Dumpers |-> Carried(batch[e], n)]
<1>1. \A d \in Dumpers : f[d] = 0
  <2>1. <<>> \in Seq(Commands)
    OBVIOUS
  <2>2. Carried(<<>>, n) = 0
    BY <2>1, CarriedIsInt
  <2> QED
    BY <2>2
<1>2. Batched(n) = SumFunctionOnSet(f, Dumpers)
  BY DEF Batched
<1> HIDE DEF f
<1> QED
  BY <1>1, <1>2, DumpersFinite, SumIsZero

-----------------------------------------------------------------------------
\* The steps of the specification.
LEMMA Steps ==
  ASSUME [Next]_vars
  PROVE  \/ \E t \in Threads, n \in Names, k \in Kinds, op \in {"new", "count", "release"} :
              Call(t, op, n, k)
         \/ \E t \in Threads, n \in Names : CounterInc(t, n) \/ GaugeSet(t, n)
         \/ \E t \in Threads :
              Insert(t) \/ Describe(t) \/ DescribeFails(t) \/ Stop(t)
         \/ \E d \in Dumpers, n \in Names : Peek(d, n) \/ Take(d, n)
         \/ \E d \in Dumpers :
              EndCollect(d) \/ SendValue(d) \/ EndDump(d) \/ SendValueFails(d)
         \/ Exit \/ Poll \/ PollerEnds
         \/ RecvDesc \/ RecvValue \/ RecvFails \/ EndOfFile \/ ProxyKilled
         \/ UNCHANGED vars
<1>1. Poller \in Dumpers /\ Threads \subseteq Dumpers /\ Finished \in Names
  BY NamesAssumption DEF Dumpers
<1>2. ASSUME NEW t \in Threads, ThreadStep(t)
      PROVE  \/ \E n \in Names, k \in Kinds, op \in {"new", "count", "release"} :
                  Call(t, op, n, k)
             \/ \E n \in Names : CounterInc(t, n) \/ GaugeSet(t, n)
             \/ Insert(t) \/ Describe(t) \/ DescribeFails(t) \/ Stop(t)
  <2>1. "counter" \in Kinds /\ \A n \in Names : Asks[n] \subseteq Kinds
    BY NamesAssumption DEF Kinds
  <2>2. CASE \E n \in Names : \E k \in Asks[n] : New(t, n, k)
    <3>1. PICK n \in Names, k \in Kinds : New(t, n, k)
      BY <2>1, <2>2
    <3>2. Call(t, "new", n, k)
      BY <3>1 DEF New
    <3> QED
      BY <3>2
  <2>3. CASE Release(t)
    <3>1. Call(t, "release", Finished, "counter")
      BY <2>3 DEF Release
    <3> QED
      BY <1>1, <2>1, <3>1
  <2>4. CASE \E n \in Names : Count(t, n)
    <3>1. PICK n \in Names : Count(t, n)
      BY <2>4
    <3>2. Call(t, "count", n, "counter")
      BY <3>1 DEF Count
    <3> QED
      BY <2>1, <3>2
  <2> QED
    BY <1>2, <2>2, <2>3, <2>4 DEF ThreadStep
<1>3. ASSUME NEW d \in Dumpers, DumpStep(d)
      PROVE  \/ \E n \in Names : Peek(d, n) \/ Take(d, n)
             \/ EndCollect(d) \/ SendValue(d) \/ EndDump(d) \/ SendValueFails(d)
  BY <1>3 DEF DumpStep
<1>4. CASE \E t \in Threads : ThreadStep(t)
  BY <1>2, <1>4
<1>5. CASE \E t \in Threads : DumpStep(t)
  BY <1>1, <1>3, <1>5
<1>6. CASE PollStep
  BY <1>1, <1>3, <1>6 DEF PollStep
<1>7. CASE Receive \/ Exit \/ ProxyKilled \/ Terminated
  BY <1>7 DEF Receive, Terminated
<1> QED
  BY <1>4, <1>5, <1>6, <1>7 DEF Next

\* What an increment does to the table and to the history.
LEMMA IncEffect ==
  ASSUME TypeOK, NEW n \in Names, Inc(n)
  PROVE  /\ val' \in [Names -> Int] /\ added' \in [Names -> Nat] /\ late' \in [Names -> Nat]
         /\ \A m \in Names : m # n \/ kind[n] # "counter" =>
              val'[m] = val[m] /\ added'[m] = added[m] /\ late'[m] = late[m]
         /\ kind[n] = "counter" =>
              /\ val'[n] = val[n] + 1 /\ added'[n] = added[n] + 1
              /\ late'[n] = IF call[Main].op = "exit" THEN late[n] + 1 ELSE late[n]
<1>1. val \in [Names -> Int] /\ added \in [Names -> Nat] /\ late \in [Names -> Nat]
  BY DEF TypeOK
<1>2. CASE kind[n] = "counter"
  <2>1. /\ val' = [val EXCEPT ![n] = @ + 1] /\ added' = [added EXCEPT ![n] = @ + 1]
        /\ late' = IF call[Main].op = "exit" THEN [late EXCEPT ![n] = @ + 1] ELSE late
    BY <1>2 DEF Inc
  <2>2. CASE call[Main].op = "exit"
    BY <1>1, <1>2, <2>1, <2>2
  <2>3. CASE call[Main].op # "exit"
    BY <1>1, <1>2, <2>1, <2>3
  <2> QED
    BY <2>2, <2>3
<1>3. CASE kind[n] # "counter"
  BY <1>1, <1>3 DEF Inc
<1> QED
  BY <1>2, <1>3

\* What no step undoes: how the client connected, a connection that ended, an overlap, an entry.
LEMMA NeverUndone ==
  ASSUME TypeOK, [Next]_vars
  PROVE  /\ UNCHANGED link /\ (server = "open" \/ UNCHANGED server) /\ (overlap => overlap')
         /\ \A n \in Names : kind[n] # "none" => kind'[n] = kind[n]
<1> USE DEF table, dumping, proxy, history
<1>1. UNCHANGED link
  BY Steps DEF Call, CounterInc, GaugeSet, Insert, Describe, DescribeFails, Stop, Peek, Take,
     EndCollect, SendValue, EndDump, SendValueFails, Exit, Poll, PollerEnds, RecvDesc, RecvValue,
     RecvFails, EndOfFile, ProxyKilled, Close, vars
<1>2. server = "open" \/ UNCHANGED server
  BY Steps DEF Call, CounterInc, GaugeSet, Insert, Describe, DescribeFails, Stop, Peek, Take,
     EndCollect, SendValue, EndDump, SendValueFails, Exit, Poll, PollerEnds, RecvDesc, RecvValue,
     RecvFails, EndOfFile, ProxyKilled, Close, vars
<1>3. overlap => overlap'
  BY Steps DEF Call, CounterInc, GaugeSet, Insert, Describe, DescribeFails, Stop, Peek, Take,
     EndCollect, SendValue, EndDump, SendValueFails, Exit, Poll, PollerEnds, RecvDesc, RecvValue,
     RecvFails, EndOfFile, ProxyKilled, Close, vars, StartDump
<1>4. UNCHANGED kind \/ \E t \in Threads : Insert(t)
  BY Steps DEF Call, CounterInc, GaugeSet, Describe, DescribeFails, Stop, Peek, Take,
     EndCollect, SendValue, EndDump, SendValueFails, Exit, Poll, PollerEnds, RecvDesc, RecvValue,
     RecvFails, EndOfFile, ProxyKilled, Close, vars
<1>5. \A n \in Names : kind[n] # "none" => kind'[n] = kind[n]
  BY <1>4 DEF Insert, TypeOK
<1> QED
  BY <1>1, <1>2, <1>3, <1>5

\* The initial values have their types.
LEMMA TypeInit == Init => TypeOK
<1> SUFFICES ASSUME Init PROVE TypeOK
  OBVIOUS
<1>1. NoCall \in [op : {"none", "new", "count", "release", "exit"}, name : Names, kind : Kinds]
  BY NamesAssumption DEF NoCall, Kinds
<1>2. types \in [Names -> Kinds \cup {"none"}]
  BY NamesAssumption DEF Init
<1>3. alive \in BOOLEAN /\ running \in BOOLEAN /\ overlap \in BOOLEAN
  BY Zenon DEF Init
<1>4. /\ pc \in [Dumpers -> {"idle", "insert", "describe", "stop", "collect", "send", "ended"}]
      /\ server \in {"open", "closed", "left"}
  BY DEF Init
<1>5. hits \in [Names -> BOOLEAN]
  BY DEF Init
<1> QED
  BY <1>1, <1>2, <1>3, <1>4, <1>5 DEF Init, TypeOK

\* A value that is sent has a type, because its entry was found in the table.
LEMMA TypeNext == TypeOK /\ KindsAgree /\ [Next]_vars => TypeOK'
<1> SUFFICES ASSUME TypeOK, KindsAgree, [Next]_vars PROVE TypeOK'
  OBVIOUS
<1> USE DEF TypeOK, table, dumping, proxy, history, Goto
<1>1. Threads \subseteq Dumpers /\ Poller \in Dumpers /\ Main \in Threads
  BY ThreadsAssumption DEF Dumpers
<1>2. NoCall \in [op : {"none", "new", "count", "release", "exit"}, name : Names, kind : Kinds]
  BY NamesAssumption DEF NoCall, Kinds
<1>3. ASSUME NEW t \in Threads, NEW n \in Names, NEW k \in Kinds,
             NEW op \in {"new", "count", "release"}, Call(t, op, n, k)
      PROVE  TypeOK'
  BY <1>1, <1>3 DEF Call
<1>4. ASSUME NEW t \in Threads, NEW n \in Names, CounterInc(t, n)
      PROVE  TypeOK'
  <2>1. Inc(n)
    BY <1>4 DEF CounterInc
  <2> QED
    BY <1>4, <2>1, IncEffect DEF CounterInc
<1>5. ASSUME NEW t \in Threads, NEW n \in Names, GaugeSet(t, n)
      PROVE  TypeOK'
  BY <1>5, ValuesAssumption, SMTT(30) DEF GaugeSet
<1>6. ASSUME NEW t \in Threads, Insert(t)
      PROVE  TypeOK'
  <2>1. kind' \in [Names -> Kinds \cup {"none"}]
    BY <1>6 DEF Insert
  <2> QED
    BY <1>1, <1>6, <2>1 DEF Insert
<1>7. ASSUME NEW t \in Threads, Return(t)
      PROVE  /\ pc' \in [Dumpers -> {"idle", "insert", "describe", "stop", "collect", "send", "ended"}]
             /\ call' \in [Threads -> [op : {"none", "new", "count", "release", "exit"},
                                       name : Names, kind : Kinds]]
  <2>1. CASE call[t].op = "release"
    BY <1>1, <1>7, <2>1 DEF Return
  <2>2. CASE call[t].op # "release"
    <3>1. pc' = [pc EXCEPT ![t] = "idle"] /\ call' = [call EXCEPT ![t] = NoCall]
      BY <1>7, <2>2 DEF Return
    <3> QED
      BY <1>1, <1>2, <3>1
  <2> QED
    BY <2>1, <2>2
<1>8. ASSUME NEW t \in Threads, Describe(t)
      PROVE  TypeOK'
  <2> DEFINE n == call[t].name
  <2>1. n \in Names /\ call[t].kind \in Kinds
    OBVIOUS
  <2>2. wire' \in Seq(Commands)
    <3>1. Desc(n, call[t].kind) \in Commands
      BY <2>1 DEF Desc, Commands
    <3> QED
      BY <3>1, <1>8 DEF Describe
  <2>3. /\ handle' \subseteq Names
        /\ val' \in [Names -> Int] /\ added' \in [Names -> Nat] /\ late' \in [Names -> Nat]
    <3>1. CASE call[t].op = "new"
      BY <1>8, <2>1, <3>1 DEF Describe
    <3>2. CASE call[t].op # "new"
      <4>1. Inc(n) /\ UNCHANGED handle
        BY <1>8, <3>2 DEF Describe
      <4> QED
        BY <2>1, <4>1, IncEffect
    <3> QED
      BY <3>1, <3>2
  <2>4. Return(t)
    BY <1>8 DEF Describe
  <2> HIDE DEF n
  <2> QED
    BY <1>7, <1>8, <2>2, <2>3, <2>4 DEF Describe
<1>9. ASSUME NEW t \in Threads, DescribeFails(t)
      PROVE  TypeOK'
  <2>1. Return(t)
    BY <1>9 DEF DescribeFails
  <2> QED
    BY <1>7, <1>9, <2>1 DEF DescribeFails
<1>10. ASSUME NEW d \in Dumpers, StartDump(d)
       PROVE  /\ pc' \in [Dumpers -> {"idle", "insert", "describe", "stop", "collect", "send", "ended"}]
              /\ todo' \in [Dumpers -> SUBSET Names] /\ overlap' \in BOOLEAN
  BY <1>10 DEF StartDump
<1>11. ASSUME NEW t \in Threads, Stop(t)
       PROVE  TypeOK'
  BY <1>1, <1>10, <1>11 DEF Stop
<1>12. CASE Exit
  <2> DEFINE R == [op : {"none", "new", "count", "release", "exit"}, name : Names, kind : Kinds]
  <2>1. Main \in Threads /\ Main \in Dumpers /\ call \in [Threads -> R]
    BY <1>1
  <2>2. StartDump(Main) /\ call' = [call EXCEPT ![Main].op = "exit"]
    BY <1>12 DEF Exit
  <2>3. call' \in [Threads -> R]
    <3> HIDE DEF TypeOK
    <3>1. [call[Main] EXCEPT !.op = "exit"] \in R
      BY <2>1
    <3> HIDE DEF R
    <3> QED
      BY <2>1, <2>2, <3>1
  <2> HIDE DEF StartDump
  <2> QED
    BY <1>10, <1>12, <2>1, <2>2, <2>3 DEF Exit
<1>13. CASE Poll
  BY <1>1, <1>10, <1>13 DEF Poll
<1>14. CASE PollerEnds
  BY <1>1, <1>14 DEF PollerEnds
<1>15. ASSUME NEW d \in Dumpers, NEW n \in Names, Peek(d, n)
       PROVE  TypeOK'
  BY <1>15 DEF Peek
<1>16. ASSUME NEW d \in Dumpers, NEW n \in Names, Take(d, n)
       PROVE  TypeOK'
  <2>1. kind[n] \in Kinds
    BY <1>16 DEF Take, KindsAgree
  <2>2. Value(n, kind[n], val[n]) \in Commands
    BY <2>1 DEF Value, Commands
  <2>3. batch' \in [Dumpers -> Seq(Commands)]
    BY <1>16, <2>2 DEF Take
  <2> QED
    BY <1>16, <2>3, SMTT(30) DEF Take
<1>17. ASSUME NEW d \in Dumpers, EndCollect(d)
       PROVE  TypeOK'
  BY <1>17 DEF EndCollect
<1>18. ASSUME NEW d \in Dumpers, SendValue(d)
       PROVE  TypeOK'
  <2>1. Head(batch[d]) \in Commands /\ Tail(batch[d]) \in Seq(Commands)
    BY <1>18 DEF SendValue
  <2> QED
    BY <1>18, <2>1 DEF SendValue
<1>19. ASSUME NEW d \in Dumpers, alive, Leave(d)
       PROVE  /\ pc' \in [Dumpers -> {"idle", "insert", "describe", "stop", "collect", "send", "ended"}]
              /\ alive' \in BOOLEAN
              /\ call' \in [Threads -> [op : {"none", "new", "count", "release", "exit"},
                                        name : Names, kind : Kinds]]
  BY <1>2, <1>19 DEF Leave
<1>20. ASSUME NEW d \in Dumpers, EndDump(d)
       PROVE  TypeOK'
  BY <1>19, <1>20 DEF EndDump
<1>21. ASSUME NEW d \in Dumpers, SendValueFails(d)
       PROVE  TypeOK'
  <2>1. /\ pc' \in [Dumpers -> {"idle", "insert", "describe", "stop", "collect", "send", "ended"}]
        /\ alive' \in BOOLEAN
        /\ call' \in [Threads -> [op : {"none", "new", "count", "release", "exit"},
                                  name : Names, kind : Kinds]]
    BY <1>19, <1>21 DEF SendValueFails
  <2>2. batch' \in [Dumpers -> Seq(Commands)]
    BY <1>21 DEF SendValueFails
  <2> QED
    BY <1>21, <2>1, <2>2 DEF SendValueFails
<1>22. CASE RecvDesc
  <2>1. Head(wire) \in Commands /\ Tail(wire) \in Seq(Commands)
    BY <1>22 DEF RecvDesc
  <2>2. types' \in [Names -> Kinds \cup {"none"}]
    BY <1>22, <2>1 DEF RecvDesc, Commands
  <2> QED
    BY <1>22, <2>1, <2>2 DEF RecvDesc
<1>23. CASE RecvValue
  <2>1. Head(wire) \in Commands /\ Tail(wire) \in Seq(Commands)
    BY <1>23 DEF RecvValue
  <2>2. total' \in [Names -> Int]
    <3> DEFINE m == Head(wire)
    <3>1. m.name \in Names /\ m.v \in Int
      BY <2>1 DEF Commands
    <3>2. total' = [total EXCEPT ![m.name] = IF m.kind = "counter" THEN @ + m.v ELSE m.v]
      BY <1>23 DEF RecvValue
    <3> HIDE DEF m
    <3> QED
      BY <3>1, <3>2
  <2> QED
    BY <1>23, <2>1, <2>2 DEF RecvValue
<1>24. CASE RecvFails \/ EndOfFile \/ ProxyKilled
  <2>1. /\ wire' = <<>> /\ server' \in {"closed", "left"}
        /\ UNCHANGED <<alive, running, link, table, pc, call, handle, dumping, types, total, history, overlap>>
    BY <1>24 DEF RecvFails, EndOfFile, ProxyKilled, Close
  <2>2. wire' \in Seq(Commands)
    BY <2>1
  <2> QED
    BY <2>1, <2>2
<1>25. CASE UNCHANGED vars
  BY <1>25 DEF vars
<1> HIDE DEF TypeOK
<1> QED
  BY <1>3, <1>4, <1>5, <1>6, <1>8, <1>9, <1>11, <1>12, <1>13, <1>14, <1>15, <1>16, <1>17,
     <1>18, <1>20, <1>21, <1>22, <1>23, <1>24, <1>25, Steps

-----------------------------------------------------------------------------
\* Where threads are, and what they hold there.
LEMMA PhasesNext == TypeOK /\ Phases /\ [Next]_vars => Phases'
<1> SUFFICES ASSUME TypeOK, Phases, [Next]_vars PROVE Phases'
  OBVIOUS
<1>1. Threads \subseteq Dumpers /\ Poller \in Dumpers /\ Main \in Threads /\ Main # Poller
  BY ThreadsAssumption DEF Dumpers
<1>2. /\ pc \in [Dumpers -> {"idle", "insert", "describe", "stop", "collect", "send", "ended"}]
      /\ call \in [Threads -> [op : {"none", "new", "count", "release", "exit"},
                               name : Names, kind : Kinds]]
      /\ todo \in [Dumpers -> SUBSET Names] /\ peek \in [Dumpers -> SUBSET Names]
      /\ batch \in [Dumpers -> Seq(Commands)] /\ alive \in BOOLEAN
  BY DEF TypeOK
<1>3. NoCall.op = "none"
  BY DEF NoCall
<1> USE DEF table, dumping, proxy, history, Goto, Phases, Dumping
<1>4. ASSUME NEW t \in Threads, NEW n \in Names, NEW k \in Kinds,
             NEW op \in {"new", "count", "release"}, Call(t, op, n, k)
      PROVE  Phases'
  BY <1>1, <1>2, <1>4 DEF Call
<1>5. ASSUME NEW t \in Threads, NEW n \in Names, CounterInc(t, n) \/ GaugeSet(t, n)
      PROVE  Phases'
  BY <1>5 DEF CounterInc, GaugeSet
<1>6. ASSUME NEW t \in Threads, Insert(t)
      PROVE  Phases'
  BY <1>1, <1>2, <1>6 DEF Insert
<1>7. ASSUME NEW t \in Threads, Describe(t) \/ DescribeFails(t)
      PROVE  Phases'
  <2>1. /\ alive /\ pc[t] = "describe" /\ Return(t) /\ UNCHANGED <<alive, link, dumping, server>>
        /\ wire' = wire \/ server = "open"
    BY <1>7 DEF Describe, DescribeFails, CanSend
  <2>2. CASE call[t].op = "release"
    BY <1>1, <1>2, <2>1, <2>2 DEF Return
  <2>3. CASE call[t].op # "release"
    BY <1>1, <1>2, <1>3, <2>1, <2>3 DEF Return
  <2> QED
    BY <2>2, <2>3
<1>8. ASSUME NEW t \in Threads, Stop(t)
      PROVE  Phases'
  BY <1>1, <1>2, <1>8 DEF Stop, StartDump
<1>9. CASE Exit
  BY <1>1, <1>2, <1>9 DEF Exit, StartDump
<1>10. CASE Poll
  BY <1>1, <1>2, <1>10 DEF Poll, StartDump
<1>11. CASE PollerEnds
  BY <1>1, <1>2, <1>11 DEF PollerEnds
<1>12. ASSUME NEW d \in Dumpers, NEW n \in Names, Peek(d, n)
       PROVE  Phases'
  BY <1>1, <1>2, <1>12 DEF Peek
<1>13. ASSUME NEW d \in Dumpers, NEW n \in Names, Take(d, n)
       PROVE  Phases'
  BY <1>1, <1>2, <1>13 DEF Take
<1>14. ASSUME NEW d \in Dumpers, EndCollect(d)
       PROVE  Phases'
  BY <1>1, <1>2, <1>14 DEF EndCollect
<1>15. ASSUME NEW d \in Dumpers, SendValue(d)
       PROVE  Phases'
  BY <1>1, <1>2, <1>15 DEF SendValue, CanSend
<1>16. ASSUME NEW d \in Dumpers, alive, pc[d] = "send", Leave(d) \/ (d = Poller /\ Goto(d, "ended") /\ UNCHANGED <<alive, call>>),
              batch' = [batch EXCEPT ![d] = <<>>], UNCHANGED <<todo, peek, wire, server, link>>
       PROVE  Phases'
  <2>1. CASE d = Main /\ call[Main].op = "exit"
    BY <1>1, <1>2, <1>16, <2>1 DEF Leave
  <2>2. CASE ~(d = Main /\ call[Main].op = "exit")
    <3>1. alive' /\ pc'[d] \in {"idle", "ended"} /\ pc' = [pc EXCEPT ![d] = pc'[d]]
      BY <1>1, <1>2, <1>16, <2>2 DEF Leave
    <3>2. d # Poller => d \in Threads /\ call' = [call EXCEPT ![d] = NoCall]
      BY <1>1, <1>2, <1>16, <2>2, <3>1 DEF Leave, Dumpers
    <3>3. d = Poller => call' = call
      BY <1>1, <1>2, <1>16, <2>2, <3>1 DEF Leave
    <3>4. call'[Main].op = "exit" => Main # d /\ call[Main].op = "exit"
      BY <1>1, <1>2, <1>3, <3>2, <3>3
    <3> QED
      BY <1>1, <1>2, <1>16, <3>1, <3>4
  <2> QED
    BY <2>1, <2>2
<1>17. ASSUME NEW d \in Dumpers, EndDump(d)
       PROVE  Phases'
  <2>1. batch' = [batch EXCEPT ![d] = <<>>]
    BY <1>2, <1>17 DEF EndDump
  <2> QED
    BY <1>16, <1>17, <2>1 DEF EndDump
<1>18. ASSUME NEW d \in Dumpers, SendValueFails(d)
       PROVE  Phases'
  BY <1>16, <1>18 DEF SendValueFails
<1>19. CASE RecvDesc \/ RecvValue
  BY <1>19 DEF RecvDesc, RecvValue
<1>20. CASE RecvFails \/ EndOfFile \/ ProxyKilled
  BY <1>20 DEF RecvFails, EndOfFile, ProxyKilled, Close
<1>21. CASE UNCHANGED vars
  BY <1>21 DEF vars
<1> HIDE DEF Phases
<1> QED
  BY <1>4, <1>5, <1>6, <1>7, <1>8, <1>9, <1>10, <1>11, <1>12, <1>13, <1>14, <1>15, <1>17,
     <1>18, <1>19, <1>20, <1>21, Steps

\* Without a proxy nothing is counted.
LEMMA UnlinkedNext == TypeOK /\ Unlinked /\ [Next]_vars => Unlinked'
<1> SUFFICES ASSUME TypeOK, Unlinked, [Next]_vars, link' = "none" PROVE Unlinked'
  BY DEF Unlinked
<1>1. Threads \subseteq Dumpers /\ Poller \in Dumpers
  BY DEF Dumpers
<1>2. link = "none"
  BY NeverUndone
<1>3. /\ server = "left" /\ handle = {}
      /\ \A n \in Names : val[n] = 0 /\ ~hits[n]
      /\ \A d \in Dumpers : peek[d] = {} /\ batch[d] = <<>>
  BY <1>2 DEF Unlinked
<1>4. peek \in [Dumpers -> SUBSET Names]
  BY DEF TypeOK
<1> USE DEF table, dumping, proxy, history, Goto, Unlinked
<1>5. ASSUME NEW t \in Threads, NEW n \in Names, NEW k \in Kinds,
             NEW op \in {"new", "count", "release"}, Call(t, op, n, k)
      PROVE  Unlinked'
  BY <1>3, <1>5 DEF Call
<1>6. ASSUME NEW t \in Threads, NEW n \in Names, CounterInc(t, n) \/ GaugeSet(t, n)
      PROVE  Unlinked'
  BY <1>3, <1>6 DEF CounterInc, GaugeSet
<1>7. ASSUME NEW t \in Threads, Insert(t) \/ DescribeFails(t)
      PROVE  Unlinked'
  BY <1>3, <1>7 DEF Insert, DescribeFails
<1>8. ASSUME NEW t \in Threads, Describe(t)
      PROVE  Unlinked'
  BY <1>2, <1>8 DEF Describe, CanSend
<1>9. ASSUME NEW t \in Threads, Stop(t)
      PROVE  Unlinked'
  BY <1>3, <1>9 DEF Stop
<1>10. CASE Exit \/ Poll \/ PollerEnds
  BY <1>3, <1>10 DEF Exit, Poll, PollerEnds
<1>11. ASSUME NEW d \in Dumpers, NEW n \in Names, Peek(d, n)
       PROVE  Unlinked'
  <2>1. ~Updated(n)
    BY <1>3 DEF Updated
  <2> QED
    BY <1>3, <1>4, <1>11, <2>1 DEF Peek
<1>12. ASSUME NEW d \in Dumpers, NEW n \in Names, Take(d, n)
       PROVE  Unlinked'
  BY <1>3, <1>12 DEF Take
<1>13. ASSUME NEW d \in Dumpers, EndCollect(d) \/ EndDump(d)
       PROVE  Unlinked'
  BY <1>3, <1>13 DEF EndCollect, EndDump
<1>14. ASSUME NEW d \in Dumpers, SendValue(d) \/ SendValueFails(d)
       PROVE  Unlinked'
  BY <1>3, <1>14 DEF SendValue, SendValueFails
<1>15. CASE RecvDesc \/ RecvValue \/ RecvFails \/ EndOfFile \/ ProxyKilled
  BY <1>3, <1>15 DEF RecvDesc, RecvValue, RecvFails, EndOfFile, ProxyKilled
<1>16. CASE UNCHANGED vars
  BY <1>3, <1>16 DEF vars
<1> HIDE DEF Unlinked
<1> QED
  BY <1>5, <1>6, <1>7, <1>8, <1>9, <1>10, <1>11, <1>12, <1>13, <1>14, <1>15, <1>16, Steps

\* The elements of a sequence of commands when one is added or removed.
LEMMA AppendElements ==
  ASSUME NEW s \in Seq(Commands), NEW m \in Commands
  PROVE  /\ Append(s, m) \in Seq(Commands) /\ Len(Append(s, m)) = Len(s) + 1 /\ Len(s) \in Nat
         /\ \A i \in 1 .. Len(s) : Append(s, m)[i] = s[i]
         /\ Append(s, m)[Len(s) + 1] = m
OBVIOUS

\* What is left when the first command is received.
LEMMA TailElements ==
  ASSUME NEW s \in Seq(Commands), s # <<>>
  PROVE  /\ Tail(s) \in Seq(Commands) /\ Len(Tail(s)) = Len(s) - 1 /\ Len(s) \in Nat \ {0}
         /\ \A i \in 1 .. Len(s) - 1 : Tail(s)[i] = s[i + 1]
         /\ Head(s) = s[1] /\ Head(s) \in Commands
OBVIOUS

\* A table that gets an entry: the commands on their way keep their type.
LEMMA KindsKept ==
  ASSUME NEW s \in Seq(Commands), OfItsKind(s), NEW x, kind[x] = "none" \/ kind'[x] = kind[x],
         \A n \in Names : n # x => kind'[n] = kind[n]
  PROVE  \A i \in 1 .. Len(s) : s[i].op = "value" => kind'[s[i].name] = s[i].kind
<1> SUFFICES ASSUME NEW i \in 1 .. Len(s), s[i].op = "value"
             PROVE  kind'[s[i].name] = s[i].kind
  OBVIOUS
<1>1. s[i] \in Commands
  OBVIOUS
<1>2. s[i].name \in Names /\ s[i].kind # "none" /\ kind[s[i].name] = s[i].kind
  BY <1>1 DEF OfItsKind, Commands, Kinds
<1> QED
  BY <1>2

\* Who dumps an entry finds it in the table, and sends it with the type it has there.
LEMMA KindsNext == TypeOK /\ KindsAgree /\ Phases /\ [Next]_vars => KindsAgree'
<1> SUFFICES ASSUME TypeOK, KindsAgree, Phases, [Next]_vars PROVE KindsAgree'
  OBVIOUS
<1>1. Threads \subseteq Dumpers /\ Poller \in Dumpers /\ Main \in Threads
  BY ThreadsAssumption DEF Dumpers
<1>2. /\ todo \in [Dumpers -> SUBSET Names] /\ peek \in [Dumpers -> SUBSET Names]
      /\ batch \in [Dumpers -> Seq(Commands)] /\ wire \in Seq(Commands)
      /\ kind \in [Names -> Kinds \cup {"none"}]
  BY DEF TypeOK
<1>3. /\ \A d \in Dumpers : \A n \in todo[d] \cup peek[d] : kind[n] # "none"
      /\ \A d \in Dumpers : OfItsKind(batch[d])
      /\ OfItsKind(wire)
  BY DEF KindsAgree
<1> USE DEF table, dumping, proxy, history, Goto
<1>4. ASSUME UNCHANGED <<kind, todo, peek, batch, wire>>
      PROVE  KindsAgree'
  BY <1>3, <1>4 DEF KindsAgree, OfItsKind
<1>5. ASSUME NEW t \in Threads, NEW n \in Names, NEW k \in Kinds,
             NEW op \in {"new", "count", "release"}, Call(t, op, n, k)
      PROVE  KindsAgree'
  BY <1>4, <1>5 DEF Call
<1>6. ASSUME NEW t \in Threads, NEW n \in Names, CounterInc(t, n) \/ GaugeSet(t, n)
      PROVE  KindsAgree'
  BY <1>4, <1>6 DEF CounterInc, GaugeSet
<1>7. ASSUME NEW t \in Threads, Insert(t)
      PROVE  KindsAgree'
  <2> DEFINE x == call[t].name
  <2>1. /\ kind[x] = "none" \/ kind'[x] = kind[x]
        /\ \A n \in Names : n # x => kind'[n] = kind[n]
        /\ kind'[x] # "none" \/ kind[x] = "none"
        /\ UNCHANGED <<todo, peek, batch, wire>>
    BY <1>2, <1>7 DEF Insert
  <2> HIDE DEF x
  <2>2. /\ \A d \in Dumpers : \A i \in 1 .. Len(batch[d]) :
             batch[d][i].op = "value" => kind'[batch[d][i].name] = batch[d][i].kind
        /\ \A i \in 1 .. Len(wire) : wire[i].op = "value" => kind'[wire[i].name] = wire[i].kind
    BY <1>2, <1>3, <2>1, KindsKept
  <2>3. \A d \in Dumpers : \A n \in todo[d] \cup peek[d] : kind'[n] # "none"
    BY <1>2, <1>3, <2>1
  <2> QED
    BY <2>1, <2>2, <2>3 DEF KindsAgree, OfItsKind
<1>8. ASSUME NEW t \in Threads, Describe(t)
      PROVE  KindsAgree'
  <2> DEFINE m == Desc(call[t].name, call[t].kind)
  <2>1. /\ wire' = Append(wire, m) /\ m \in Commands /\ m.op = "desc"
        /\ UNCHANGED <<kind, todo, peek, batch>>
    BY <1>8 DEF Describe, Desc, Commands, TypeOK
  <2> HIDE DEF m
  <2> QED
    BY <1>2, <1>3, <2>1, AppendElements DEF KindsAgree, OfItsKind
<1>9. ASSUME NEW t \in Threads, DescribeFails(t)
      PROVE  KindsAgree'
  BY <1>4, <1>9 DEF DescribeFails
<1>10. ASSUME NEW d \in Dumpers, StartDump(d), UNCHANGED <<kind, peek, batch, wire>>
       PROVE  KindsAgree'
  <2>1. \A e \in Dumpers : \A n \in todo'[e] : kind[n] # "none"
    BY <1>2, <1>3, <1>10 DEF StartDump
  <2> QED
    BY <1>3, <1>10, <2>1 DEF KindsAgree, OfItsKind
<1>11. ASSUME NEW t \in Threads, Stop(t)
       PROVE  KindsAgree'
  BY <1>1, <1>10, <1>11 DEF Stop
<1>12. CASE Exit
  BY <1>1, <1>10, <1>12 DEF Exit
<1>13. CASE Poll
  BY <1>1, <1>10, <1>13 DEF Poll
<1>14. CASE PollerEnds
  BY <1>4, <1>14 DEF PollerEnds
<1>15. ASSUME NEW d \in Dumpers, NEW n \in Names, Peek(d, n)
       PROVE  KindsAgree'
  <2>1. \A e \in Dumpers : todo'[e] \cup peek'[e] \subseteq todo[e] \cup peek[e]
    BY <1>2, <1>15 DEF Peek
  <2> QED
    BY <1>3, <1>15, <2>1 DEF Peek, KindsAgree, OfItsKind
<1>16. ASSUME NEW d \in Dumpers, NEW n \in Names, Take(d, n)
       PROVE  KindsAgree'
  <2> DEFINE m == Value(n, kind[n], val[n])
  <2>1. m \in Commands /\ m.name = n /\ m.kind = kind[n] /\ n \in peek[d]
    BY <1>3, <1>16 DEF Take, Value, Commands, TypeOK
  <2>2. /\ batch' = [batch EXCEPT ![d] = Append(@, m)]
        /\ peek' = [peek EXCEPT ![d] = {}] /\ UNCHANGED <<kind, todo, wire>>
    BY <1>16 DEF Take
  <2> HIDE DEF m
  <2>3. \A i \in 1 .. Len(Append(batch[d], m)) : Append(batch[d], m)[i].op = "value" =>
           kind[Append(batch[d], m)[i].name] = Append(batch[d], m)[i].kind
    BY <1>2, <1>3, <2>1, AppendElements DEF OfItsKind
  <2> QED
    BY <1>2, <1>3, <2>2, <2>3 DEF KindsAgree, OfItsKind
<1>17. ASSUME NEW d \in Dumpers, EndCollect(d) \/ EndDump(d)
       PROVE  KindsAgree'
  BY <1>4, <1>17 DEF EndCollect, EndDump
<1>18. ASSUME NEW d \in Dumpers, SendValue(d)
       PROVE  KindsAgree'
  <2> DEFINE m == Head(batch[d])
             b == Tail(batch[d])
  <2>1. /\ m \in Commands /\ b \in Seq(Commands) /\ OfItsKind(b)
        /\ m.op = "value" => kind[m.name] = m.kind
    <3> DEFINE s == batch[d]
    <3>1. s \in Seq(Commands) /\ s # <<>> /\ OfItsKind(s)
      BY <1>2, <1>3, <1>18 DEF SendValue
    <3> HIDE DEF s
    <3>2. /\ Tail(s) \in Seq(Commands) /\ Len(Tail(s)) = Len(s) - 1 /\ Len(s) \in Nat \ {0}
          /\ \A i \in 1 .. Len(s) - 1 : Tail(s)[i] = s[i + 1]
          /\ Head(s) = s[1] /\ Head(s) \in Commands
      BY <3>1, TailElements
    <3>3. OfItsKind(Tail(s)) /\ (Head(s).op = "value" => kind[Head(s).name] = Head(s).kind)
      BY <3>1, <3>2 DEF OfItsKind
    <3> QED
      BY <3>2, <3>3 DEF s
  <2>2. /\ batch' = [batch EXCEPT ![d] = b] /\ wire' = Append(wire, m)
        /\ UNCHANGED <<kind, todo, peek>>
    BY <1>18 DEF SendValue
  <2> HIDE DEF m, b
  <2>3. \A i \in 1 .. Len(wire') : wire'[i].op = "value" => kind[wire'[i].name] = wire'[i].kind
    <3>1. /\ Len(wire') = Len(wire) + 1 /\ Len(wire) \in Nat /\ wire'[Len(wire) + 1] = m
          /\ \A i \in 1 .. Len(wire) : wire'[i] = wire[i]
      BY <1>2, <2>1, <2>2, AppendElements
    <3>2. \A i \in 1 .. Len(wire') : i = Len(wire) + 1 \/ i \in 1 .. Len(wire)
      BY <3>1
    <3> QED
      BY <1>3, <2>1, <3>1, <3>2 DEF OfItsKind
  <2> QED
    BY <1>2, <1>3, <2>1, <2>2, <2>3 DEF KindsAgree, OfItsKind
<1>19. ASSUME NEW d \in Dumpers, SendValueFails(d)
       PROVE  KindsAgree'
  <2>1. batch' = [batch EXCEPT ![d] = <<>>] /\ UNCHANGED <<kind, todo, peek, wire>>
    BY <1>19 DEF SendValueFails
  <2> QED
    BY <1>2, <1>3, <2>1 DEF KindsAgree, OfItsKind
<1>20. CASE RecvDesc \/ RecvValue
  <2>1. wire # <<>> /\ wire' = Tail(wire) /\ UNCHANGED <<kind, todo, peek, batch>>
    BY <1>20 DEF RecvDesc, RecvValue
  <2> QED
    BY <1>2, <1>3, <2>1, TailElements, SMTT(30) DEF KindsAgree, OfItsKind
<1>21. CASE RecvFails \/ EndOfFile \/ ProxyKilled
  BY <1>3, <1>21 DEF RecvFails, EndOfFile, ProxyKilled, Close, KindsAgree, OfItsKind
<1>22. CASE UNCHANGED vars
  BY <1>4, <1>22 DEF vars
<1> QED
  BY <1>5, <1>6, <1>7, <1>8, <1>9, <1>11, <1>12, <1>13, <1>14, <1>15, <1>16, <1>17, <1>18,
     <1>19, <1>20, <1>21, <1>22, Steps

-----------------------------------------------------------------------------
\* Every increment is in the table, in a batch, in the socket or at the proxy.
LEMMA ConservedNext ==
  TypeOK /\ KindsAgree /\ Unlinked /\ ConservedAll /\ [Next]_vars => ConservedAll'
<1> SUFFICES ASSUME TypeOK, KindsAgree, Unlinked, ConservedAll, [Next]_vars,
                    server' # "closed", NEW n \in Names, kind'[n] # "gauge"
             PROVE  added'[n] = total'[n] + Carried(wire', n) + Batched(n)' + val'[n]
  BY DEF ConservedAll
<1> DEFINE Balanced == added'[n] = total'[n] + Carried(wire', n) + Batched(n)' + val'[n]
<1>1. Threads \subseteq Dumpers /\ Poller \in Dumpers /\ Main \in Threads
  BY ThreadsAssumption DEF Dumpers
<1>2. /\ batch \in [Dumpers -> Seq(Commands)] /\ wire \in Seq(Commands)
      /\ total \in [Names -> Int] /\ val \in [Names -> Int] /\ added \in [Names -> Nat]
      /\ kind \in [Names -> Kinds \cup {"none"}]
  BY DEF TypeOK
<1>3. server # "closed" /\ kind[n] # "gauge"
  BY NeverUndone
<1>4. added[n] = total[n] + Carried(wire, n) + Batched(n) + val[n]
  BY <1>3 DEF ConservedAll
<1>5. /\ Carried(wire, n) \in Int /\ Batched(n) \in Int
      /\ total[n] \in Int /\ val[n] \in Int /\ added[n] \in Int
  <2>1. Batched(n) \in Int
    <3> DEFINE f == [d \in Dumpers |-> Carried(batch[d], n)]
    <3>1. \A d \in Dumpers : f[d] \in Int
      BY <1>2, CarriedIsInt
    <3>2. Batched(n) = SumFunctionOnSet(f, Dumpers)
      BY DEF Batched
    <3> HIDE DEF f
    <3> QED
      BY <3>1, <3>2, DumpersFinite, SumIsInt
  <2> QED
    BY <1>2, <2>1, CarriedIsInt
<1>6. batch' = batch => Batched(n)' = Batched(n)
  BY DEF Batched
<1> HIDE DEF Balanced
<1> SUFFICES Balanced
  BY DEF Balanced
<1> USE DEF table, dumping, proxy, history, Goto
<1>7. ASSUME UNCHANGED <<val, added, batch, wire, total>>
      PROVE  Balanced
  BY <1>4, <1>6, <1>7 DEF Balanced
<1>8. ASSUME NEW t \in Threads, NEW m \in Names, NEW k \in Kinds,
             NEW op \in {"new", "count", "release"}, Call(t, op, m, k)
      PROVE  Balanced
  BY <1>7, <1>8 DEF Call
<1>9. ASSUME NEW x \in Names, Inc(x), UNCHANGED <<batch, total>>,
             Carried(wire', n) = Carried(wire, n)
      PROVE  Balanced
  <2>1. \/ val'[n] = val[n] /\ added'[n] = added[n]
        \/ val'[n] = val[n] + 1 /\ added'[n] = added[n] + 1
    BY <1>9, IncEffect
  <2> QED
    BY <1>4, <1>5, <1>6, <1>9, <2>1 DEF Balanced
<1>10. ASSUME NEW t \in Threads, NEW x \in Names, CounterInc(t, x)
       PROVE  Balanced
  BY <1>9, <1>10 DEF CounterInc
<1>11. ASSUME NEW t \in Threads, NEW x \in Names, GaugeSet(t, x)
       PROVE  Balanced
  <2>1. x # n /\ val'[n] = val[n]
    BY <1>2, <1>3, <1>11 DEF GaugeSet
  <2> QED
    BY <1>4, <1>6, <1>11, <2>1 DEF Balanced, GaugeSet
<1>12. ASSUME NEW t \in Threads, Insert(t) \/ DescribeFails(t) \/ Stop(t)
       PROVE  Balanced
  BY <1>7, <1>12 DEF Insert, DescribeFails, Stop
<1>13. ASSUME NEW t \in Threads, Describe(t)
       PROVE  Balanced
  <2> DEFINE m == Desc(call[t].name, call[t].kind)
  <2>1. m \in Commands /\ Weight(m, n) = 0 /\ call[t].name \in Names
    BY DEF Desc, Commands, TypeOK, Weight, ValueFor
  <2>2. wire' = Append(wire, m) /\ UNCHANGED <<batch, total>>
    BY <1>13 DEF Describe
  <2> HIDE DEF m
  <2>3. Carried(wire', n) = Carried(wire, n)
    BY <1>2, <1>5, <2>1, <2>2, CarriedAppend
  <2>4. CASE call[t].op = "new"
    BY <1>4, <1>6, <1>13, <2>2, <2>3, <2>4 DEF Describe, Balanced
  <2>5. CASE call[t].op # "new"
    BY <1>9, <1>13, <2>1, <2>2, <2>3, <2>5 DEF Describe
  <2> QED
    BY <2>4, <2>5
<1>14. CASE Exit \/ Poll \/ PollerEnds
  BY <1>7, <1>14 DEF Exit, Poll, PollerEnds
<1>15. ASSUME NEW d \in Dumpers, NEW x \in Names, Peek(d, x)
       PROVE  Balanced
  BY <1>7, <1>15 DEF Peek
<1>16. ASSUME NEW d \in Dumpers, NEW x \in Names, Take(d, x)
       PROVE  Balanced
  <2> DEFINE m == Value(x, kind[x], val[x])
             b == Append(batch[d], m)
  <2>1. m \in Commands /\ Weight(m, n) = IF x = n THEN val[n] ELSE 0
    <3>1. kind[x] \in Kinds /\ val[x] \in Int
      BY <1>2, <1>16 DEF Take, KindsAgree
    <3> QED
      BY <3>1 DEF Value, Commands, Weight, ValueFor
  <2>2. /\ b \in Seq(Commands) /\ batch' = [batch EXCEPT ![d] = b]
        /\ val'[n] = IF x = n THEN 0 ELSE val[n]
        /\ UNCHANGED <<wire, total, added>>
    BY <1>2, <1>16, <2>1 DEF Take
  <2>3. Carried(b, n) = Carried(batch[d], n) + Weight(m, n)
    <3> HIDE DEF m
    <3> QED
      BY <1>2, <2>1, CarriedAppend
  <2> HIDE DEF b, m
  <2>4. Batched(n)' = Batched(n) - Carried(batch[d], n) + Carried(b, n)
    BY <1>2, <2>2, BatchedChanges
  <2>5. Carried(batch[d], n) \in Int /\ Weight(m, n) \in Int
    BY <1>2, <1>5, <2>1, CarriedIsInt
  <2> QED
    BY <1>4, <1>5, <2>1, <2>2, <2>3, <2>4, <2>5 DEF Balanced
<1>17. ASSUME NEW d \in Dumpers, EndCollect(d) \/ EndDump(d)
       PROVE  Balanced
  BY <1>7, <1>17 DEF EndCollect, EndDump
<1>18. ASSUME NEW d \in Dumpers, SendValue(d)
       PROVE  Balanced
  <2> DEFINE m == Head(batch[d])
             b == Tail(batch[d])
  <2>1. batch[d] # <<>> /\ batch[d] \in Seq(Commands)
    BY <1>2, <1>18 DEF SendValue
  <2>2. /\ Carried(batch[d], n) = Weight(m, n) + Carried(b, n)
        /\ m \in Commands /\ b \in Seq(Commands) /\ Weight(m, n) \in Int
    BY <2>1, CarriedTail
  <2>3. /\ batch' = [batch EXCEPT ![d] = b] /\ wire' = Append(wire, m)
        /\ UNCHANGED <<val, total, added>>
    BY <1>18 DEF SendValue
  <2> HIDE DEF b, m
  <2>4. Batched(n)' = Batched(n) - Carried(batch[d], n) + Carried(b, n)
    BY <1>2, <2>2, <2>3, BatchedChanges
  <2>5. Carried(wire', n) = Carried(wire, n) + Weight(m, n)
    BY <1>2, <2>2, <2>3, CarriedAppend
  <2>6. Carried(b, n) \in Int
    BY <2>2, CarriedIsInt
  <2> QED
    BY <1>4, <1>5, <2>2, <2>3, <2>4, <2>5, <2>6 DEF Balanced
<1>19. ASSUME NEW d \in Dumpers, SendValueFails(d)
       PROVE  Balanced
  BY <1>3, <1>19 DEF SendValueFails, SendFails, Unlinked
<1>20. CASE RecvDesc
  <2> DEFINE m == Head(wire)
  <2>1. wire # <<>> /\ wire' = Tail(wire) /\ m.op = "desc" /\ UNCHANGED <<val, total, added, batch>>
    BY <1>20 DEF RecvDesc
  <2>2. Weight(m, n) = 0
    BY <2>1 DEF Weight, ValueFor
  <2>3. Carried(wire, n) = Weight(m, n) + Carried(wire', n)
    BY <1>2, <2>1, CarriedTail
  <2>4. Carried(wire', n) \in Int
    BY <1>2, <2>1, CarriedTail, CarriedIsInt
  <2> HIDE DEF m
  <2> QED
    BY <1>4, <1>5, <1>6, <2>1, <2>2, <2>3, <2>4 DEF Balanced
<1>21. CASE RecvValue
  <2> DEFINE m == Head(wire)
  <2>1. /\ wire # <<>> /\ wire' = Tail(wire) /\ m.op = "value"
        /\ total' = [total EXCEPT ![m.name] = IF m.kind = "counter" THEN @ + m.v ELSE m.v]
        /\ UNCHANGED <<val, added, batch>>
    BY <1>21 DEF RecvValue
  <2>2. m \in Commands /\ Carried(wire, n) = Weight(m, n) + Carried(wire', n)
    BY <1>2, <2>1, CarriedTail
  <2>3. Carried(wire', n) \in Int
    BY <1>2, <2>1, CarriedTail, CarriedIsInt
  <2>4. m.name = n => m.kind = "counter"
    <3>1. m = wire[1] /\ 1 \in 1 .. Len(wire)
      BY <1>2, <2>1
    <3>2. m.kind = kind[m.name] /\ m.kind \in Kinds
      BY <2>1, <2>2, <3>1 DEF KindsAgree, OfItsKind, Commands
    <3> QED
      BY <1>3, <3>2 DEF Kinds
  <2> HIDE DEF m
  <2>5. m.v \in Int /\ m.name \in Names /\ Weight(m, n) = IF m.name = n THEN m.v ELSE 0
    BY <2>1, <2>2 DEF Weight, ValueFor, Commands
  <2>6. total'[n] = total[n] + Weight(m, n)
    BY <1>2, <2>1, <2>4, <2>5
  <2> QED
    BY <1>4, <1>5, <1>6, <2>1, <2>2, <2>3, <2>5, <2>6 DEF Balanced
<1>22. CASE RecvFails \/ ProxyKilled
  BY <1>22 DEF RecvFails, ProxyKilled, Close
<1>23. CASE EndOfFile
  BY <1>7, <1>23 DEF EndOfFile, Close
<1>24. CASE UNCHANGED vars
  BY <1>7, <1>24 DEF vars
<1> QED
  BY <1>8, <1>10, <1>11, <1>12, <1>13, <1>14, <1>15, <1>16, <1>17, <1>18, <1>19, <1>20, <1>21,
     <1>22, <1>23, <1>24, Steps

-----------------------------------------------------------------------------
\* A description stays known: it moves from the socket to the exporter.
LEMMA DescriptionArrives ==
  ASSUME TypeOK, RecvDesc \/ RecvValue
  PROVE  /\ wire \in Seq(Commands) /\ wire # <<>> /\ wire' = Tail(wire)
         /\ \A n \in Names : types[n] # "none" => types'[n] # "none"
         /\ wire[1].op = "desc" => types'[wire[1].name] # "none"
<1>1. wire \in Seq(Commands) /\ types \in [Names -> Kinds \cup {"none"}]
  BY DEF TypeOK
<1>2. CASE RecvValue
  BY <1>1, <1>2, TailElements DEF RecvValue
<1>3. CASE RecvDesc
  <2> DEFINE m == Head(wire)
  <2>1. /\ wire # <<>> /\ wire' = Tail(wire)
        /\ types' = IF types[m.name] = "none" THEN [types EXCEPT ![m.name] = m.kind] ELSE types
    BY <1>3 DEF RecvDesc
  <2>2. m = wire[1] /\ m \in Commands
    BY <1>1, <2>1, TailElements
  <2> HIDE DEF m
  <2>3. m.name \in Names /\ m.kind # "none"
    BY <2>2 DEF Commands, Kinds
  <2> QED
    BY <1>1, <2>1, <2>2, <2>3
<1> QED
  BY <1>2, <1>3

\* The commands in the socket: a value comes after the description of its metric.
LEMMA DescribedNext ==
  TypeOK /\ DescribedFirst /\ TouchedIsAnnounced /\ [Next]_vars => DescribedFirst'
<1> SUFFICES ASSUME TypeOK, DescribedFirst, TouchedIsAnnounced, [Next]_vars, server' = "open"
             PROVE  DescribedFirst'
  BY DEF DescribedFirst
<1>1. Threads \subseteq Dumpers
  BY DEF Dumpers
<1>2. batch \in [Dumpers -> Seq(Commands)] /\ wire \in Seq(Commands)
  BY DEF TypeOK
<1> USE DEF table, dumping, proxy, history
<1>3. server = "open"
  BY NeverUndone
<1>4. CASE UNCHANGED <<wire, types>>
  BY <1>3, <1>4 DEF DescribedFirst
<1>5. ASSUME NEW m \in Commands, wire' = Append(wire, m), UNCHANGED types,
             m.op = "value" => Announced(m.name)
      PROVE  DescribedFirst'
  <2>1. /\ Len(wire') = Len(wire) + 1 /\ Len(wire) \in Nat /\ wire'[Len(wire) + 1] = m
        /\ \A i \in 1 .. Len(wire) : wire'[i] = wire[i]
    BY <1>2, <1>5, AppendElements
  <2> SUFFICES ASSUME NEW i \in 1 .. Len(wire'), wire'[i].op = "value"
               PROVE  \/ types[wire'[i].name] # "none"
                      \/ \E j \in 1 .. i - 1 : wire'[j].op = "desc" /\ wire'[j].name = wire'[i].name
    BY <1>5 DEF DescribedFirst
  <2>2. CASE i = Len(wire) + 1
    BY <1>5, <2>1, <2>2 DEF Announced
  <2>3. CASE i \in 1 .. Len(wire)
    <3>1. wire'[i] = wire[i] /\ i - 1 \in 0 .. Len(wire)
      BY <2>1, <2>3
    <3>2. \/ types[wire[i].name] # "none"
          \/ \E j \in 1 .. i - 1 : wire[j].op = "desc" /\ wire[j].name = wire[i].name
      BY <1>3, <2>3, <3>1 DEF DescribedFirst
    <3>3. \A j \in 1 .. i - 1 : wire'[j] = wire[j]
      BY <2>1, <3>1
    <3> QED
      BY <3>1, <3>2, <3>3
  <2> QED
    BY <2>1, <2>2, <2>3
<1>6. ASSUME NEW t \in Threads, Describe(t)
      PROVE  DescribedFirst'
  <2> DEFINE m == Desc(call[t].name, call[t].kind)
  <2>1. m \in Commands /\ m.op # "value" /\ wire' = Append(wire, m) /\ UNCHANGED types
    BY <1>6 DEF Describe, Desc, Commands, TypeOK
  <2> QED
    BY <1>5, <2>1
<1>7. ASSUME NEW d \in Dumpers, SendValue(d)
      PROVE  DescribedFirst'
  <2> DEFINE m == Head(batch[d])
  <2>1. batch[d] \in Seq(Commands) /\ batch[d] # <<>>
    BY <1>2, <1>7 DEF SendValue
  <2>2. m \in Commands /\ m = batch[d][1] /\ 1 \in 1 .. Len(batch[d])
    BY <2>1
  <2>3. m.name \in Names /\ Touched(m.name)
    BY <2>2 DEF Commands, Touched
  <2>4. Announced(m.name)
    BY <1>3, <2>3 DEF TouchedIsAnnounced
  <2>5. wire' = Append(wire, m) /\ UNCHANGED types
    BY <1>7 DEF SendValue
  <2> QED
    BY <1>5, <2>2, <2>4, <2>5
<1>8. CASE RecvDesc \/ RecvValue
  <2>1. /\ wire # <<>> /\ wire' = Tail(wire)
        /\ \A n \in Names : types[n] # "none" => types'[n] # "none"
        /\ wire[1].op = "desc" => types'[wire[1].name] # "none"
    BY <1>8, DescriptionArrives
  <2>2. /\ Len(wire') = Len(wire) - 1 /\ Len(wire) \in Nat \ {0}
        /\ \A i \in 1 .. Len(wire) - 1 : wire'[i] = wire[i + 1]
    BY <1>2, <2>1, TailElements
  <2> SUFFICES ASSUME NEW i \in 1 .. Len(wire'), wire'[i].op = "value"
               PROVE  \/ types'[wire'[i].name] # "none"
                      \/ \E j \in 1 .. i - 1 : wire'[j].op = "desc" /\ wire'[j].name = wire'[i].name
    BY DEF DescribedFirst
  <2>3. wire'[i] = wire[i + 1] /\ i + 1 \in 1 .. Len(wire) /\ i - 1 \in Nat
    BY <2>2
  <2>4. wire[i + 1] \in Commands
    BY <1>2, <2>3
  <2>5. wire[i + 1].name \in Names
    BY <2>4 DEF Commands
  <2>6. \/ types[wire[i + 1].name] # "none"
        \/ \E j \in 1 .. (i + 1) - 1 : wire[j].op = "desc" /\ wire[j].name = wire[i + 1].name
    BY <1>3, <2>3 DEF DescribedFirst
  <2>7. CASE types[wire[i + 1].name] # "none"
    BY <2>1, <2>3, <2>5, <2>7
  <2>8. ASSUME NEW j \in 1 .. i, wire[j].op = "desc", wire[j].name = wire[i + 1].name
        PROVE  \/ types'[wire'[i].name] # "none"
               \/ \E k \in 1 .. i - 1 : wire'[k].op = "desc" /\ wire'[k].name = wire'[i].name
    <3>1. CASE j = 1
      BY <2>1, <2>3, <2>8, <3>1
    <3>2. CASE j # 1
      <4>1. j - 1 \in 1 .. i - 1 /\ wire'[j - 1] = wire[j]
        BY <2>2, <3>2
      <4> QED
        BY <2>3, <2>8, <4>1
    <3> QED
      BY <3>1, <3>2
  <2>9. (i + 1) - 1 = i
    BY <2>3
  <2> QED
    BY <2>6, <2>7, <2>8, <2>9
<1>9. UNCHANGED <<wire, types>> \/ RecvDesc \/ RecvValue
        \/ (\E t \in Threads : Describe(t)) \/ (\E d \in Dumpers : SendValue(d))
  BY Steps DEF Call, CounterInc, GaugeSet, Insert, DescribeFails, Stop, Peek, Take,
       EndCollect, EndDump, SendValueFails, Exit, Poll, PollerEnds,
       RecvFails, EndOfFile, ProxyKilled, Close, vars
<1> QED
  BY <1>4, <1>6, <1>7, <1>8, <1>9

\* What can be changed, was changed or is being sent has been described.
LEMMA TouchedNext ==
  TypeOK /\ TouchedIsAnnounced /\ [Next]_vars => TouchedIsAnnounced'
<1> SUFFICES ASSUME TypeOK, TouchedIsAnnounced, [Next]_vars, server' = "open",
                    NEW n \in Names, Touched(n)'
             PROVE  Announced(n)'
  BY DEF TouchedIsAnnounced
<1>1. Threads \subseteq Dumpers
  BY DEF Dumpers
<1>2. /\ batch \in [Dumpers -> Seq(Commands)] /\ wire \in Seq(Commands)
      /\ peek \in [Dumpers -> SUBSET Names] /\ val \in [Names -> Int]
      /\ hits \in [Names -> BOOLEAN]
  BY DEF TypeOK
<1> USE DEF table, dumping, proxy, history
<1>3. server = "open"
  BY NeverUndone
<1>4. Touched(n) => Announced(n)
  BY <1>3 DEF TouchedIsAnnounced
<1>5. ASSUME UNCHANGED <<wire, types>>, Touched(n)
      PROVE  Announced(n)'
  BY <1>4, <1>5 DEF Announced
<1>6. ASSUME NEW m \in Commands, wire' = Append(wire, m), UNCHANGED types,
             Touched(n) \/ (m.op = "desc" /\ m.name = n)
      PROVE  Announced(n)'
  <2>1. /\ Len(wire') = Len(wire) + 1 /\ Len(wire) \in Nat /\ wire'[Len(wire) + 1] = m
        /\ \A i \in 1 .. Len(wire) : wire'[i] = wire[i] /\ i \in 1 .. Len(wire')
    BY <1>2, <1>6, AppendElements
  <2>2. Len(wire) + 1 \in 1 .. Len(wire')
    BY <2>1
  <2> QED
    BY <1>4, <1>6, <2>1, <2>2 DEF Announced
<1>7. CASE UNCHANGED <<val, hits, handle, peek, batch, wire, types>>
  BY <1>5, <1>7 DEF Touched
<1>8. ASSUME NEW t \in Threads, NEW x \in Names, CounterInc(t, x)
      PROVE  Announced(n)'
  <2>1. /\ Inc(x) /\ x \in handle /\ UNCHANGED <<hits, handle, peek, batch, wire, types>>
    BY <1>8 DEF CounterInc
  <2>2. x # n => val'[n] = val[n]
    BY <2>1, IncEffect
  <2> QED
    BY <1>5, <2>1, <2>2 DEF Touched
<1>9. ASSUME NEW t \in Threads, NEW x \in Names, GaugeSet(t, x)
      PROVE  Announced(n)'
  <2>1. /\ x \in handle /\ UNCHANGED <<handle, peek, batch, wire, types>>
        /\ x # n => val'[n] = val[n] /\ hits'[n] = hits[n]
    BY <1>2, <1>9 DEF GaugeSet
  <2> QED
    BY <1>5, <2>1 DEF Touched
<1>10. ASSUME NEW t \in Threads, Describe(t)
       PROVE  Announced(n)'
  <2> DEFINE x == call[t].name
             m == Desc(x, call[t].kind)
  <2>1. /\ m \in Commands /\ m.op = "desc" /\ m.name = x /\ x \in Names
        /\ wire' = Append(wire, m) /\ UNCHANGED <<hits, peek, batch, types>>
    BY <1>10 DEF Describe, Desc, Commands, TypeOK
  <2>2. x # n => val'[n] = val[n] /\ (n \in handle' => n \in handle)
    <3>1. CASE call[t].op = "new"
      BY <1>10, <3>1 DEF Describe
    <3>2. CASE call[t].op # "new"
      <4>1. Inc(x) /\ UNCHANGED handle
        BY <1>10, <3>2 DEF Describe
      <4> QED
        BY <2>1, <4>1, IncEffect
    <3> QED
      BY <3>1, <3>2
  <2> HIDE DEF m, x
  <2>3. x # n => Touched(n)
    BY <2>1, <2>2 DEF Touched
  <2> QED
    BY <1>6, <2>1, <2>3
<1>11. ASSUME NEW d \in Dumpers, NEW x \in Names, Peek(d, x)
       PROVE  Announced(n)'
  <2>1. /\ UNCHANGED <<val, hits, handle, batch, wire, types>>
        /\ \A e \in Dumpers : n \in peek'[e] => n \in peek[e] \/ (n = x /\ Updated(n))
    BY <1>2, <1>11 DEF Peek
  <2>2. Updated(n) => val[n] # 0 \/ hits[n]
    BY <1>2 DEF Updated
  <2> QED
    BY <1>5, <2>1, <2>2 DEF Touched
<1>12. ASSUME NEW d \in Dumpers, NEW x \in Names, Take(d, x)
       PROVE  Announced(n)'
  <2> DEFINE m == Value(x, kind[x], val[x])
             b == Append(batch[d], m)
  <2>1. /\ x \in peek[d] /\ UNCHANGED <<handle, wire, types>>
        /\ batch' = [batch EXCEPT ![d] = b] /\ m.name = x
        /\ val' = [val EXCEPT ![x] = 0] /\ hits' = [hits EXCEPT ![x] = FALSE]
        /\ peek' = [peek EXCEPT ![d] = {}]
    BY <1>12 DEF Take, Value
  <2>2. \A i \in 1 .. Len(b) : b[i].name = n =>
          n = x \/ \E j \in 1 .. Len(batch[d]) : batch[d][j].name = n
    <3>1. batch[d] \in Seq(Commands)
      BY <1>2
    <3>2. \A i \in 1 .. Len(b) : (i \in 1 .. Len(batch[d]) /\ b[i] = batch[d][i]) \/ b[i] = m
      <4> HIDE DEF m
      <4> QED
        BY <3>1
    <3> QED
      BY <2>1, <3>2
  <2> HIDE DEF b, m
  <2>3. Touched(n)
    <3>1. CASE n = x
      BY <2>1, <3>1 DEF Touched
    <3>2. CASE n # x
      BY <1>2, <2>1, <2>2, <3>2 DEF Touched
    <3> QED
      BY <3>1, <3>2
  <2> QED
    BY <1>5, <2>1, <2>3
<1>13. ASSUME NEW d \in Dumpers, SendValue(d)
       PROVE  Announced(n)'
  <2> DEFINE m == Head(batch[d])
             b == Tail(batch[d])
  <2>1. batch[d] \in Seq(Commands) /\ batch[d] # <<>>
    BY <1>2, <1>13 DEF SendValue
  <2>2. m \in Commands /\ \A i \in 1 .. Len(b) : i + 1 \in 1 .. Len(batch[d]) /\ b[i] = batch[d][i + 1]
    BY <2>1
  <2>3. /\ UNCHANGED <<val, hits, handle, peek, types>>
        /\ wire' = Append(wire, m) /\ batch' = [batch EXCEPT ![d] = b]
    BY <1>13 DEF SendValue
  <2> HIDE DEF m, b
  <2>4. Touched(n)
    BY <1>2, <2>2, <2>3 DEF Touched
  <2> QED
    BY <1>6, <2>2, <2>3, <2>4
<1>14. ASSUME NEW d \in Dumpers, SendValueFails(d)
       PROVE  Announced(n)'
  <2>1. /\ batch' = [batch EXCEPT ![d] = <<>>]
        /\ UNCHANGED <<val, hits, handle, peek, wire, types>>
    BY <1>14 DEF SendValueFails
  <2> QED
    BY <1>2, <1>5, <2>1 DEF Touched
<1>15. CASE RecvDesc \/ RecvValue
  <2>1. /\ wire # <<>> /\ wire' = Tail(wire)
        /\ types[n] # "none" => types'[n] # "none"
        /\ wire[1].op = "desc" => types'[wire[1].name] # "none"
        /\ UNCHANGED <<val, hits, handle, peek, batch>>
    BY <1>15, DescriptionArrives DEF RecvDesc, RecvValue
  <2>2. /\ Len(wire') = Len(wire) - 1 /\ Len(wire) \in Nat \ {0}
        /\ \A i \in 1 .. Len(wire) - 1 : wire'[i] = wire[i + 1]
    BY <1>2, <2>1, TailElements
  <2>3. Announced(n)
    BY <1>4, <2>1 DEF Touched
  <2>4. ASSUME NEW j \in 1 .. Len(wire), wire[j].op = "desc", wire[j].name = n
        PROVE  Announced(n)'
    <3>1. CASE j = 1
      BY <2>1, <2>4, <3>1 DEF Announced
    <3>2. CASE j # 1
      <4>1. j - 1 \in 1 .. Len(wire') /\ wire'[j - 1] = wire[j]
        BY <2>2, <3>2
      <4> QED
        BY <2>4, <4>1 DEF Announced
    <3> QED
      BY <3>1, <3>2
  <2> QED
    BY <2>1, <2>3, <2>4 DEF Announced
<1>16. \/ UNCHANGED <<val, hits, handle, peek, batch, wire, types>>
       \/ \E t \in Threads, x \in Names : CounterInc(t, x) \/ GaugeSet(t, x)
       \/ \E t \in Threads : Describe(t)
       \/ \E d \in Dumpers, x \in Names : Peek(d, x) \/ Take(d, x)
       \/ \E d \in Dumpers : SendValue(d) \/ SendValueFails(d)
       \/ RecvDesc \/ RecvValue
  BY Steps DEF Call, Insert, DescribeFails, Stop, EndCollect, EndDump, Exit, Poll, PollerEnds,
       RecvFails, EndOfFile, ProxyKilled, Close, vars
<1> QED
  BY <1>7, <1>8, <1>9, <1>10, <1>11, <1>12, <1>13, <1>14, <1>15, <1>16

-----------------------------------------------------------------------------
\* There are no values without an entry, and a dump visits one entry at a time.
LEMMA EntriesNext ==
  TypeOK /\ KindsAgree /\ ValuesOfEntries /\ OnePeek /\ [Next]_vars => ValuesOfEntries' /\ OnePeek'
<1> SUFFICES ASSUME TypeOK, KindsAgree, ValuesOfEntries, OnePeek, [Next]_vars
             PROVE  ValuesOfEntries' /\ OnePeek'
  OBVIOUS
<1>1. /\ peek \in [Dumpers -> SUBSET Names] /\ val \in [Names -> Int]
      /\ kind \in [Names -> Kinds \cup {"none"}]
  BY DEF TypeOK
<1> USE DEF table, dumping, proxy, history
<1>2. CASE UNCHANGED <<val, kind, peek>>
  BY <1>2 DEF ValuesOfEntries, OnePeek
<1>3. ASSUME NEW x \in Names, Inc(x), UNCHANGED <<kind, peek>>
      PROVE  ValuesOfEntries' /\ OnePeek'
  <2>1. \A n \in Names : val'[n] = val[n] \/ kind[n] = "counter"
    BY <1>3, IncEffect
  <2> QED
    BY <1>3, <2>1 DEF ValuesOfEntries, OnePeek
<1>4. ASSUME NEW t \in Threads, NEW x \in Names, CounterInc(t, x)
      PROVE  ValuesOfEntries' /\ OnePeek'
  BY <1>3, <1>4 DEF CounterInc
<1>5. ASSUME NEW t \in Threads, NEW x \in Names, GaugeSet(t, x)
      PROVE  ValuesOfEntries' /\ OnePeek'
  BY <1>1, <1>5 DEF GaugeSet, ValuesOfEntries, OnePeek
<1>6. ASSUME NEW t \in Threads, Insert(t)
      PROVE  ValuesOfEntries' /\ OnePeek'
  BY <1>1, <1>6 DEF Insert, ValuesOfEntries, OnePeek
<1>7. ASSUME NEW t \in Threads, Describe(t)
      PROVE  ValuesOfEntries' /\ OnePeek'
  <2>1. CASE call[t].op = "new"
    BY <1>2, <1>7, <2>1 DEF Describe
  <2>2. CASE call[t].op # "new"
    <3>1. call[t].name \in Names
      BY DEF TypeOK
    <3> QED
      BY <1>3, <1>7, <2>2, <3>1 DEF Describe
  <2> QED
    BY <2>1, <2>2
<1>8. ASSUME NEW d \in Dumpers, NEW x \in Names, Peek(d, x) \/ Take(d, x)
      PROVE  ValuesOfEntries' /\ OnePeek'
  BY <1>1, <1>8 DEF Peek, Take, ValuesOfEntries, OnePeek
<1>9. \/ UNCHANGED <<val, kind, peek>>
      \/ \E t \in Threads, x \in Names : CounterInc(t, x) \/ GaugeSet(t, x)
      \/ \E t \in Threads : Insert(t) \/ Describe(t)
      \/ \E d \in Dumpers, x \in Names : Peek(d, x) \/ Take(d, x)
  BY Steps DEF Call, DescribeFails, Stop, EndCollect, SendValue, EndDump, SendValueFails, Exit,
       Poll, PollerEnds, RecvDesc, RecvValue, RecvFails, EndOfFile, ProxyKilled, Close, vars
<1> QED
  BY <1>2, <1>4, <1>5, <1>6, <1>7, <1>8, <1>9

\* What the destructor has gone past holds no more than was added since it started.
LEMMA CollectedNext ==
  TypeOK /\ Phases /\ KindsAgree /\ CollectedOnExit /\ ValuesOfEntries /\ OnePeek /\ [Next]_vars
    => CollectedOnExit'
<1> SUFFICES ASSUME TypeOK, Phases, KindsAgree, CollectedOnExit, ValuesOfEntries, OnePeek, [Next]_vars,
                    call'[Main].op = "exit", NEW n \in Names, kind'[n] # "gauge",
                    n \notin todo'[Main] \cup peek'[Main]
             PROVE  val'[n] <= late'[n]
  BY DEF CollectedOnExit
<1>1. Threads \subseteq Dumpers /\ Main \in Threads /\ Poller \in Dumpers /\ Main # Poller
  BY ThreadsAssumption DEF Dumpers
<1>2. /\ val \in [Names -> Int] /\ late \in [Names -> Nat]
      /\ todo \in [Dumpers -> SUBSET Names] /\ peek \in [Dumpers -> SUBSET Names]
      /\ kind \in [Names -> Kinds \cup {"none"}]
      /\ call \in [Threads -> [op : {"none", "new", "count", "release", "exit"},
                               name : Names, kind : Kinds]]
  BY DEF TypeOK
<1> USE DEF table, dumping, proxy, history
<1>3. kind[n] # "gauge"
  BY NeverUndone
<1>4. call[Main].op = "exit" /\ n \notin todo[Main] \cup peek[Main] => val[n] <= late[n]
  BY <1>3 DEF CollectedOnExit
<1>5. CASE UNCHANGED <<call, todo, peek, val, late>>
  BY <1>4, <1>5
<1>6. ASSUME NEW t \in Threads, NEW x \in Names, NEW k \in Kinds,
             NEW op \in {"new", "count", "release"}, Call(t, op, x, k)
      PROVE  val'[n] <= late'[n]
  <2>1. call[Main].op = "exit"
    BY <1>1, <1>2, <1>6 DEF Call
  <2> QED
    BY <1>4, <1>6, <2>1 DEF Call
<1>7. ASSUME NEW x \in Names, Inc(x), call[Main].op = "exit", UNCHANGED <<todo, peek>>
      PROVE  val'[n] <= late'[n]
  <2>1. val[n] <= late[n] /\ val[n] \in Int /\ late[n] \in Int
    BY <1>2, <1>4, <1>7
  <2>2. \/ val'[n] = val[n] /\ late'[n] = late[n]
        \/ val'[n] = val[n] + 1 /\ late'[n] = late[n] + 1
    BY <1>7, IncEffect
  <2> QED
    BY <2>1, <2>2
<1>8. ASSUME NEW t \in Threads, NEW x \in Names, CounterInc(t, x)
      PROVE  val'[n] <= late'[n]
  BY <1>7, <1>8 DEF CounterInc
<1>9. ASSUME NEW t \in Threads, NEW x \in Names, GaugeSet(t, x)
      PROVE  val'[n] <= late'[n]
  <2>1. x # n
    BY <1>3, <1>9 DEF GaugeSet
  <2> QED
    BY <1>2, <1>4, <1>9, <2>1 DEF GaugeSet
<1>10. ASSUME NEW t \in Threads, Return(t)
       PROVE  call[Main].op = "exit"
  <2>1. NoCall.op # "exit"
    BY DEF NoCall
  <2>2. CASE call[t].op = "release"
    BY <1>10, <2>2 DEF Return
  <2>3. CASE call[t].op # "release"
    <3>1. call' = [call EXCEPT ![t] = NoCall]
      BY <1>10, <2>3 DEF Return
    <3> QED
      BY <1>1, <1>2, <2>1, <3>1
  <2> QED
    BY <2>2, <2>3
<1>11. ASSUME NEW t \in Threads, Describe(t)
       PROVE  val'[n] <= late'[n]
  <2>1. call[Main].op = "exit"
    BY <1>10, <1>11 DEF Describe
  <2>2. CASE call[t].op = "new"
    BY <1>4, <1>11, <2>1, <2>2 DEF Describe
  <2>3. CASE call[t].op # "new"
    <3>1. call[t].name \in Names
      BY <1>2
    <3> QED
      BY <1>7, <1>11, <2>1, <2>3, <3>1 DEF Describe
  <2> QED
    BY <2>2, <2>3
<1>12. ASSUME NEW t \in Threads, DescribeFails(t)
       PROVE  val'[n] <= late'[n]
  <2>1. call[Main].op = "exit"
    BY <1>10, <1>12 DEF DescribeFails
  <2> QED
    BY <1>4, <1>12, <2>1 DEF DescribeFails
<1>13. ASSUME NEW d \in Dumpers, d # Main, StartDump(d), UNCHANGED <<call, peek, val, late>>
       PROVE  val'[n] <= late'[n]
  <2>1. todo'[Main] = todo[Main]
    BY <1>1, <1>2, <1>13 DEF StartDump
  <2> QED
    BY <1>4, <1>13, <2>1
<1>14. ASSUME NEW t \in Threads, Stop(t)
       PROVE  val'[n] <= late'[n]
  <2>1. t # Main
    BY <1>14 DEF Stop, Phases, Dumping
  <2> QED
    BY <1>1, <1>13, <1>14, <2>1 DEF Stop
<1>15. CASE Poll
  BY <1>1, <1>13, <1>15 DEF Poll
<1>16. CASE Exit
  <2>1. todo'[Main] = {m \in Names : kind[m] # "none"} /\ UNCHANGED <<val, late, kind>>
    BY <1>1, <1>2, <1>16 DEF Exit, StartDump
  <2>2. kind[n] = "none"
    BY <2>1
  <2>3. val[n] = 0
    BY <2>2 DEF ValuesOfEntries
  <2> QED
    BY <1>2, <2>1, <2>3
<1>17. ASSUME NEW d \in Dumpers, NEW x \in Names, Peek(d, x)
       PROVE  val'[n] <= late'[n]
  <2>1. UNCHANGED <<val, late, call, kind>>
    BY <1>17 DEF Peek
  <2>2. CASE d = Main /\ x = n
    <3>1. n \in todo[Main] /\ ~Updated(n)
      BY <1>1, <1>2, <1>17, <2>2 DEF Peek
    <3>2. kind[n] = "counter"
      BY <1>1, <1>2, <1>3, <3>1 DEF KindsAgree, Kinds
    <3>3. ~(val[n] > 0)
      BY <3>1, <3>2 DEF Updated
    <3> QED
      BY <1>2, <2>1, <3>3
  <2>3. CASE ~(d = Main /\ x = n)
    <3>1. n \notin todo[Main]
      BY <1>1, <1>2, <1>17, <2>3 DEF Peek
    <3>2. n \notin peek[Main]
      BY <1>1, <1>2, <1>17, <2>3 DEF Peek
    <3> QED
      BY <1>4, <2>1, <3>1, <3>2
  <2> QED
    BY <2>2, <2>3
<1>18. ASSUME NEW d \in Dumpers, NEW x \in Names, Take(d, x)
       PROVE  val'[n] <= late'[n]
  <2>1. CASE x = n
    BY <1>2, <1>18, <2>1 DEF Take
  <2>2. CASE x # n
    <3>1. /\ val'[n] = val[n] /\ UNCHANGED <<late, call, todo>>
          /\ peek' = [peek EXCEPT ![d] = {}] /\ x \in peek[d]
      BY <1>2, <1>18, <2>2 DEF Take
    <3>2. n \notin peek[Main]
      BY <1>1, <1>2, <2>2, <3>1 DEF OnePeek
    <3> QED
      BY <1>4, <3>1, <3>2
  <2> QED
    BY <2>1, <2>2
<1>19. ASSUME NEW d \in Dumpers, alive, Leave(d), UNCHANGED <<val, late, todo, peek>>
       PROVE  val'[n] <= late'[n]
  <2>1. call[Main].op = "exit"
    <3>1. CASE call' = call
      BY <3>1
    <3>2. CASE call' # call
      <4>1. d \in Threads /\ call' = [call EXCEPT ![d] = NoCall]
        BY <1>19, <3>2 DEF Leave, Dumpers
      <4>2. NoCall.op # "exit"
        BY DEF NoCall
      <4> QED
        BY <1>1, <1>2, <4>1, <4>2
    <3> QED
      BY <3>1, <3>2
  <2> QED
    BY <1>4, <1>19, <2>1
<1>20. ASSUME NEW d \in Dumpers, EndDump(d)
       PROVE  val'[n] <= late'[n]
  BY <1>19, <1>20 DEF EndDump
<1>21. ASSUME NEW d \in Dumpers, SendValueFails(d)
       PROVE  val'[n] <= late'[n]
  <2>1. CASE d = Poller
    BY <1>5, <1>21, <2>1 DEF SendValueFails
  <2>2. CASE d # Poller
    BY <1>19, <1>21, <2>2 DEF SendValueFails
  <2> QED
    BY <2>1, <2>2
<1>22. \/ UNCHANGED <<call, todo, peek, val, late>>
       \/ \E t \in Threads, x \in Names, k \in Kinds, op \in {"new", "count", "release"} :
            Call(t, op, x, k)
       \/ \E t \in Threads, x \in Names : CounterInc(t, x) \/ GaugeSet(t, x)
       \/ \E t \in Threads : Describe(t) \/ DescribeFails(t) \/ Stop(t)
       \/ \E d \in Dumpers, x \in Names : Peek(d, x) \/ Take(d, x)
       \/ \E d \in Dumpers : EndDump(d) \/ SendValueFails(d)
       \/ Exit \/ Poll
  BY Steps DEF Insert, EndCollect, SendValue, PollerEnds, RecvDesc, RecvValue,
       RecvFails, EndOfFile, ProxyKilled, Close, vars
<1> QED
  BY <1>5, <1>6, <1>8, <1>9, <1>11, <1>12, <1>14, <1>15, <1>16, <1>17, <1>18, <1>20, <1>21, <1>22

-----------------------------------------------------------------------------
\* Without overlap one dump is under way at a time, and no other clears what it has found.
LEMMA OneDumpNext == TypeOK /\ Phases /\ KindsAgree /\ OneDump /\ [Next]_vars => OneDump'
<1> SUFFICES ASSUME TypeOK, Phases, KindsAgree, OneDump, [Next]_vars, ~overlap' PROVE OneDump'
  BY DEF OneDump
<1>1. Threads \subseteq Dumpers /\ Main \in Threads /\ Poller \in Dumpers
  BY ThreadsAssumption DEF Dumpers
<1>2. /\ pc \in [Dumpers -> {"idle", "insert", "describe", "stop", "collect", "send", "ended"}]
      /\ peek \in [Dumpers -> SUBSET Names] /\ hits \in [Names -> BOOLEAN]
      /\ kind \in [Names -> Kinds \cup {"none"}]
  BY DEF TypeOK
<1> USE DEF table, dumping, proxy, history, Goto
<1>3. ~overlap
  BY NeverUndone
<1>4. /\ \A d, e \in Dumpers : Dumping(d) /\ Dumping(e) => d = e
      /\ \A d \in Dumpers : \A n \in peek[d] : kind[n] = "gauge" => hits[n]
  BY <1>3 DEF OneDump
<1>5. \A d, e \in Dumpers : Dumping(d)' /\ Dumping(e)' => d = e
  <2>1. CASE \A d \in Dumpers : Dumping(d)' => Dumping(d)
    BY <1>4, <2>1
  <2>2. ASSUME NEW d \in Dumpers, StartDump(d)
        PROVE  \A e \in Dumpers : Dumping(e)' => e = d
    BY <1>2, <2>2 DEF StartDump, Dumping
  <2>3. ASSUME NEW t \in Threads, NEW n \in Names, NEW k \in Kinds,
               NEW op \in {"new", "count", "release"}, Call(t, op, n, k)
        PROVE  \A d \in Dumpers : Dumping(d)' => Dumping(d)
    BY <1>1, <1>2, <2>3 DEF Call, Dumping
  <2>4. ASSUME NEW t \in Threads, Insert(t) \/ Describe(t) \/ DescribeFails(t)
        PROVE  \A d \in Dumpers : Dumping(d)' => Dumping(d)
    BY <1>1, <1>2, <2>4 DEF Insert, Describe, DescribeFails, Return, Dumping
  <2>5. ASSUME NEW d \in Dumpers, EndCollect(d) \/ EndDump(d) \/ SendValueFails(d)
        PROVE  \A e \in Dumpers : Dumping(e)' => Dumping(e)
    BY <1>2, <2>5 DEF EndCollect, EndDump, SendValueFails, Leave, Dumping
  <2>6. CASE PollerEnds
    BY <1>1, <1>2, <1>4, <2>6 DEF PollerEnds, Dumping
  <2>7. UNCHANGED pc => \A d \in Dumpers : Dumping(d)' => Dumping(d)
    BY DEF Dumping
  <2>8. \/ UNCHANGED pc \/ \E d \in Dumpers : StartDump(d)
        \/ \E t \in Threads, n \in Names, k \in Kinds, op \in {"new", "count", "release"} :
             Call(t, op, n, k)
        \/ \E t \in Threads : Insert(t) \/ Describe(t) \/ DescribeFails(t)
        \/ \E d \in Dumpers : EndCollect(d) \/ EndDump(d) \/ SendValueFails(d)
        \/ PollerEnds
    BY <1>1, Steps DEF CounterInc, GaugeSet, Stop, Peek, Take,
         SendValue, Exit, Poll, RecvDesc, RecvValue,
         RecvFails, EndOfFile, ProxyKilled, Close, vars
  <2> QED
    BY <2>1, <2>2, <2>3, <2>4, <2>5, <2>6, <2>7, <2>8
<1>6. \A d \in Dumpers : \A n \in peek'[d] : kind'[n] = "gauge" => hits'[n]
  <2>1. CASE UNCHANGED <<peek, kind, hits>>
    BY <1>4, <2>1
  <2>2. ASSUME NEW t \in Threads, NEW x \in Names, GaugeSet(t, x)
        PROVE  \A d \in Dumpers : \A n \in peek'[d] : kind'[n] = "gauge" => hits'[n]
    BY <1>2, <1>4, <2>2 DEF GaugeSet
  <2>3. ASSUME NEW t \in Threads, Insert(t)
        PROVE  \A d \in Dumpers : \A n \in peek'[d] : kind'[n] = "gauge" => hits'[n]
    BY <1>2, <1>4, <2>3 DEF Insert, KindsAgree
  <2>4. ASSUME NEW d \in Dumpers, NEW x \in Names, Peek(d, x)
        PROVE  \A e \in Dumpers : \A n \in peek'[e] : kind'[n] = "gauge" => hits'[n]
    BY <1>2, <1>4, <2>4 DEF Peek, Updated
  <2>5. ASSUME NEW d \in Dumpers, NEW x \in Names, Take(d, x)
        PROVE  \A e \in Dumpers : \A n \in peek'[e] : kind'[n] = "gauge" => hits'[n]
    <3>1. \A e \in Dumpers : e # d => peek[e] = {}
      BY <1>4, <2>5 DEF Take, Dumping, Phases
    <3>2. \A e \in Dumpers : peek'[e] = {}
      BY <1>2, <2>5, <3>1 DEF Take
    <3> QED
      BY <3>2
  <2>6. \/ UNCHANGED <<peek, kind, hits>>
        \/ \E t \in Threads, x \in Names : GaugeSet(t, x)
        \/ \E t \in Threads : Insert(t)
        \/ \E d \in Dumpers, x \in Names : Peek(d, x) \/ Take(d, x)
    BY Steps DEF Call, CounterInc, Describe, DescribeFails, Stop, EndCollect, SendValue, EndDump,
       SendValueFails, Exit, Poll, PollerEnds, RecvDesc, RecvValue,
       RecvFails, EndOfFile, ProxyKilled, Close, vars
  <2> QED
    BY <2>1, <2>2, <2>3, <2>4, <2>5, <2>6
<1> QED
  BY <1>5, <1>6 DEF OneDump

\* The newest value for n in a sequence that gets a command at its end.
LEMMA NewestAppend ==
  ASSUME NEW s \in Seq(Commands), NEW m \in Commands, NEW n, NEW v
  PROVE  /\ ValueFor(m, n) => Newest(Append(s, m), n, m.v) /\ Carries(Append(s, m), n)
         /\ ~ValueFor(m, n) =>
              /\ Carries(Append(s, m), n) => Carries(s, n)
              /\ Carries(s, n) => Carries(Append(s, m), n)
              /\ Newest(s, n, v) => Newest(Append(s, m), n, v)
<1> DEFINE t == Append(s, m)
<1>1. /\ Len(t) = Len(s) + 1 /\ Len(s) \in Nat /\ t[Len(s) + 1] = m
      /\ \A i \in 1 .. Len(s) : t[i] = s[i]
  BY AppendElements
<1> HIDE DEF t
<1>2. Len(s) + 1 \in 1 .. Len(t) /\ (Len(s) + 1) + 1 .. Len(t) = {}
  BY <1>1
<1>3. ValueFor(m, n) => Newest(t, n, m.v) /\ Carries(t, n)
  BY <1>1, <1>2 DEF Newest, Carries
<1>4. ASSUME ~ValueFor(m, n)
      PROVE  (Carries(t, n) => Carries(s, n)) /\ (Carries(s, n) => Carries(t, n))
  BY <1>1, <1>4 DEF Carries
<1>5. ASSUME ~ValueFor(m, n), Newest(s, n, v)
      PROVE  Newest(t, n, v)
  <2>1. PICK i \in 1 .. Len(s) :
          ValueFor(s[i], n) /\ s[i].v = v /\ \A j \in i + 1 .. Len(s) : ~ValueFor(s[j], n)
    BY <1>5 DEF Newest
  <2>2. i \in 1 .. Len(t) /\ t[i] = s[i]
    BY <1>1
  <2>3. \A j \in i + 1 .. Len(t) : ~ValueFor(t[j], n)
    BY <1>1, <1>5, <2>1
  <2> QED
    BY <2>1, <2>2, <2>3 DEF Newest
<1> QED
  BY <1>3, <1>4, <1>5 DEF t

\* The newest value for n in a sequence that loses its first command.
LEMMA NewestTail ==
  ASSUME NEW s \in Seq(Commands), s # <<>>, NEW n, NEW v
  PROVE  /\ ~ValueFor(Head(s), n) =>
              /\ Carries(Tail(s), n) => Carries(s, n)
              /\ Carries(s, n) => Carries(Tail(s), n)
              /\ Newest(s, n, v) => Newest(Tail(s), n, v)
         /\ ValueFor(Head(s), n) =>
              /\ Carries(s, n)
              /\ Newest(s, n, v) => \/ Newest(Tail(s), n, v)
                                    \/ ~Carries(Tail(s), n) /\ Head(s).v = v
         /\ Newest(Tail(s), n, v) => Carries(Tail(s), n)
<1> DEFINE t == Tail(s)
           h == Head(s)
<1>1. /\ Len(t) = Len(s) - 1 /\ Len(s) \in Nat \ {0} /\ h = s[1]
      /\ \A i \in 1 .. Len(s) - 1 : t[i] = s[i + 1]
  BY TailElements
<1> HIDE DEF t, h
<1>2. \A i \in 1 .. Len(t) : i + 1 \in 1 .. Len(s) /\ t[i] = s[i + 1]
  BY <1>1
<1>3. \A i \in 1 .. Len(s) : i = 1 \/ (i - 1 \in 1 .. Len(t) /\ t[i - 1] = s[i])
  BY <1>1
<1>4. Carries(t, n) => Carries(s, n)
  BY <1>2 DEF Carries
<1>5. ~ValueFor(h, n) /\ Carries(s, n) => Carries(t, n)
  BY <1>1, <1>3 DEF Carries
<1>6. ValueFor(h, n) => Carries(s, n)
  <2>1. 1 \in 1 .. Len(s)
    BY <1>1
  <2> QED
    BY <1>1, <2>1 DEF Carries
<1>7. ASSUME Newest(s, n, v)
      PROVE  Newest(t, n, v) \/ (~Carries(t, n) /\ h.v = v /\ ValueFor(h, n))
  <2>1. PICK i \in 1 .. Len(s) :
          ValueFor(s[i], n) /\ s[i].v = v /\ \A j \in i + 1 .. Len(s) : ~ValueFor(s[j], n)
    BY <1>7 DEF Newest
  <2>2. CASE i = 1
    <3>1. \A j \in 1 .. Len(t) : ~ValueFor(t[j], n)
      BY <1>1, <1>2, <2>1, <2>2
    <3> QED
      BY <1>1, <2>1, <2>2, <3>1 DEF Carries
  <2>3. CASE i # 1
    <3>1. i - 1 \in 1 .. Len(t) /\ t[i - 1] = s[i]
      BY <1>3, <2>3
    <3>2. \A j \in (i - 1) + 1 .. Len(t) : ~ValueFor(t[j], n)
      <4> SUFFICES ASSUME NEW j \in (i - 1) + 1 .. Len(t) PROVE ~ValueFor(t[j], n)
        OBVIOUS
      <4>1. j + 1 \in i + 1 .. Len(s) /\ j \in 1 .. Len(t)
        BY <1>1, <3>1
      <4> QED
        BY <1>2, <2>1, <4>1
    <3> QED
      BY <2>1, <3>1, <3>2 DEF Newest
  <2> QED
    BY <2>2, <2>3
<1>8. Newest(t, n, v) => Carries(t, n)
  BY DEF Newest, Carries
<1> QED
  BY <1>4, <1>5, <1>6, <1>7, <1>8 DEF t, h

\* The last value a gauge was set to is the newest on its way to the proxy, or there.
LEMMA LatestNext ==
  TypeOK /\ Phases /\ Unlinked /\ KindsAgree /\ OneDump /\ LatestGauge /\ [Next]_vars
    => LatestGauge'
<1> SUFFICES ASSUME TypeOK, Phases, Unlinked, KindsAgree, OneDump, LatestGauge, [Next]_vars,
                    ~overlap', server' = "open", NEW n \in Names, kind'[n] # "counter"
             PROVE  Latest(n)'
  BY DEF LatestGauge
<1>1. Threads \subseteq Dumpers /\ Main \in Threads /\ Poller \in Dumpers
  BY ThreadsAssumption DEF Dumpers
<1>2. /\ batch \in [Dumpers -> Seq(Commands)] /\ wire \in Seq(Commands)
      /\ total \in [Names -> Int] /\ val \in [Names -> Int] /\ last \in [Names -> Int]
      /\ kind \in [Names -> Kinds \cup {"none"}] /\ hits \in [Names -> BOOLEAN]
      /\ peek \in [Dumpers -> SUBSET Names]
  BY DEF TypeOK
<1> USE DEF table, dumping, proxy, history
<1>3. ~overlap /\ server = "open" /\ kind[n] # "counter"
  BY NeverUndone
<1>4. Latest(n)
  BY <1>3 DEF LatestGauge
<1>5. \A d, e \in Dumpers : Dumping(d) /\ e # d => batch[e] = <<>>
  BY <1>3 DEF OneDump, Phases
<1>6. \A d \in Dumpers : batch[d] = <<>> => ~Carries(batch[d], n) /\ ~Newest(batch[d], n, last[n])
  BY DEF Carries, Newest
<1>7. CASE hits'[n] = hits[n] /\ val'[n] = val[n] /\ last'[n] = last[n] /\ total'[n] = total[n]
           /\ UNCHANGED <<batch, wire>>
  BY <1>4, <1>7 DEF Latest
<1>8. ASSUME NEW t \in Threads, NEW x \in Names, CounterInc(t, x)
      PROVE  Latest(n)'
  <2>1. val'[n] = val[n]
    BY <1>3, <1>8, IncEffect DEF CounterInc
  <2> QED
    BY <1>7, <1>8, <2>1 DEF CounterInc
<1>9. ASSUME NEW t \in Threads, NEW x \in Names, GaugeSet(t, x)
      PROVE  Latest(n)'
  <2>1. CASE x = n
    BY <1>2, <1>9, <2>1 DEF GaugeSet, Latest
  <2>2. CASE x # n
    BY <1>2, <1>7, <1>9, <2>2 DEF GaugeSet
  <2> QED
    BY <2>1, <2>2
<1>10. ASSUME NEW t \in Threads, Describe(t)
       PROVE  Latest(n)'
  <2> DEFINE m == Desc(call[t].name, call[t].kind)
  <2>1. m \in Commands /\ ~ValueFor(m, n) /\ call[t].name \in Names
    BY DEF Desc, Commands, TypeOK, ValueFor
  <2>2. wire' = Append(wire, m) /\ UNCHANGED <<batch, total, hits, last>>
    BY <1>10 DEF Describe
  <2>3. val'[n] = val[n]
    <3>1. CASE call[t].op = "new"
      BY <1>10, <3>1 DEF Describe
    <3>2. CASE call[t].op # "new"
      BY <1>3, <1>10, <2>1, <3>2, IncEffect DEF Describe
    <3> QED
      BY <3>1, <3>2
  <2> HIDE DEF m
  <2>4. /\ Carries(wire', n) => Carries(wire, n)
        /\ Carries(wire, n) => Carries(wire', n)
        /\ Newest(wire, n, last[n]) => Newest(wire', n, last[n])
    BY <1>2, <2>1, <2>2, NewestAppend
  <2> QED
    BY <1>4, <2>2, <2>3, <2>4 DEF Latest
<1>11. ASSUME NEW d \in Dumpers, NEW x \in Names, Take(d, x)
       PROVE  Latest(n)'
  <2> DEFINE m == Value(x, kind[x], val[x])
             b == Append(batch[d], m)
  <2>1. /\ m \in Commands /\ m.v = val[x] /\ batch[d] \in Seq(Commands)
        /\ (ValueFor(m, n) => x = n) /\ (x = n => ValueFor(m, n))
    <3>1. kind[x] \in Kinds
      BY <1>2, <1>11 DEF Take, KindsAgree
    <3> QED
      BY <1>2, <3>1 DEF Value, Commands, ValueFor
  <2>2. /\ batch' = [batch EXCEPT ![d] = b] /\ UNCHANGED <<wire, total, last>>
        /\ val' = [val EXCEPT ![x] = 0] /\ hits' = [hits EXCEPT ![x] = FALSE]
        /\ x \in peek[d]
    BY <1>11 DEF Take
  <2>3. batch'[d] = b /\ \A e \in Dumpers : e # d => batch'[e] = batch[e]
    BY <1>2, <2>2
  <2>4. CASE x = n
    <3>1. kind[n] = "gauge"
      BY <1>2, <1>3, <2>2, <2>4 DEF KindsAgree, Kinds
    <3>2. hits[n]
      BY <1>3, <2>2, <2>4, <3>1 DEF OneDump
    <3>3. val[n] = last[n]
      BY <1>4, <3>2 DEF Latest
    <3>4. Newest(b, n, last[n])
      <4> HIDE DEF m
      <4> QED
        BY <2>1, <2>4, <3>3, NewestAppend
    <3> HIDE DEF b
    <3>5. ~hits'[n] /\ last'[n] = last[n]
      BY <1>2, <2>2, <2>4
    <3> QED
      BY <2>3, <3>4, <3>5 DEF Latest
  <2>5. CASE x # n
    <3>1. /\ Carries(b, n) => Carries(batch[d], n)
          /\ Newest(batch[d], n, last[n]) => Newest(b, n, last[n])
      <4> HIDE DEF m
      <4> QED
        BY <2>1, <2>5, NewestAppend
    <3>2. hits'[n] = hits[n] /\ val'[n] = val[n] /\ UNCHANGED <<wire, total, last>>
      BY <1>2, <2>2, <2>5
    <3> HIDE DEF b
    <3> QED
      BY <1>4, <2>3, <3>1, <3>2 DEF Latest
  <2> QED
    BY <2>4, <2>5
<1>12. ASSUME NEW d \in Dumpers, SendValue(d)
       PROVE  Latest(n)'
  <2> DEFINE m == Head(batch[d])
             b == Tail(batch[d])
  <2>1. batch[d] \in Seq(Commands) /\ batch[d] # <<>> /\ Dumping(d)
    BY <1>2, <1>12 DEF SendValue, Dumping
  <2>2. /\ batch' = [batch EXCEPT ![d] = b] /\ wire' = Append(wire, m)
        /\ UNCHANGED <<val, hits, total, last>> /\ m \in Commands
    BY <1>12, <2>1, TailElements DEF SendValue
  <2>3. batch'[d] = b /\ \A e \in Dumpers : e # d => batch'[e] = batch[e] /\ batch[e] = <<>>
    BY <1>2, <1>5, <2>1, <2>2
  <2>4. /\ ~ValueFor(m, n) => /\ Carries(b, n) => Carries(batch[d], n)
                              /\ Newest(batch[d], n, last[n]) => Newest(b, n, last[n])
        /\ ValueFor(m, n) => /\ Carries(batch[d], n)
                             /\ Newest(batch[d], n, last[n]) =>
                                  Newest(b, n, last[n]) \/ (~Carries(b, n) /\ m.v = last[n])
    BY <2>1, NewestTail
  <2>5. /\ ValueFor(m, n) => Newest(wire', n, m.v) /\ Carries(wire', n)
        /\ ~ValueFor(m, n) => /\ Carries(wire', n) => Carries(wire, n)
                              /\ Carries(wire, n) => Carries(wire', n)
                              /\ Newest(wire, n, last[n]) => Newest(wire', n, last[n])
    <3> HIDE DEF m
    <3> QED
      BY <1>2, <2>2, NewestAppend
  <2> HIDE DEF m, b
  <2>6. CASE hits[n]
    BY <1>4, <2>2, <2>6 DEF Latest
  <2>7. CASE ~hits[n] /\ \E e \in Dumpers : Newest(batch[e], n, last[n])
    <3>1. Newest(batch[d], n, last[n])
      BY <1>6, <2>3, <2>7
    <3>2. CASE Newest(b, n, last[n])
      BY <2>2, <2>3, <2>7, <3>2 DEF Latest
    <3>3. CASE ~Newest(b, n, last[n])
      <4>1. ValueFor(m, n) /\ ~Carries(b, n) /\ m.v = last[n]
        BY <2>4, <3>1, <3>3
      <4>2. \A e \in Dumpers : ~Carries(batch'[e], n)
        BY <1>6, <2>3, <4>1
      <4> QED
        BY <2>2, <2>5, <2>7, <4>1, <4>2 DEF Latest
    <3> QED
      BY <3>2, <3>3
  <2>8. CASE ~hits[n] /\ \A e \in Dumpers : ~Carries(batch[e], n)
    <3>1. ~ValueFor(m, n) /\ ~Carries(b, n)
      BY <2>4, <2>8
    <3>2. \A e \in Dumpers : ~Carries(batch'[e], n)
      BY <2>3, <2>8, <3>1
    <3>3. \A e \in Dumpers : ~Newest(batch[e], n, last[n])
      BY <2>8 DEF Newest, Carries
    <3>4. IF Carries(wire, n) THEN Newest(wire, n, last[n]) ELSE total[n] = last[n]
      BY <1>4, <2>8, <3>3 DEF Latest
    <3> QED
      BY <2>2, <2>5, <2>8, <3>1, <3>2, <3>4 DEF Latest
  <2> QED
    BY <1>4, <2>6, <2>7, <2>8 DEF Latest
<1>13. ASSUME NEW d \in Dumpers, SendValueFails(d)
       PROVE  Latest(n)'
  BY <1>3, <1>13 DEF SendValueFails, SendFails, Unlinked
<1>14. CASE RecvDesc
  <2>1. /\ wire # <<>> /\ wire' = Tail(wire) /\ ~ValueFor(Head(wire), n)
        /\ UNCHANGED <<val, hits, total, last, batch>>
    BY <1>14 DEF RecvDesc, ValueFor
  <2>2. /\ Carries(wire', n) => Carries(wire, n)
        /\ Carries(wire, n) => Carries(wire', n)
        /\ Newest(wire, n, last[n]) => Newest(wire', n, last[n])
    BY <1>2, <2>1, NewestTail
  <2> QED
    BY <1>4, <2>1, <2>2 DEF Latest
<1>15. CASE RecvValue
  <2> DEFINE m == Head(wire)
  <2>1. /\ wire # <<>> /\ wire' = Tail(wire) /\ m.op = "value"
        /\ total' = [total EXCEPT ![m.name] = IF m.kind = "counter" THEN @ + m.v ELSE m.v]
        /\ UNCHANGED <<val, hits, last, batch>>
    BY <1>15 DEF RecvValue
  <2>2. /\ ~ValueFor(m, n) => /\ Carries(wire', n) => Carries(wire, n)
                              /\ Carries(wire, n) => Carries(wire', n)
                              /\ Newest(wire, n, last[n]) => Newest(wire', n, last[n])
        /\ ValueFor(m, n) => /\ Carries(wire, n)
                             /\ Newest(wire, n, last[n]) => Newest(wire', n, last[n])
                                                              \/ (~Carries(wire', n) /\ m.v = last[n])
        /\ Newest(wire', n, last[n]) => Carries(wire', n)
    BY <1>2, <2>1, NewestTail
  <2>3. m.name = n => m.kind # "counter"
    <3>1. m = wire[1] /\ 1 \in 1 .. Len(wire)
      BY <1>2, <2>1
    <3>2. m.kind = kind[m.name]
      BY <2>1, <3>1 DEF KindsAgree, OfItsKind
    <3> QED
      BY <1>3, <3>2
  <2> HIDE DEF m
  <2>4. CASE m.name = n
    <3>1. ValueFor(m, n) /\ total'[n] = m.v
      BY <1>2, <2>1, <2>3, <2>4 DEF ValueFor
    <3> QED
      BY <1>4, <2>1, <2>2, <3>1 DEF Latest
  <2>5. CASE m.name # n
    <3>1. ~ValueFor(m, n) /\ total'[n] = total[n]
      BY <1>2, <2>1, <2>5 DEF ValueFor
    <3> QED
      BY <1>4, <2>1, <2>2, <3>1 DEF Latest
  <2> QED
    BY <2>4, <2>5
<1>16. \/ UNCHANGED <<hits, val, last, total, batch, wire>>
       \/ \E t \in Threads, x \in Names : CounterInc(t, x) \/ GaugeSet(t, x)
       \/ \E t \in Threads : Describe(t)
       \/ \E d \in Dumpers, x \in Names : Take(d, x)
       \/ \E d \in Dumpers : SendValue(d) \/ SendValueFails(d)
       \/ RecvDesc \/ RecvValue
  BY Steps DEF Call, Insert, DescribeFails, Stop, Peek, EndCollect, EndDump, Exit, Poll, PollerEnds,
       RecvFails, EndOfFile, ProxyKilled, Close, vars
<1> QED
  BY <1>7, <1>8, <1>9, <1>10, <1>11, <1>12, <1>13, <1>14, <1>15, <1>16

-----------------------------------------------------------------------------
\* Nothing is counted at the start.
LEMMA InitIndInv == Init => IndInv
<1> SUFFICES ASSUME Init PROVE IndInv
  OBVIOUS
<1>1. TypeOK
  BY TypeInit
<1>2. Main \in Threads /\ Threads \subseteq Dumpers
  BY ThreadsAssumption DEF Dumpers
<1>3. /\ alive /\ handle = {} /\ wire = <<>>
      /\ \A d \in Dumpers : todo[d] = {} /\ peek[d] = {} /\ batch[d] = <<>> /\ ~Dumping(d)
      /\ \A n \in Names : /\ kind[n] = "none" /\ val[n] = 0 /\ ~hits[n] /\ total[n] = 0
                          /\ added[n] = 0 /\ last[n] = 0
      /\ call[Main].op = "none"
      /\ (link = "none" => server = "left") /\ (server = "left" => link # "up")
  BY <1>2 DEF Init, Dumping, NoCall
<1>4. Phases /\ Unlinked /\ ValuesOfEntries /\ OnePeek /\ OneDump
  BY <1>3 DEF Phases, Unlinked, ValuesOfEntries, OnePeek, OneDump
<1>5. KindsAgree /\ DescribedFirst /\ TouchedIsAnnounced
  BY <1>3 DEF KindsAgree, OfItsKind, DescribedFirst, TouchedIsAnnounced, Touched
<1>6. ConservedAll
  <2>1. wire \in Seq(Commands)
    BY <1>1 DEF TypeOK
  <2>2. \A n \in Names : Carried(wire, n) = 0 /\ Batched(n) = 0
    BY <1>3, <2>1, CarriedIsInt, BatchedNothing
  <2> QED
    BY <1>3, <2>2 DEF ConservedAll
<1>7. CollectedOnExit
  BY <1>3 DEF CollectedOnExit
<1>8. LatestGauge
  BY <1>3 DEF LatestGauge, Latest, Carries
<1> QED
  BY <1>1, <1>4, <1>5, <1>6, <1>7, <1>8 DEF IndInv

\* Every step keeps the invariant.
LEMMA NextIndInv == IndInv /\ [Next]_vars => IndInv'
BY TypeNext, PhasesNext, UnlinkedNext, KindsNext, ConservedNext, DescribedNext, TouchedNext,
   EntriesNext, CollectedNext, OneDumpNext, LatestNext DEF IndInv

\* The inductive invariant holds in every state.
THEOREM Inductive == Spec => []IndInv
BY InitIndInv, NextIndInv, PTL DEF Spec

(***************************************************************************)
(* Every thread of lib.rs and the thread of the proxy keep their state     *)
(* well formed: in particular no value is sent for a name without an entry.*)
(***************************************************************************)
THEOREM TypeCorrect == Spec => []TypeOK
BY Inductive, PTL DEF IndInv

(***************************************************************************)
(* For any number of threads that increment and dump at once, no increment *)
(* is lost or counted twice on its way to a proxy whose thread does not    *)
(* fail (lib.rs inc, dump_values, send; proxy.rs).                         *)
(***************************************************************************)
THEOREM IncrementsAreConserved == Spec => []Conserved
<1>1. IndInv => Conserved
  BY DEF IndInv, ConservedAll, Conserved
<1> QED
  BY <1>1, Inductive, PTL

(***************************************************************************)
(* For any number of threads and any capacity of the socket, a value never *)
(* overtakes the description of its metric (push_entry, dump_values).      *)
(***************************************************************************)
THEOREM DescriptionsComeFirst == Spec => []DescribedFirst
BY Inductive, PTL DEF IndInv

(***************************************************************************)
(* A process that ends through the destructor loses nothing it counted     *)
(* before the destructor started, unless another dump was cut off          *)
(* (rust_dtor, dump_values).                                               *)
(***************************************************************************)
THEOREM DestructorFlushes == Spec => []ExitFlushes
<1>1. ASSUME IndInv PROVE ExitFlushes
  <2> SUFFICES ASSUME server = "left", link = "up", \A d \in Dumpers \ {Main} : ~Dumping(d),
                      NEW n \in Names, kind[n] # "gauge"
               PROVE  total[n] >= added[n] - late[n]
    BY DEF ExitFlushes
  <2> USE <1>1 DEF IndInv
  <2>1. Main \in Dumpers
    BY ThreadsAssumption DEF Dumpers
  <2>2. wire = <<>> /\ call[Main].op = "exit" /\ pc[Main] = "idle"
    BY DEF Phases
  <2>3. todo[Main] = {} /\ peek[Main] = {} /\ \A d \in Dumpers : batch[d] = <<>>
    BY <2>1, <2>2 DEF Phases, Dumping
  <2>4. val[n] <= late[n]
    BY <2>2, <2>3 DEF CollectedOnExit
  <2>5. wire \in Seq(Commands)
    BY DEF TypeOK
  <2>6. Carried(wire, n) = 0 /\ Batched(n) = 0
    BY <2>2, <2>3, <2>5, CarriedIsInt, BatchedNothing
  <2>7. added[n] = total[n] + Carried(wire, n) + Batched(n) + val[n]
    BY DEF ConservedAll
  <2>8. added[n] \in Int /\ total[n] \in Int /\ val[n] \in Int /\ late[n] \in Int
    BY DEF TypeOK
  <2> QED
    BY <2>4, <2>6, <2>7, <2>8
<1> QED
  BY <1>1, Inductive, PTL

(***************************************************************************)
(* Unless two dumps have overlapped, a gauge that is at rest has at the    *)
(* proxy the last value it was set to (gauge_set, dump_values).            *)
(***************************************************************************)
THEOREM GaugesArriveUnlessOverlap == Spec => []LastGaugeUnlessOverlap
<1>1. ASSUME IndInv PROVE LastGaugeUnlessOverlap
  <2> SUFFICES ASSUME ~overlap, NEW n \in Names, kind[n] = "gauge", AtRest(n)
               PROVE  total[n] = last[n]
    BY DEF LastGaugeUnlessOverlap
  <2>1. Latest(n) /\ ~hits[n]
    BY <1>1 DEF IndInv, LatestGauge, AtRest
  <2>2. ~Carries(wire, n) /\ \A d \in Dumpers : ~Carries(batch[d], n)
    BY DEF AtRest, Carries, ValueFor
  <2>3. \A d \in Dumpers : ~Newest(batch[d], n, last[n])
    BY <2>2 DEF Newest, Carries
  <2> QED
    BY <2>1, <2>2, <2>3 DEF Latest
<1> QED
  BY <1>1, Inductive, PTL
==============================================================================
