---------------------------- MODULE AlarmsProofs -----------------------------
(***************************************************************************)
(* Proofs about Alarms, for any metrics, values, alarms, conditions and    *)
(* threads.                                                                *)
(***************************************************************************)
EXTENDS Alarms, TLAPS

\* Who is a reader, and what None is not.
LEMMA ReaderFacts ==
  /\ Icc \in Readers /\ Icc \notin Checkers
  /\ None \notin Readers /\ None \notin Names /\ None \notin Conditions /\ None \notin Metrics
BY NoneAssumption, ReadersAssumption DEF Readers

\* An alarm that is defined has a condition on a metric.
LEMMA DefinedHasCondition ==
  ASSUME TypeOK, NEW a \in Defined
  PROVE  a \in Names /\ alarms[a] \in Conditions /\ alarms[a].metric \in Metrics
BY ConditionsAssumption DEF TypeOK, Defined

\* The state of an exporter without alarms.
LEMMA InitIndInv == Init => IndInv
<1> SUFFICES ASSUME Init PROVE IndInv
  OBVIOUS
<1> USE DEF Init
<1>1. TypeOK
  BY ValuesAssumption DEF TypeOK
<1>2. WalkConsistent
  BY DEF WalkConsistent, Walking, Visiting
<1>3. GuardedStateHolds /\ ListedIsConsistent
  BY DEF GuardedStateHolds, ListedIsConsistent
<1>4. AnswersUnique
  BY DEF AnswersUnique, Walking, Visiting, Reported
<1>5. ToldIsSent
  BY ReaderFacts DEF ToldIsSent
<1> QED
  BY <1>1, <1>2, <1>3, <1>4, <1>5 DEF IndInv

-----------------------------------------------------------------------------
\* A step that leaves requests, alarms, mutex and values alone.
LEMMA AskWriteIndInv ==
  ASSUME IndInv, NEW w \in Writers, NEW m \in Metrics, AskWrite(w, m)
  PROVE  IndInv'
<1> USE DEF IndInv, AskWrite, request
<1>1. TypeOK'
  BY DEF TypeOK
<1>2. WalkConsistent'
  BY DEF WalkConsistent, Walking, Visiting, Defined
<1>3. GuardedStateHolds'
  BY DEF GuardedStateHolds, Apply
<1>4. AnswersUnique' /\ ToldIsSent' /\ ListedIsConsistent'
  BY DEF AnswersUnique, ToldIsSent, ListedIsConsistent, Walking, Visiting, Reported, State
<1> QED
  BY <1>1, <1>2, <1>3, <1>4

\* A value is written when nobody has a guard on it: the states that requests
\* have found hold for other metrics.
LEMMA WriteIndInv ==
  ASSUME IndInv, NEW w \in Writers, Write(w)
  PROVE  IndInv'
<1> USE DEF IndInv, Write, request
<1>1. TypeOK'
  BY DEF TypeOK
<1>2. WalkConsistent'
  BY DEF WalkConsistent, Walking, Visiting, Defined
<1>3. GuardedStateHolds'
  <2> SUFFICES ASSUME NEW r \in Readers \ Checkers, pc[r] \in {"active", "inactive"}
               PROVE  Apply(alarms[at[r]])' <=> Apply(alarms[at[r]])
    BY DEF GuardedStateHolds
  <2>1. writing[w] \in Metrics /\ alarms[at[r]].metric # writing[w]
    BY DEF TypeOK, Guards
  <2>2. value'[alarms[at[r]].metric] = value[alarms[at[r]].metric]
    BY <2>1 DEF TypeOK
  <2> QED
    BY <2>2 DEF Apply
<1>4. AnswersUnique' /\ ToldIsSent' /\ ListedIsConsistent'
  BY DEF AnswersUnique, ToldIsSent, ListedIsConsistent, Walking, Visiting, Reported, State
<1> QED
  BY <1>1, <1>2, <1>3, <1>4

\* Alarms are set and deleted while no request walks.
LEMMA EditIndInv ==
  ASSUME IndInv, NEW a \in Names,
         (\E c \in Conditions : AddAlarm(a, c)) \/ DeleteAlarm(a)
  PROVE  IndInv'
<1> USE DEF IndInv, request
<1>1. /\ mutex = None
      /\ \E c \in Conditions \cup {None} : alarms' = [alarms EXCEPT ![a] = c]
      /\ UNCHANGED <<value, mutex, pc, left, at, answer, writing, states, told, outage>>
  BY DEF AddAlarm, DeleteAlarm
<1>2. \A r \in Readers : ~Walking(r) /\ ~Visiting(r)
  BY <1>1, ReaderFacts DEF WalkConsistent, Walking, Visiting
<1>3. TypeOK'
  BY <1>1 DEF TypeOK
<1>4. WalkConsistent'
  BY <1>1, <1>2 DEF WalkConsistent, Walking, Visiting
<1>5. GuardedStateHolds'
  BY <1>1, <1>2 DEF GuardedStateHolds, Visiting
<1>6. AnswersUnique' /\ ToldIsSent' /\ ListedIsConsistent'
  BY <1>1 DEF AnswersUnique, ToldIsSent, ListedIsConsistent, Walking, Visiting, Reported, State
<1> QED
  BY <1>3, <1>4, <1>5, <1>6
-----------------------------------------------------------------------------
\* A request begins: it has the mutex and visits the alarms that are defined.
LEMMA LockIndInv ==
  ASSUME IndInv, NEW r \in Readers, Lock(r)
  PROVE  IndInv'
<1> USE DEF IndInv, Lock
<1>1. TypeOK'
  BY DEF TypeOK, Defined
<1>2. \A q \in Readers : q # r => ~Walking(q)
  BY ReaderFacts DEF WalkConsistent
<1>3. WalkConsistent'
  BY <1>2 DEF WalkConsistent, Walking, Visiting, Defined, TypeOK
<1>4. GuardedStateHolds'
  BY DEF GuardedStateHolds, Apply, TypeOK
<1>5. AnswersUnique'
  BY DEF AnswersUnique, Walking, Visiting, Reported, TypeOK
<1>6. ToldIsSent' /\ ListedIsConsistent'
  BY ReaderFacts DEF ToldIsSent, ListedIsConsistent, State, TypeOK
<1> QED
  BY <1>1, <1>3, <1>4, <1>5, <1>6

(***************************************************************************)
(* The steps of a request between its visits: it moves on in its own       *)
(* alarms and touches nothing else.  What it finds is asked for here.      *)
(***************************************************************************)
LEMMA VisitIndInv ==
  ASSUME IndInv, NEW r \in Readers, NEW a \in Defined, Walking(r),
         NEW to \in {"walk", "raise", "guarded", "active", "inactive"},
         pc' = [pc EXCEPT ![r] = to],
         \/ /\ pc[r] = "walk" /\ a \in left[r]
            /\ left' = [left EXCEPT ![r] = @ \ {a}]
         \/ pc[r] # "walk" /\ a = at[r] /\ UNCHANGED left,
         IF to = "walk" THEN UNCHANGED at ELSE at' = [at EXCEPT ![r] = a],
         to = "raise" => r \in Checkers,
         r \notin Checkers /\ to = "active" => Apply(alarms[a]),
         r \notin Checkers /\ to = "inactive" => ~Apply(alarms[a]),
         UNCHANGED <<value, alarms, mutex, answer, writing, states, told, outage>>
  PROVE  IndInv'
<1> USE DEF IndInv
<1>1. a \in Names /\ Defined' = Defined
  BY DEF Defined
<1>2. TypeOK'
  BY <1>1 DEF TypeOK
<1>3. WalkConsistent'
  BY <1>1 DEF WalkConsistent, Walking, Visiting, TypeOK
<1>4. GuardedStateHolds'
  BY <1>1 DEF GuardedStateHolds, Apply, TypeOK
<1>5. AnswersUnique'
  BY <1>1 DEF AnswersUnique, Walking, Visiting, Reported, TypeOK
<1>6. pc[Icc] # "notify" \/ r # Icc
  BY DEF Walking
<1>7. ToldIsSent' /\ ListedIsConsistent'
  BY <1>6, ReaderFacts DEF ToldIsSent, ListedIsConsistent, State, TypeOK, Walking
<1> QED
  BY <1>2, <1>3, <1>4, <1>5, <1>7

\* ValueAlarm::check.
LEMMA CheckIndInv ==
  ASSUME IndInv, NEW r \in Readers, NEW a \in Names, Check(r, a)
  PROVE  IndInv'
<1>1. Walking(r) /\ a \in Defined /\ r \in Checkers
  BY DEF Check, IndInv, WalkConsistent, Walking
<1>2. CASE Apply(alarms[a])
  BY <1>1, <1>2, VisitIndInv DEF Check
<1>3. CASE ~Apply(alarms[a])
  <2>1. pc' = [pc EXCEPT ![r] = "walk"]
    BY <1>3 DEF Check, IndInv, TypeOK
  <2> QED
    BY <1>1, <1>3, <2>1, VisitIndInv DEF Check
<1> QED
  BY <1>2, <1>3

\* as_trigger up to its answer.
LEMMA TriggerIndInv ==
  ASSUME IndInv, NEW r \in Readers,
         GuardRaised(r) \/ ApplyNested(r) \/ \E a \in Names : GuardListed(r, a)
  PROVE  IndInv'
<1>1. CASE GuardRaised(r)
  <2>1. Walking(r) /\ at[r] \in Defined /\ r \in Checkers
    BY <1>1 DEF GuardRaised, IndInv, WalkConsistent, Walking, Visiting
  <2>2. at' = [at EXCEPT ![r] = at[r]]
    BY <1>1 DEF GuardRaised, IndInv, TypeOK
  <2> QED
    BY <1>1, <2>1, <2>2, VisitIndInv DEF GuardRaised
<1>2. CASE ApplyNested(r)
  <2>1. Walking(r) /\ at[r] \in Defined
    BY <1>2 DEF ApplyNested, IndInv, WalkConsistent, Walking, Visiting
  <2>2. at' = [at EXCEPT ![r] = at[r]]
    BY <1>2 DEF ApplyNested, IndInv, TypeOK
  <2>3. CASE Apply(alarms[at[r]])
    BY <1>2, <2>1, <2>2, <2>3, VisitIndInv DEF ApplyNested
  <2>4. CASE ~Apply(alarms[at[r]])
    BY <1>2, <2>1, <2>2, <2>4, VisitIndInv DEF ApplyNested
  <2> QED
    BY <2>3, <2>4
<1>3. CASE \E a \in Names : GuardListed(r, a)
  <2>1. PICK a \in Names : GuardListed(r, a)
    BY <1>3
  <2>2. Walking(r) /\ a \in Defined
    BY <2>1 DEF GuardListed, IndInv, WalkConsistent, Walking
  <2> QED
    BY <2>1, <2>2, VisitIndInv DEF GuardListed
<1> QED
  BY <1>1, <1>2, <1>3

\* The trigger is made under the guard, so that its two halves agree.
LEMMA PrettyIndInv ==
  ASSUME IndInv, NEW r \in Readers, Pretty(r)
  PROVE  IndInv'
<1> USE DEF IndInv
<1> DEFINE t == [name |-> at[r], active |-> pc[r] = "active",
                 current |-> value[Metric(r)], cond |-> alarms[at[r]]]
<1>1. Walking(r) /\ Visiting(r) /\ at[r] \in Defined /\ mutex = r /\ pc[r] \in {"active", "inactive"}
  BY DEF Pretty, WalkConsistent, Walking, Visiting
<1>2. /\ at[r] \in Names /\ alarms[at[r]] \in Conditions /\ Metric(r) \in Metrics
      /\ t \in Triggers
  BY <1>1, DefinedHasCondition DEF Metric, TypeOK, Triggers
<1>3. /\ pc' = [pc EXCEPT ![r] = "walk"] /\ at' = [at EXCEPT ![r] = None]
      /\ answer' = [answer EXCEPT ![r] = answer[r] \cup {t}]
      /\ UNCHANGED <<value, alarms, mutex, left, writing, states, told, outage>>
  BY DEF Pretty
<1> HIDE DEF t
<1>4. /\ answer'[r] = answer[r] \cup {t}
      /\ \A q \in Readers : q # r => answer'[q] = answer[q]
  BY <1>3 DEF TypeOK
<1>5. TypeOK'
  BY <1>2, <1>3 DEF TypeOK
<1>6. WalkConsistent'
  BY <1>1, <1>3 DEF WalkConsistent, Walking, Visiting, Defined, TypeOK
<1>7. GuardedStateHolds'
  BY <1>3 DEF GuardedStateHolds, Apply, TypeOK
<1>8. AnswersUnique'
  <2>1. t.name = at[r]
    BY DEF t
  <2>2. Reported(r)' = Reported(r) \cup {at[r]}
    BY <1>4, <2>1 DEF Reported
  <2>3. \A u \in answer[r] : u.name # at[r]
    BY <1>1 DEF AnswersUnique, Reported
  <2>4. \A u, v \in answer'[r] : u.name = v.name => u = v
    BY <1>4, <2>1, <2>3 DEF AnswersUnique
  <2>5. left'[r] \cap Reported(r)' = {} /\ pc'[r] = "walk"
    BY <1>1, <1>3, <2>2 DEF AnswersUnique, TypeOK
  <2>6. \A q \in Readers : q # r =>
           /\ Reported(q)' = Reported(q) /\ pc'[q] = pc[q] /\ at'[q] = at[q] /\ left'[q] = left[q]
    BY <1>3, <1>4 DEF Reported, TypeOK
  <2> QED
    BY <1>4, <2>4, <2>5, <2>6 DEF AnswersUnique, Walking, Visiting
<1>9. ToldIsSent'
  <2>1. r = Icc => pc[Icc] # "notify" /\ pc'[Icc] # "notify"
    BY <1>1, <1>3 DEF TypeOK
  <2> QED
    BY <1>3, <1>4, <2>1, ReaderFacts DEF ToldIsSent, State, TypeOK
<1>10. ListedIsConsistent'
  <2>1. r \notin Checkers => (pc[r] = "active" <=> Apply(alarms[at[r]]))
    BY <1>1 DEF GuardedStateHolds
  <2>2. r \notin Checkers =>
          (t.active <=> CASE t.cond.op = "=" -> t.cond.bound = t.current
                          [] t.cond.op = "<" -> t.cond.bound > t.current
                          [] t.cond.op = ">" -> t.cond.bound < t.current)
    BY <2>1 DEF t, Apply, Metric
  <2> QED
    BY <1>4, <2>2 DEF ListedIsConsistent
<1> QED
  BY <1>5, <1>6, <1>7, <1>8, <1>9, <1>10

\* The request ends; the controller thread goes on with its answer.
LEMMA UnlockIndInv ==
  ASSUME IndInv, NEW r \in Readers, Unlock(r)
  PROVE  IndInv'
<1> USE DEF IndInv
<1>1. mutex = r /\ pc[r] = "walk"
  BY DEF Unlock, WalkConsistent, Walking
<1>2. \A q \in Readers : q # r => ~Walking(q)
  BY <1>1 DEF WalkConsistent
<1>3. Reported(r) \in SUBSET Names
  BY DEF Reported, TypeOK, Triggers
<1>4. /\ mutex' = None
      /\ pc' = [pc EXCEPT ![r] = IF r = Icc THEN "notify" ELSE "idle"]
      /\ left' = [left EXCEPT ![r] = IF r = Icc THEN Reported(r) ELSE {}]
      /\ answer' = [answer EXCEPT ![r] = IF r = Icc THEN answer[r] ELSE {}]
      /\ UNCHANGED <<value, alarms, at, writing, states, told, outage>>
  BY DEF Unlock, Reported
<1>5. TypeOK'
  BY <1>3, <1>4 DEF TypeOK
<1>6. WalkConsistent'
  BY <1>2, <1>4 DEF WalkConsistent, Walking, Visiting, Defined, TypeOK
<1>7. GuardedStateHolds'
  BY <1>4 DEF GuardedStateHolds, Apply, TypeOK
<1>8. AnswersUnique'
  BY <1>2, <1>4 DEF AnswersUnique, Walking, Visiting, Reported, TypeOK
<1>9. ToldIsSent'
  BY <1>4, ReaderFacts DEF ToldIsSent, State, Reported, TypeOK
<1>10. ListedIsConsistent'
  BY <1>4 DEF ListedIsConsistent, TypeOK
<1> QED
  BY <1>5, <1>6, <1>7, <1>8, <1>9, <1>10

-----------------------------------------------------------------------------
(***************************************************************************)
(* notify_alarms: an alarm that is not reported has the state that the     *)
(* controller was told before.                                             *)
(***************************************************************************)
LEMMA NotifyIndInv ==
  ASSUME IndInv, NEW t \in answer[Icc], Notify(t)
  PROVE  IndInv'
<1> USE DEF IndInv
<1>0. Icc \in Readers /\ t \in Triggers /\ t.name \in Names /\ t.active \in BOOLEAN
  BY ReaderFacts DEF TypeOK, Triggers
<1>1. /\ pc[Icc] = "notify" /\ left' = [left EXCEPT ![Icc] = left[Icc] \ {t.name}]
      /\ UNCHANGED <<value, alarms, mutex, pc, at, answer, writing, outage>>
  BY DEF Notify
<1>2. TypeOK'
  <2>1. State(t) \in {"active", "inactive"}
    BY DEF State
  <2> QED
    BY <1>0, <1>1, <2>1 DEF Notify, TypeOK
<1>3. WalkConsistent' /\ GuardedStateHolds'
  BY <1>0, <1>1 DEF WalkConsistent, GuardedStateHolds, Walking, Visiting, Defined, Apply, TypeOK
<1>4. AnswersUnique' /\ ListedIsConsistent'
  BY <1>0, <1>1 DEF AnswersUnique, ListedIsConsistent, Walking, Visiting, Reported, TypeOK
<1>5. ASSUME ~outage
      PROVE  /\ told'[t.name] = State(t)
             /\ told'[t.name] = IF states'[t.name] = "active" THEN "active" ELSE "inactive"
             /\ \A a \in Names : a # t.name => told'[a] = told[a] /\ states'[a] = states[a]
  <2>1. told[t.name] = IF states[t.name] = "active" THEN "active" ELSE "inactive"
    BY <1>0, <1>5 DEF ToldIsSent
  <2>2. CASE Changed(t)
    BY <1>0, <2>2 DEF Notify, State, TypeOK
  <2>3. CASE ~Changed(t)
    BY <1>0, <2>1, <2>3 DEF Notify, Changed, State
  <2> QED
    BY <2>2, <2>3
<1>6. ToldIsSent'
  <2>1. \A u \in answer[Icc] : u.name = t.name => u = t
    BY <1>0 DEF AnswersUnique
  <2>2. \A u \in answer[Icc] : u.name \in Names
    BY <1>0 DEF TypeOK, Triggers
  <2> QED
    BY <1>0, <1>1, <1>5, <2>1, <2>2 DEF ToldIsSent, State, TypeOK
<1> QED
  BY <1>2, <1>3, <1>4, <1>6

\* A failed call ends the thread, and with it the round.
LEMMA NotifyEndsIndInv ==
  ASSUME IndInv, Notified \/ \E t \in answer[Icc] : NotifyFails(t)
  PROVE  IndInv'
<1> USE DEF IndInv
<1>1. /\ pc[Icc] = "notify" /\ Icc \in Readers
      /\ pc' = [pc EXCEPT ![Icc] = "idle"]
      /\ left' = left \/ left' = [left EXCEPT ![Icc] = {}]
      /\ answer' = [answer EXCEPT ![Icc] = {}]
      /\ states' = states \/ (states' = [a \in Names |-> "unknown"] /\ outage')
      /\ outage' = outage \/ outage' = TRUE
      /\ UNCHANGED <<value, alarms, mutex, at, writing, told>>
  BY ReaderFacts DEF Notified, NotifyFails
<1>2. TypeOK'
  BY <1>1 DEF TypeOK
<1>3. WalkConsistent' /\ GuardedStateHolds'
  BY <1>1 DEF WalkConsistent, GuardedStateHolds, Walking, Visiting, Defined, Apply, TypeOK
<1>4. AnswersUnique' /\ ListedIsConsistent'
  BY <1>1, ZenonT(40) DEF AnswersUnique, ListedIsConsistent, Walking, Visiting, Reported, TypeOK
<1>5. ToldIsSent'
  BY <1>1 DEF ToldIsSent, TypeOK
<1> QED
  BY <1>2, <1>3, <1>4, <1>5

-----------------------------------------------------------------------------
\* Every step keeps the invariant: one case for each action of Next.
LEMMA NextIndInv == IndInv /\ [Next]_vars => IndInv'
<1> SUFFICES ASSUME IndInv, [Next]_vars
             PROVE  IndInv'
  OBVIOUS
<1>1. CASE \E w \in Writers : (\E m \in Metrics : AskWrite(w, m)) \/ Write(w)
  BY <1>1, AskWriteIndInv, WriteIndInv
<1>2. CASE \E a \in Names : (\E c \in Conditions : AddAlarm(a, c)) \/ DeleteAlarm(a)
  BY <1>2, EditIndInv
<1>3. CASE \E r \in Readers : Lock(r) \/ Walk(r)
  BY <1>3, LockIndInv, CheckIndInv, TriggerIndInv, PrettyIndInv, UnlockIndInv DEF Walk
<1>4. CASE Controller
  BY <1>4, NotifyIndInv, NotifyEndsIndInv DEF Controller
<1>5. CASE UNCHANGED vars
  <2> USE <1>5 DEF vars, request, IndInv
  <2>1. TypeOK'
    BY DEF TypeOK
  <2>2. WalkConsistent' /\ GuardedStateHolds'
    BY DEF WalkConsistent, GuardedStateHolds, Walking, Visiting, Defined, Apply
  <2>3. AnswersUnique' /\ ToldIsSent' /\ ListedIsConsistent'
    BY DEF AnswersUnique, ToldIsSent, ListedIsConsistent, Walking, Visiting, Reported, State
  <2> QED
    BY <2>1, <2>2, <2>3
<1> QED
  BY <1>1, <1>2, <1>3, <1>4, <1>5 DEF Next

\* IndInv is an invariant of the exporter's alarms.
LEMMA AlwaysIndInv == Spec => []IndInv
BY InitIndInv, NextIndInv, PTL DEF Spec

(***************************************************************************)
(* Every variable keeps its type (exporter.rs, proxywireprotocol.rs,       *)
(* icc.rs).                                                                *)
(***************************************************************************)
THEOREM AlarmsTypeCorrect == Spec => []TypeOK
<1>1. IndInv => TypeOK
  BY DEF IndInv
<1> QED
  BY <1>1, AlwaysIndInv, PTL

(***************************************************************************)
(* Whatever is written, set and deleted meanwhile, an alarm that           *)
(* /alarms/list or the controller thread has listed is active exactly when *)
(* its condition holds for the value shown with it (as_trigger).           *)
(***************************************************************************)
THEOREM ListsAreConsistent == Spec => []ListedIsConsistent
<1>1. IndInv => ListedIsConsistent
  BY DEF IndInv
<1> QED
  BY <1>1, AlwaysIndInv, PTL

(***************************************************************************)
(* As long as no call failed, the controller knows the state of every      *)
(* listed alarm at the end of a round, although notify_alarms reports      *)
(* changes only and alarms are deleted and set again between rounds.       *)
(***************************************************************************)
THEOREM ControllerIsTold == Spec => []ControllerAgrees
<1>1. IndInv => ControllerAgrees
  BY DEF IndInv, ToldIsSent, ControllerAgrees
<1> QED
  BY <1>1, AlwaysIndInv, PTL
=============================================================================
