------------------------------- MODULE Alarms --------------------------------
(***************************************************************************)
(* The alarms of an exporter: /alarms (check_alarms), /alarms/list and the *)
(* controller thread (list_alarms), /alarms/add and /alarms/del, against   *)
(* the client threads that accumulate in the same metrics.                 *)
(*                                                                         *)
(* A request holds the `perjob' mutex of the factory from the first to the *)
(* last alarm, so that the table of alarms changes between requests only.  *)
(* The value of a metric has a RwLock of its own.  as_trigger reads it     *)
(* under a read guard that it already holds (a nested read), and           *)
(* accumulate writes it while it holds the write lock of the metric's      *)
(* group.                                                                  *)
(***************************************************************************)
EXTENDS Integers, FiniteSets

CONSTANTS
  Metrics,     \* metrics of the exporter, each in a group of its own
  Values,      \* values they take
  Names,       \* names of alarms
  Conditions,  \* what alarms are set on: [metric, op, bound]
  Checkers,    \* web threads that serve /alarms
  Listers,     \* web threads that serve /alarms/list
  Icc,         \* the controller thread, which lists too
  Writers,     \* client threads and scrapers that accumulate
  None

Readers == Checkers \cup Listers \cup {Icc}
Ops == {"=", "<", ">"}

ASSUME ValuesAssumption == 0 \in Values /\ Values \subseteq Int
ASSUME ConditionsAssumption == Conditions \subseteq [metric : Metrics, op : Ops, bound : Values]
ASSUME NoneAssumption == None \notin Conditions \cup Names \cup Readers \cup Metrics
ASSUME ReadersAssumption == Icc \notin Checkers \cup Listers /\ Checkers \cap Listers = {}

VARIABLES
  value,    \* Exporter.ht: the value of a metric
  alarms,   \* Exporter.alarms: the condition of an alarm, or None
  mutex,    \* who holds ExporterFactory.perjob
  pc,       \* where a request is
  left,     \* alarms it has still to visit
  at,       \* the alarm it visits
  answer,   \* the triggers it has collected
  writing,  \* the metric whose value a thread is about to write, or None
  states,   \* notify_alarms' `states': what was last sent, by its own account
  told,     \* what the controller was last told of an alarm (external)
  outage    \* whether a call to the controller has ever failed (history)

request == <<pc, left, at, answer>>
vars == <<value, alarms, mutex, request, writing, states, told, outage>>

Defined == {a \in Names : alarms[a] # None}
Triggers == [name : Names, active : BOOLEAN, current : Values, cond : Conditions]

TypeOK ==
  /\ value \in [Metrics -> Values]
  /\ alarms \in [Names -> Conditions \cup {None}]
  /\ mutex \in Readers \cup {None}
  /\ pc \in [Readers -> {"idle", "walk", "raise", "guarded", "active", "inactive", "notify"}]
  /\ left \in [Readers -> SUBSET Names]
  /\ at \in [Readers -> Names \cup {None}]
  /\ answer \in [Readers -> SUBSET Triggers]
  /\ writing \in [Writers -> Metrics \cup {None}]
  /\ states \in [Names -> {"unknown", "active", "inactive"}]
  /\ told \in [Names -> {"active", "inactive"}]
  /\ outage \in BOOLEAN

Init ==
  /\ value = [m \in Metrics |-> 0]
  /\ alarms = [a \in Names |-> None]
  /\ mutex = None
  /\ pc = [r \in Readers |-> "idle"]
  /\ left = [r \in Readers |-> {}] /\ at = [r \in Readers |-> None]
  /\ answer = [r \in Readers |-> {}]
  /\ writing = [w \in Writers |-> None]
  /\ states = [a \in Names |-> "unknown"]
  /\ told = [a \in Names |-> "inactive"]
  /\ outage = FALSE

-----------------------------------------------------------------------------
\* AlarmOperator::apply
Apply(c) ==
  CASE c.op = "=" -> c.bound = value[c.metric]
    [] c.op = "<" -> c.bound > value[c.metric]
    [] c.op = ">" -> c.bound < value[c.metric]

\* RwLock::read of the standard library: a writer that waits keeps readers out.
Readable(m) == \A w \in Writers : writing[w] # m

\* The requests that hold a read guard on the value of m.
Guards(m) == {r \in Readers : pc[r] \in {"guarded", "active", "inactive"} /\ alarms[at[r]].metric = m}

Metric(r) == alarms[at[r]].metric

-----------------------------------------------------------------------------
(***************************************************************************)
(* Exporter::accumulate, ExporterEntryGroup::accumulate: the write lock of *)
(* the group is held, the one of the value asked for, then the value set.  *)
(***************************************************************************)
AskWrite(w, m) ==
  /\ writing[w] = None /\ \A v \in Writers : writing[v] # m
  /\ writing' = [writing EXCEPT ![w] = m]
  /\ UNCHANGED <<value, alarms, mutex, request, states, told, outage>>

\* Mutant: the write does not wait for the read guards.
WriteUnderGuards(w) ==
  /\ writing[w] # None
  /\ \E v \in Values : value' = [value EXCEPT ![writing[w]] = v]
  /\ writing' = [writing EXCEPT ![w] = None]
  /\ UNCHANGED <<alarms, mutex, request, states, told, outage>>

\* Mutant: a gauge is added to, not overwritten.
WriteMerges(w) ==
  /\ writing[w] # None /\ Guards(writing[w]) = {}
  /\ \E v \in Values : value' = [value EXCEPT ![writing[w]] = @ + v]
  /\ writing' = [writing EXCEPT ![w] = None]
  /\ UNCHANGED <<alarms, mutex, request, states, told, outage>>

\* Mutant: the locks are kept after the write.
WriteKeepsLock(w) ==
  /\ writing[w] # None /\ Guards(writing[w]) = {}
  /\ \E v \in Values : value' = [value EXCEPT ![writing[w]] = v]
  /\ UNCHANGED <<writing, alarms, mutex, request, states, told, outage>>

Write(w) ==
  /\ writing[w] # None /\ Guards(writing[w]) = {}
  /\ \E v \in Values : value' = [value EXCEPT ![writing[w]] = v]
  /\ writing' = [writing EXCEPT ![w] = None]
  /\ UNCHANGED <<alarms, mutex, request, states, told, outage>>

\* add_alarm: an alarm that exists is refused.  Its description is logged,
\* which reads the value.
AddAlarm(a, c) ==
  /\ mutex = None /\ alarms[a] = None /\ Readable(c.metric)
  /\ alarms' = [alarms EXCEPT ![a] = c]
  /\ UNCHANGED <<value, mutex, request, writing, states, told, outage>>

DeleteAlarm(a) ==
  /\ mutex = None /\ alarms[a] # None
  /\ alarms' = [alarms EXCEPT ![a] = None]
  /\ UNCHANGED <<value, mutex, request, writing, states, told, outage>>

-----------------------------------------------------------------------------
(***************************************************************************)
(* check_alarms and list_alarms.                                           *)
(***************************************************************************)
Lock(r) ==
  /\ pc[r] = "idle" /\ mutex = None
  /\ mutex' = r
  /\ pc' = [pc EXCEPT ![r] = "walk"]
  /\ left' = [left EXCEPT ![r] = Defined]
  /\ UNCHANGED <<value, alarms, at, answer, writing, states, told, outage>>

\* ValueAlarm::check: the guard of the test is given back before as_trigger.
Check(r, a) ==
  /\ r \in Checkers /\ pc[r] = "walk" /\ a \in left[r] /\ Readable(alarms[a].metric)
  /\ left' = [left EXCEPT ![r] = @ \ {a}]
  /\ IF Apply(alarms[a])
       THEN pc' = [pc EXCEPT ![r] = "raise"] /\ at' = [at EXCEPT ![r] = a]
       ELSE UNCHANGED <<pc, at>>
  /\ UNCHANGED <<value, alarms, mutex, answer, writing, states, told, outage>>

\* as_trigger(Some(true)): the read guard cnt_locked.
GuardRaised(r) ==
  /\ pc[r] = "raise" /\ Readable(Metric(r))
  /\ pc' = [pc EXCEPT ![r] = "active"]
  /\ UNCHANGED <<value, alarms, mutex, left, at, answer, writing, states, told, outage>>

\* as_trigger(None): the same guard, for every alarm.
GuardListed(r, a) ==
  /\ r \notin Checkers /\ pc[r] = "walk" /\ a \in left[r] /\ Readable(alarms[a].metric)
  /\ left' = [left EXCEPT ![r] = @ \ {a}]
  /\ pc' = [pc EXCEPT ![r] = "guarded"] /\ at' = [at EXCEPT ![r] = a]
  /\ UNCHANGED <<value, alarms, mutex, answer, writing, states, told, outage>>

\* as_trigger(None): a nested read to apply the operator.
ApplyNested(r) ==
  /\ pc[r] = "guarded" /\ Readable(Metric(r))
  /\ pc' = [pc EXCEPT ![r] = IF Apply(alarms[at[r]]) THEN "active" ELSE "inactive"]
  /\ UNCHANGED <<value, alarms, mutex, left, at, answer, writing, states, told, outage>>

\* The trigger: `current' is read through the guard, `pretty' by a nested read
\* in Display; then the guard is given back.
Pretty(r) ==
  /\ pc[r] \in {"active", "inactive"} /\ Readable(Metric(r))
  /\ pc' = [pc EXCEPT ![r] = "walk"] /\ at' = [at EXCEPT ![r] = None]
  /\ answer' = [answer EXCEPT ![r] = @ \cup
       {[name |-> at[r], active |-> pc[r] = "active",
         current |-> value[Metric(r)], cond |-> alarms[at[r]]]}]
  /\ UNCHANGED <<value, alarms, mutex, left, writing, states, told, outage>>

\* The mutex is given back and the answer sent; the controller thread goes on.
Unlock(r) ==
  /\ pc[r] = "walk" /\ left[r] = {}
  /\ mutex' = None
  /\ pc' = [pc EXCEPT ![r] = IF r = Icc THEN "notify" ELSE "idle"]
  /\ left' = [left EXCEPT ![r] = IF r = Icc THEN {t.name : t \in answer[r]} ELSE {}]
  /\ answer' = [answer EXCEPT ![r] = IF r = Icc THEN @ ELSE {}]
  /\ UNCHANGED <<value, alarms, at, writing, states, told, outage>>

-----------------------------------------------------------------------------
(***************************************************************************)
(* notify_alarms: the controller is told of an alarm when its state has    *)
(* changed, an inactive one only when it was sent as active before.        *)
(***************************************************************************)
State(t) == IF t.active THEN "active" ELSE "inactive"

\* Mutant: an alarm that is no longer active is not reported.
ChangedToActive(t) == t.active /\ states[t.name] # "active"

Changed(t) == IF t.active THEN states[t.name] # "active" ELSE states[t.name] = "active"

Notify(t) ==
  /\ pc[Icc] = "notify" /\ t \in answer[Icc] /\ t.name \in left[Icc]
  /\ left' = [left EXCEPT ![Icc] = @ \ {t.name}]
  /\ IF Changed(t)
       THEN /\ states' = [states EXCEPT ![t.name] = State(t)]
            /\ told' = [told EXCEPT ![t.name] = State(t)]
       ELSE UNCHANGED <<states, told>>
  /\ UNCHANGED <<value, alarms, mutex, pc, at, answer, writing, outage>>

\* The call fails: the thread ends and starts again with empty `states'.
NotifyFails(t) ==
  /\ pc[Icc] = "notify" /\ t \in answer[Icc] /\ t.name \in left[Icc] /\ Changed(t)
  /\ pc' = [pc EXCEPT ![Icc] = "idle"]
  /\ left' = [left EXCEPT ![Icc] = {}] /\ answer' = [answer EXCEPT ![Icc] = {}]
  /\ states' = [a \in Names |-> "unknown"]
  /\ outage' = TRUE
  /\ UNCHANGED <<value, alarms, mutex, at, writing, told>>

Notified ==
  /\ pc[Icc] = "notify" /\ left[Icc] = {}
  /\ pc' = [pc EXCEPT ![Icc] = "idle"]
  /\ answer' = [answer EXCEPT ![Icc] = {}]
  /\ UNCHANGED <<value, alarms, mutex, left, at, writing, states, told, outage>>

-----------------------------------------------------------------------------
Walk(r) ==
  \/ \E a \in Names : Check(r, a) \/ GuardListed(r, a)
  \/ GuardRaised(r) \/ ApplyNested(r) \/ Pretty(r) \/ Unlock(r)

Controller == (\E t \in answer[Icc] : Notify(t) \/ NotifyFails(t)) \/ Notified

Next ==
  \/ \E w \in Writers : (\E m \in Metrics : AskWrite(w, m)) \/ Write(w)
  \/ \E a \in Names : (\E c \in Conditions : AddAlarm(a, c)) \/ DeleteAlarm(a)
  \/ \E r \in Readers : Lock(r) \/ Walk(r)
  \/ Controller

(***************************************************************************)
(* Threads are scheduled, and no lock starves a thread that finds it free  *)
(* again and again.                                                        *)
(***************************************************************************)
Fairness ==
  /\ \A w \in Writers : WF_vars(Write(w))
  /\ \A r \in Readers : SF_vars(Walk(r))
  /\ WF_vars(Controller)

Spec == Init /\ [][Next]_vars /\ Fairness

-----------------------------------------------------------------------------
(***************************************************************************)
(* /alarms/list never contradicts itself: `active' is the condition        *)
(* applied to the `current' of the same trigger, because both are read     *)
(* under one guard that keeps accumulate out.                              *)
(***************************************************************************)
ListedIsConsistent ==
  \A r \in Readers \ Checkers : \A t \in answer[r] :
    t.active <=> CASE t.cond.op = "=" -> t.cond.bound = t.current
                   [] t.cond.op = "<" -> t.cond.bound > t.current
                   [] t.cond.op = ">" -> t.cond.bound < t.current

\* A request reads the value of m again while a write waits for its guard.
Nested(m) == Guards(m) # {} /\ ~Readable(m)

(***************************************************************************)
(* Every request for alarms is answered, and every value written, unless   *)
(* a nested read of as_trigger has met a waiting writer.  There is no      *)
(* other wait among the locks of perjob, groups and values that lasts.     *)
(***************************************************************************)
AnsweredUnlessNested ==
  /\ \A r \in Readers : (mutex = r) ~> (mutex # r \/ \E m \in Metrics : Nested(m))
  /\ \A w \in Writers : (writing[w] # None) ~> (writing[w] = None \/ \E m \in Metrics : Nested(m))

(***************************************************************************)
(* At the end of a round the controller knows the state of every alarm the *)
(* round has listed, as long as no call to it failed: alarms deleted, set  *)
(* again under the same name and changed between rounds included (icc.rs). *)
(***************************************************************************)
ControllerAgrees ==
  ~outage /\ pc[Icc] = "notify" /\ left[Icc] = {} =>
    \A t \in answer[Icc] : told[t.name] = State(t)

(***************************************************************************)
(* The inductive invariant: a request holds the mutex while it walks, and  *)
(* with it the alarms it has still to visit stay defined; the state found  *)
(* by as_trigger holds as long as its guard; no alarm is in an answer      *)
(* twice; and `states' is what the controller was told.                    *)
(***************************************************************************)
Walking(r) == pc[r] \in {"walk", "raise", "guarded", "active", "inactive"}
Visiting(r) == pc[r] \in {"raise", "guarded", "active", "inactive"}
Reported(r) == {t.name : t \in answer[r]}

WalkConsistent ==
  \A r \in Readers :
    /\ Walking(r) => mutex = r /\ left[r] \subseteq Defined
    /\ Visiting(r) => at[r] \in Defined
    /\ pc[r] = "notify" => r = Icc
    /\ pc[r] = "raise" => r \in Checkers

GuardedStateHolds ==
  \A r \in Readers \ Checkers :
    /\ pc[r] = "active" => Apply(alarms[at[r]])
    /\ pc[r] = "inactive" => ~Apply(alarms[at[r]])

AnswersUnique ==
  \A r \in Readers :
    /\ \A t, u \in answer[r] : t.name = u.name => t = u
    /\ Walking(r) => left[r] \cap Reported(r) = {}
    /\ Visiting(r) => at[r] \notin left[r] \cup Reported(r)
    /\ pc[r] = "idle" => answer[r] = {}

ToldIsSent ==
  /\ ~outage => \A a \in Names : told[a] = IF states[a] = "active" THEN "active" ELSE "inactive"
  /\ ~outage /\ pc[Icc] = "notify" =>
       \A t \in answer[Icc] : t.name \notin left[Icc] => told[t.name] = State(t)

IndInv ==
  /\ TypeOK /\ WalkConsistent /\ GuardedStateHolds /\ AnswersUnique /\ ToldIsSent
  /\ ListedIsConsistent

(***************************************************************************)
(* What src/README.md:232 says of /alarms: it lists the raised alarms; a   *)
(* request that has begun is answered.                                     *)
(***************************************************************************)
AlarmsAnswered == \A r \in Checkers : (mutex = r) ~> (mutex # r)
==============================================================================
