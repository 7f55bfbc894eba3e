------------------------- MODULE WaitTriggers_proofs -------------------------
(***************************************************************************)
(* Proofs about WaitTriggers, for any set of waiting queries.              *)
(***************************************************************************)
EXTENDS WaitTriggers, TLAPS

\* What notify_all is called with is a kind.
LEMMA ConditionsTyped ==
  ASSUME NEW callback \in Callbacks
  PROVE  ConditionsFor(callback) \in Seq(Kinds)
<1>1. ASSUME NEW k \in Kinds PROVE ConditionsFor(<<k>>) \in Seq(Kinds)
  <2>1. Len(<<k>>) = 1 /\ <<k>>[1] = k
    OBVIOUS
  <2>2. "all" \in Kinds
    BY DEF Kinds
  <2> QED BY <2>1, <2>2 DEF ConditionsFor
<1>2. ConditionsFor(<<"log", "command">>) \in Seq(Kinds)
  <2>1. /\ Len(<<"log", "command">>) = 2
        /\ <<"log", "command">>[1] = "log"
        /\ <<"log", "command">>[2] = "command"
    OBVIOUS
  <2>2. {"all", "log", "command"} \subseteq Kinds
    BY DEF Kinds
  <2> QED BY <2>1, <2>2 DEF ConditionsFor
<1>3. \/ \E k \in Kinds : callback = <<k>>
      \/ callback = <<"log", "command">>
  BY DEF Callbacks, Kinds
<1> QED BY <1>1, <1>2, <1>3

\* No query waits at the start.
LEMMA InitTyped == Init => TypeOK /\ MutexHeld
<1> SUFFICES ASSUME Init PROVE TypeOK /\ MutexHeld
  OBVIOUS
<1> USE TriggersAssumption DEF Init
<1>1. pc \in [Waiters -> PcStates] /\ kind \in [Waiters -> Kinds]
  BY DEF PcStates, Kinds
<1>2. /\ timed \in [Waiters -> BOOLEAN] /\ expired \in [Waiters -> BOOLEAN]
      /\ cond \in [Waiters -> BOOLEAN] /\ due \in [Waiters -> BOOLEAN]
      /\ missed \in [Waiters -> BOOLEAN]
  OBVIOUS
<1>3. mutex \in Waiters \cup {NoWaiter}
  OBVIOUS
<1>4. todo \in Seq(Kinds)
  OBVIOUS
<1>5. MutexHeld
  BY DEF MutexHeld
<1> HIDE DEF Init
<1> QED BY <1>1, <1>2, <1>3, <1>4, <1>5 DEF TypeOK

\* The steps of the waiting queries and of Nagios keep the types, and the mutex
\* with the query that has locked it.
LEMMA NextTyped == TypeOK /\ MutexHeld /\ [Next]_vars => TypeOK' /\ MutexHeld'
<1> SUFFICES ASSUME TypeOK, MutexHeld, [Next]_vars PROVE TypeOK' /\ MutexHeld'
  OBVIOUS
<1> USE TriggersAssumption DEF TypeOK, MutexHeld, PcStates
<1>1. ASSUME NEW w \in Waiters, Call(w) PROVE TypeOK' /\ MutexHeld'
  BY <1>1 DEF Call
<1>2. ASSUME NEW w \in Waiters, Step(w) PROVE TypeOK' /\ MutexHeld'
  <2>1. CASE Lock(w) BY <2>1 DEF Lock
  <2>2. CASE Return(w) BY <2>2 DEF Return
  <2>3. CASE DecideToSleep(w) BY <2>3 DEF DecideToSleep
  <2>4. CASE Register(w) BY <2>4 DEF Register
  <2>5. CASE TimeOut(w) BY <2>5 DEF TimeOut
  <2> QED BY <1>2, <2>1, <2>2, <2>3, <2>4, <2>5 DEF Step
<1>3. ASSUME NEW w \in Waiters, Spurious(w) PROVE TypeOK' /\ MutexHeld'
  BY <1>3 DEF Spurious
<1>4. ASSUME NEW w \in Waiters, DeadlinePasses(w) PROVE TypeOK' /\ MutexHeld'
  BY <1>4 DEF DeadlinePasses
<1>5. ASSUME NEW callback \in Callbacks, Event(callback) PROVE TypeOK' /\ MutexHeld'
  <2>1. todo' \in Seq(Kinds)
    BY <1>5, ConditionsTyped DEF Event
  <2>2. cond' \in [Waiters -> BOOLEAN]
    BY <1>5 DEF Event
  <2>3. due' \in [Waiters -> BOOLEAN]
    <3>1. \A w \in Waiters : (cond'[w] /\ (due[w] \/ Listens(w, callback))) \in BOOLEAN
      BY Zenon
    <3> QED BY <1>5, <3>1, Zenon DEF Event
  <2> QED BY <1>5, <2>1, <2>2, <2>3 DEF Event, waiterVars
<1>6. CASE Notify
  <2>1. todo' \in Seq(Kinds)
    BY <1>6 DEF Notify
  <2>2. pc' \in [Waiters -> PcStates]
    BY <1>6 DEF Notify
  <2>3. missed' \in [Waiters -> BOOLEAN]
    BY <1>6, Zenon DEF Notify
  <2>4. MutexHeld'
    BY <1>6 DEF Notify
  <2> QED BY <1>6, <2>1, <2>2, <2>3, <2>4 DEF Notify
<1>7. CASE UNCHANGED vars
  BY <1>7 DEF vars, waiterVars
<1> QED BY <1>1, <1>2, <1>3, <1>4, <1>5, <1>6, <1>7 DEF Next

------------------------------------------------------------------------------
\* Only the timed waits expire; an event counts as due only while its condition
\* is true; and between the evaluation and the sleep an event that is due is
\* still to be notified or has been missed.
WaitsSoundly ==
    \A w \in Waiters :
        /\ expired[w] => timed[w]
        /\ due[w] => cond[w]
        /\ pc[w] \in {"register", "asleep"} /\ due[w] => InTodo(kind[w]) \/ missed[w]

\* A callback that a query listens to notifies the condition variable on which
\* the query sleeps.
LEMMA ListenersAreNotified ==
  ASSUME NEW w \in Waiters, NEW callback \in Callbacks, Listens(w, callback)
  PROVE  \E i \in DOMAIN ConditionsFor(callback) : ConditionsFor(callback)[i] = kind[w]
<1>1. ASSUME NEW k \in Kinds, callback = <<k>>
      PROVE  \E i \in DOMAIN ConditionsFor(callback) : ConditionsFor(callback)[i] = kind[w]
  <2>1. Len(callback) = 1 /\ callback[1] = k /\ DOMAIN callback = {1}
    BY <1>1
  <2>2. ConditionsFor(callback) = <<"all", k>>
    BY <2>1 DEF ConditionsFor
  <2>3. kind[w] = "all" \/ kind[w] = k
    BY <2>1 DEF Listens
  <2> QED BY <2>2, <2>3
<1>2. ASSUME callback = <<"log", "command">>
      PROVE  \E i \in DOMAIN ConditionsFor(callback) : ConditionsFor(callback)[i] = kind[w]
  <2>1. /\ Len(callback) = 2 /\ DOMAIN callback = {1, 2}
        /\ callback[1] = "log" /\ callback[2] = "command"
    BY <1>2
  <2>2. ConditionsFor(callback) = <<"all", "log", "all", "command">>
    BY <2>1 DEF ConditionsFor
  <2>3. kind[w] = "all" \/ kind[w] = "log" \/ kind[w] = "command"
    BY <2>1 DEF Listens
  <2> QED BY <2>2, <2>3
<1>3. \/ \E k \in Kinds : callback = <<k>>
      \/ callback = <<"log", "command">>
  BY DEF Callbacks, Kinds
<1> QED BY <1>1, <1>2, <1>3

\* Nothing is due at the start.
LEMMA InitSound == Init => WaitsSoundly
BY DEF Init, WaitsSoundly

\* No step of a query or of Nagios loses an event, except by the notification
\* that falls between evaluation and registration, which is recorded.
LEMMA NextSound ==
  TypeOK /\ MutexHeld /\ WaitsSoundly /\ [Next]_vars => WaitsSoundly'
<1> SUFFICES ASSUME TypeOK, WaitsSoundly, [Next]_vars PROVE WaitsSoundly'
  OBVIOUS
<1> USE TriggersAssumption DEF TypeOK, WaitsSoundly
<1>1. ASSUME NEW w \in Waiters, Call(w) PROVE WaitsSoundly'
  BY <1>1 DEF Call, InTodo
<1>2. ASSUME NEW w \in Waiters, Step(w) PROVE WaitsSoundly'
  <2>1. CASE Lock(w) BY <2>1 DEF Lock, InTodo
  <2>2. CASE Return(w) BY <2>2 DEF Return, InTodo
  <2>3. CASE DecideToSleep(w) BY <2>3 DEF DecideToSleep, InTodo
  <2>4. CASE Register(w) BY <2>4 DEF Register, InTodo
  <2>5. CASE TimeOut(w) BY <2>5 DEF TimeOut, InTodo
  <2> QED BY <1>2, <2>1, <2>2, <2>3, <2>4, <2>5 DEF Step
<1>3. ASSUME NEW w \in Waiters, Spurious(w) PROVE WaitsSoundly'
  BY <1>3 DEF Spurious, InTodo
<1>4. ASSUME NEW w \in Waiters, DeadlinePasses(w) PROVE WaitsSoundly'
  BY <1>4 DEF DeadlinePasses, InTodo
<1>5. ASSUME NEW callback \in Callbacks, Event(callback) PROVE WaitsSoundly'
  <2> SUFFICES ASSUME NEW w \in Waiters
               PROVE  /\ expired'[w] => timed'[w]
                      /\ due'[w] => cond'[w]
                      /\ pc'[w] \in {"register", "asleep"} /\ due'[w]
                            => InTodo(kind[w])' \/ missed'[w]
    OBVIOUS
  <2>1. expired'[w] => timed'[w]
    BY <1>5 DEF Event, waiterVars
  <2>2. due'[w] <=> cond'[w] /\ (due[w] \/ Listens(w, callback))
    BY <1>5, Zenon DEF Event
  <2>3. CASE Listens(w, callback)
    <3>1. \E i \in DOMAIN todo' : todo'[i] = kind[w]
      BY <1>5, <2>3, ListenersAreNotified DEF Event
    <3>2. kind' = kind
      BY <1>5 DEF Event, waiterVars
    <3> QED BY <2>1, <2>2, <3>1, <3>2 DEF InTodo
  <2>4. CASE pc[w] \in {"register", "asleep"} /\ due[w] /\ ~Listens(w, callback)
    <3>1. ~InTodo(kind[w])
      BY <1>5 DEF Event, InTodo
    <3>2. missed[w] /\ missed' = missed
      BY <1>5, <2>4, <3>1 DEF Event
    <3> QED BY <2>1, <2>2, <3>2
  <2>5. CASE ~due[w] /\ ~Listens(w, callback)
    BY <2>1, <2>2, <2>5
  <2>6. CASE pc[w] \notin {"register", "asleep"}
    <3>1. pc' = pc
      BY <1>5 DEF Event, waiterVars
    <3> QED BY <2>1, <2>2, <2>6, <3>1
  <2> QED BY <2>3, <2>4, <2>5, <2>6
<1>6. CASE Notify
  <2> SUFFICES ASSUME NEW w \in Waiters, pc'[w] \in {"register", "asleep"}, due'[w]
               PROVE  InTodo(kind[w])' \/ missed'[w]
    BY <1>6 DEF Notify
  <2>1. /\ todo # <<>> /\ todo' = Tail(todo)
        /\ due' = due /\ kind' = kind
    BY <1>6 DEF Notify
  <2>2. pc'[w] = IF pc[w] = "asleep" /\ kind[w] = Head(todo) THEN "lock" ELSE pc[w]
    BY <1>6 DEF Notify
  <2>3. pc[w] = pc'[w] /\ ~(pc[w] = "asleep" /\ kind[w] = Head(todo))
    BY <2>2
  <2>4. missed'[w] <=> missed[w] \/ (pc[w] = "register" /\ kind[w] = Head(todo))
    BY <1>6, Zenon DEF Notify
  <2>5. InTodo(kind[w]) \/ missed[w]
    BY <2>1, <2>3
  <2>6. CASE InTodo(kind[w]) /\ kind[w] # Head(todo)
    <3>1. PICK i \in DOMAIN todo : todo[i] = kind[w]
      BY <2>6 DEF InTodo
    <3>2. i \in 2 .. Len(todo)
      BY <2>1, <2>6, <3>1
    <3>3. i - 1 \in DOMAIN Tail(todo) /\ Tail(todo)[i - 1] = todo[i]
      BY <2>1, <3>2
    <3> QED BY <2>1, <3>1, <3>3 DEF InTodo
  <2>7. CASE kind[w] = Head(todo)
    BY <2>3, <2>4, <2>7
  <2> QED BY <2>4, <2>5, <2>6, <2>7
<1>7. CASE UNCHANGED vars
  BY <1>7 DEF vars, waiterVars, InTodo
<1> QED BY <1>1, <1>2, <1>3, <1>4, <1>5, <1>6, <1>7 DEF Next

\* The inductive invariant of the triggers.
IInv == TypeOK /\ MutexHeld /\ WaitsSoundly

\* The inductive invariant holds in every state.
LEMMA Invariance == Spec => []IInv
<1>1. Init => IInv
  BY InitTyped, InitSound DEF IInv
<1>2. IInv /\ [Next]_vars => IInv'
  BY NextTyped, NextSound DEF IInv
<1> QED BY <1>1, <1>2, PTL DEF Spec

\* Every variable keeps its type.
THEOREM TypeCorrect == Spec => []TypeOK
BY Invariance, PTL DEF IInv

\* At most one query at a time is between locking and sleeping or returning.
THEOREM MutualExclusion == Spec => []MutexHeld
BY Invariance, PTL DEF IInv

\* The only event that a sleeping query can miss is one notified between the
\* evaluation of its condition and its registration.
THEOREM OnlyWindowLosesWakeups == Spec => []SleepsOnOnlyIfMissed
<1>1. IInv => SleepsOnOnlyIfMissed
  BY DEF IInv, WaitsSoundly, SleepsOnOnlyIfMissed
<1> QED BY <1>1, Invariance, PTL

\* A query without a WaitTimeout goes on only when its condition is true.
THEOREM UntimedMeansTrue == Spec => UntimedReturnsTrue
<1>1. IInv /\ [Next]_vars =>
        [\A w \in Waiters :
            pc[w] # "idle" /\ pc'[w] = "idle" /\ ~timed[w] => cond[w]]_vars
  <2> SUFFICES ASSUME IInv, Next, NEW w \in Waiters,
                      pc[w] # "idle", pc'[w] = "idle", ~timed[w]
               PROVE  cond[w]
    OBVIOUS
  <2> USE DEF IInv, TypeOK, WaitsSoundly
  <2>1. ASSUME NEW v \in Waiters, Call(v) PROVE FALSE
    BY <2>1 DEF Call
  <2>2. ASSUME NEW v \in Waiters, Step(v) PROVE cond[w]
    <3>1. CASE Return(v)
      <4>1. v = w
        BY <3>1 DEF Return
      <4> QED BY <3>1, <4>1 DEF Return
    <3>2. CASE Lock(v) BY <3>2 DEF Lock
    <3>3. CASE DecideToSleep(v) BY <3>3 DEF DecideToSleep
    <3>4. CASE Register(v) BY <3>4 DEF Register
    <3>5. CASE TimeOut(v) BY <3>5 DEF TimeOut
    <3> QED BY <2>2, <3>1, <3>2, <3>3, <3>4, <3>5 DEF Step
  <2>3. ASSUME NEW v \in Waiters, Spurious(v) \/ DeadlinePasses(v) PROVE FALSE
    BY <2>3 DEF Spurious, DeadlinePasses
  <2>4. ASSUME NEW callback \in Callbacks, Event(callback) PROVE FALSE
    BY <2>4 DEF Event, waiterVars
  <2>5. CASE Notify
    BY <2>5 DEF Notify
  <2> QED BY <2>1, <2>2, <2>3, <2>4, <2>5 DEF Next
<1> QED BY <1>1, Invariance, PTL DEF Spec, UntimedReturnsTrue
==============================================================================
