---------------------------- MODULE WaitTriggers ----------------------------
(***************************************************************************)
(* Waiting queries: src/Triggers.h, src/Triggers.cc, Query::doWait and the *)
(* callbacks of module.cc that fire the triggers.                          *)
(*                                                                         *)
(* Triggers has one mutex and one condition variable per kind.  wait_for   *)
(* evaluates the WaitCondition and registers with a condition variable     *)
(* while it holds the mutex, but the Nagios thread changes the state of    *)
(* the objects and calls notify_all without it.  So evaluating and         *)
(* registering are two steps here, and the Nagios thread may come between. *)
(***************************************************************************)
EXTENDS Sequences, Naturals

CONSTANTS Waiters,     \* the client threads that process a query with a wait
          NoWaiter,    \* nobody holds the mutex
          WaitTrigger  \* the kinds the queries wait for

\* Triggers::Kind
Kinds == {"all", "check", "state", "log", "downtime", "comment", "command",
          "program"}

ASSUME TriggersAssumption ==
    /\ NoWaiter \notin Waiters
    /\ WaitTrigger \subseteq Kinds

\* The kinds a callback of module.cc passes to notify_all, in order.
\* broker_command notifies twice for the custom command _LOG.
Callbacks == {<<"check">>, <<"comment">>, <<"downtime">>, <<"log">>,
              <<"command">>, <<"log", "command">>, <<"state">>, <<"program">>}

VARIABLES pc,      \* where each waiter is
          kind,    \* its WaitTrigger
          timed,   \* has it a WaitTimeout other than 0?
          expired, \* is the deadline of its cond.wait_for over?
          cond,    \* would its WaitCondition accept its WaitObject now?
          mutex,   \* the holder of Triggers::_mutex
          todo,    \* condition variables the Nagios thread has yet to notify
          due,     \* ghost: the condition came true with a callback for the waiter
          missed   \* ghost: notified while the waiter was not yet registered

waiterVars == <<pc, kind, timed, expired, mutex>>
vars == <<waiterVars, cond, todo, due, missed>>

Init ==
    /\ pc = [w \in Waiters |-> "idle"]
    /\ kind = [w \in Waiters |-> "all"]
    /\ timed = [w \in Waiters |-> FALSE]
    /\ expired = [w \in Waiters |-> FALSE]
    /\ cond = [w \in Waiters |-> FALSE]
    /\ mutex = NoWaiter
    /\ todo = <<>>
    /\ due = [w \in Waiters |-> FALSE]
    /\ missed = [w \in Waiters |-> FALSE]

------------------------------------------------------------------------------
\* A query with any WaitTrigger, with or without a WaitTimeout.
Call(w) ==
    /\ pc[w] = "idle"
    /\ \E k \in WaitTrigger, t \in BOOLEAN :
        /\ kind' = [kind EXCEPT ![w] = k]
        /\ timed' = [timed EXCEPT ![w] = t]
    /\ pc' = [pc EXCEPT ![w] = "lock"]
    /\ expired' = [expired EXCEPT ![w] = FALSE]
    /\ due' = [due EXCEPT ![w] = FALSE]
    /\ missed' = [missed EXCEPT ![w] = FALSE]
    /\ UNCHANGED <<cond, mutex, todo>>

\* Acquire the mutex, at first and each time cond.wait returns.
Lock(w) ==
    /\ pc[w] = "lock"
    /\ mutex = NoWaiter
    /\ mutex' = w
    /\ pc' = [pc EXCEPT ![w] = "evaluate"]
    /\ UNCHANGED <<kind, timed, expired, cond, todo, due, missed>>

\* pred() is true, or false after the timeout: wait_for returns, unlocking.
Return(w) ==
    /\ pc[w] = "evaluate"
    /\ cond[w] \/ expired[w]
    /\ pc' = [pc EXCEPT ![w] = "idle"]
    /\ mutex' = NoWaiter
    /\ UNCHANGED <<kind, timed, expired, cond, todo, due, missed>>

\* Mutant of DecideToSleep: the predicate is negated once too often.
DecideToSleepAnyway(w) ==
    /\ pc[w] = "evaluate"
    /\ cond[w] /\ ~expired[w]
    /\ pc' = [pc EXCEPT ![w] = "register"]
    /\ UNCHANGED <<kind, timed, expired, cond, mutex, todo, due, missed>>

\* pred() is false: go and sleep.
DecideToSleep(w) ==
    /\ pc[w] = "evaluate"
    /\ ~(cond[w] \/ expired[w])
    /\ pc' = [pc EXCEPT ![w] = "register"]
    /\ missed' = [missed EXCEPT ![w] = FALSE]
    /\ UNCHANGED <<kind, timed, expired, cond, mutex, todo, due>>

\* cond.wait or cond.wait_for: atomically registers and unlocks.
Register(w) ==
    /\ pc[w] = "register"
    /\ pc' = [pc EXCEPT ![w] = "asleep"]
    /\ mutex' = NoWaiter
    /\ UNCHANGED <<kind, timed, expired, cond, todo, due, missed>>

\* The absolute deadline of cond.wait_for passes.
DeadlinePasses(w) ==
    /\ pc[w] # "idle"
    /\ timed[w] /\ ~expired[w]
    /\ expired' = [expired EXCEPT ![w] = TRUE]
    /\ UNCHANGED <<pc, kind, timed, cond, mutex, todo, due, missed>>

\* Mutant of TimeOut: the timed wait takes the untimed branch.
TimeOutNever(w) == pc[w] = "asleep" /\ FALSE /\ UNCHANGED vars

\* A timed wait returns because its deadline has passed.
TimeOut(w) ==
    /\ pc[w] = "asleep"
    /\ expired[w]
    /\ pc' = [pc EXCEPT ![w] = "lock"]
    /\ UNCHANGED <<kind, timed, expired, cond, mutex, todo, due, missed>>

\* A wakeup that nobody caused.
Spurious(w) ==
    /\ pc[w] = "asleep"
    /\ pc' = [pc EXCEPT ![w] = "lock"]
    /\ UNCHANGED <<kind, timed, expired, cond, mutex, todo, due, missed>>

\* What thread w does of its own accord once it has called wait_for.
Step(w) ==
    \/ Lock(w)
    \/ Return(w)
    \/ DecideToSleep(w)
    \/ Register(w)
    \/ TimeOut(w)

------------------------------------------------------------------------------
\* Triggers::notify_all(k): first the condition variable of "all", then k's.
ConditionsFor(callback) ==
    IF Len(callback) = 1 THEN <<"all", callback[1]>>
                         ELSE <<"all", callback[1], "all", callback[2]>>

Listens(w, callback) ==
    kind[w] = "all" \/ \E i \in DOMAIN callback : callback[i] = kind[w]

\* Nagios changes its objects, then calls the module's callback.  A wait
\* condition may change without a callback its query listens to.
Event(callback) ==
    /\ todo = <<>>
    /\ todo' = ConditionsFor(callback)
    /\ cond' \in [Waiters -> BOOLEAN]
    /\ due' = [w \in Waiters |->
                  cond'[w] /\ (due[w] \/ Listens(w, callback))]
    /\ UNCHANGED <<waiterVars, missed>>

\* Mutant of Notify: notify_one.
NotifyOneWaiter ==
    /\ todo # <<>>
    /\ todo' = Tail(todo)
    /\ LET listeners == {w \in Waiters : pc[w] = "asleep" /\ kind[w] = Head(todo)}
       IN  IF listeners = {} THEN UNCHANGED pc
           ELSE \E w \in listeners : pc' = [pc EXCEPT ![w] = "lock"]
    /\ UNCHANGED <<kind, timed, expired, cond, mutex, due, missed>>

\* notify_all on the next condition variable, without the mutex.
Notify ==
    /\ todo # <<>>
    /\ todo' = Tail(todo)
    /\ pc' = [w \in Waiters |->
                 IF pc[w] = "asleep" /\ kind[w] = Head(todo) THEN "lock" ELSE pc[w]]
    /\ missed' = [w \in Waiters |->
                 missed[w] \/ (pc[w] = "register" /\ kind[w] = Head(todo))]
    /\ UNCHANGED <<kind, timed, expired, cond, mutex, due>>

Next ==
    \/ \E w \in Waiters : 
        Call(w) \/ Step(w) \/ Spurious(w) \/ DeadlinePasses(w)
    \/ \E callback \in Callbacks : Event(callback)
    \/ Notify

(***************************************************************************)
(* Threads run and timeouts pass; a thread that wants the mutex gets it in *)
(* the end.  The Nagios thread finishes a callback it has begun.  Nothing  *)
(* forces an event to happen.                                              *)
(***************************************************************************)
Fairness ==
    /\ \A w \in Waiters :
        /\ WF_vars(Step(w))
        /\ SF_vars(Lock(w))
        /\ WF_vars(DeadlinePasses(w))
    /\ WF_vars(Notify)

Spec == Init /\ [][Next]_vars
FairSpec == Spec /\ Fairness

------------------------------------------------------------------------------
PcStates == {"idle", "lock", "evaluate", "register", "asleep"}

\* Every variable has its type.
TypeOK ==
    /\ pc \in [Waiters -> PcStates]
    /\ kind \in [Waiters -> Kinds]
    /\ timed \in [Waiters -> BOOLEAN]
    /\ expired \in [Waiters -> BOOLEAN]
    /\ cond \in [Waiters -> BOOLEAN]
    /\ mutex \in Waiters \cup {NoWaiter}
    /\ todo \in Seq(Kinds)
    /\ due \in [Waiters -> BOOLEAN]
    /\ missed \in [Waiters -> BOOLEAN]

\* The mutex is held exactly between its acquisition and the sleep or return.
MutexHeld ==
    \A w \in Waiters : pc[w] \in {"evaluate", "register"} <=> mutex = w

InTodo(k) == \E i \in DOMAIN todo : todo[i] = k

\* A query sleeps on although its condition came true with an event of its
\* WaitTrigger only if that event fell between its own evaluation of the
\* condition and its registration with the condition variable, or if the
\* notification is still to come.  Triggers::notify_all does not take the
\* mutex, so this window exists; this states that there is no other one.
SleepsOnOnlyIfMissed ==
    \A w \in Waiters :
        pc[w] = "asleep" /\ due[w] => InTodo(kind[w]) \/ missed[w]

\* Without a timeout, wait_for returns only with the condition true.
UntimedReturnsTrue ==
    [][\A w \in Waiters :
          pc[w] # "idle" /\ pc'[w] = "idle" /\ ~timed[w] => cond[w]]_vars

\* A query with a WaitTimeout comes back, whatever happens.
TimedWaitReturns ==
    \A w \in Waiters : pc[w] # "idle" /\ timed[w] ~> pc[w] = "idle"

\* The window only delays a query if its condition stays true and the events
\* it listens to keep coming.
RecurringEventsWake ==
    \A w \in Waiters :
        ((<>[](cond[w]) /\ []<><<Notify /\ Head(todo) = kind[w]>>_vars)
            => []<>(pc[w] = "idle"))
==============================================================================
