----------------------------- MODULE ClientQueue -----------------------------
(***************************************************************************)
(* The queue through which the socket thread hands accepted connections to *)
(* the client threads: src/ClientQueue.cc.  A std::deque, a termination    *)
(* flag, one mutex over both and one condition variable.                   *)
(*                                                                         *)
(* No critical section of the class blocks while it holds the mutex        *)
(* (cond.wait releases it), so each critical section is one action.  The   *)
(* notification happens after the mutex has been released, so it is an     *)
(* action of its own.  "waiting" is the set of threads blocked in          *)
(* cond.wait: a thread taken out of it re-acquires the mutex and evaluates *)
(* the loop condition again.                                               *)
(***************************************************************************)
EXTENDS Sequences, Naturals

VARIABLES queue,             \* ClientQueue::_queue
          queueTerminating,  \* ClientQueue::_should_terminate
          waiting            \* the threads blocked in _cond.wait

queueVars == <<queue, queueTerminating, waiting>>

\* ClientQueue::ClientQueue
QueueInit ==
    /\ queue = <<>>
    /\ queueTerminating = FALSE
    /\ waiting = {}

\* Mutant of Enqueue: push_front instead of push_back.
EnqueueAtFront(fd) ==
    /\ queue' = <<fd>> \o queue
    /\ UNCHANGED <<queueTerminating, waiting>>

\* addConnection, inside the mutex; NotifyOne must follow.
Enqueue(fd) ==
    /\ queue' = Append(queue, fd)
    /\ UNCHANGED <<queueTerminating, waiting>>

\* Mutant of NotifyOne: addConnection notifies only when the queue was empty.
NotifyIfWasEmpty ==
    /\ IF Len(queue) > 1 \/ waiting = {}
       THEN UNCHANGED waiting
       ELSE \E t \in waiting : waiting' = waiting \ {t}
    /\ UNCHANGED <<queue, queueTerminating>>

\* Mutant of NotifyOne: the notification is forgotten.
NotifyForgotten == UNCHANGED queueVars

\* _cond.notify_one(): wakes one waiting thread, and is lost if there is none.
NotifyOne ==
    /\ \/ waiting = {} /\ UNCHANGED waiting
       \/ \E t \in waiting : waiting' = waiting \ {t}
    /\ UNCHANGED <<queue, queueTerminating>>

\* Mutant of Dequeue: front without pop_front.
DequeueKeeping(t) ==
    /\ t \notin waiting
    /\ queue # <<>>
    /\ UNCHANGED queueVars

\* popConnection of thread t finds a connection.  The queue is drained even
\* when the termination flag is set.
Dequeue(t) ==
    /\ t \notin waiting
    /\ queue # <<>>
    /\ queue' = Tail(queue)
    /\ UNCHANGED <<queueTerminating, waiting>>

\* popConnection of thread t returns -1.
DequeueNothing(t) ==
    /\ t \notin waiting
    /\ queue = <<>>
    /\ queueTerminating
    /\ UNCHANGED queueVars

\* popConnection of thread t blocks in _cond.wait.
Block(t) ==
    /\ t \notin waiting
    /\ queue = <<>>
    /\ ~queueTerminating
    /\ waiting' = waiting \cup {t}
    /\ UNCHANGED <<queue, queueTerminating>>

\* _cond.wait may return although nobody notified.
SpuriousWakeup ==
    /\ \E t \in waiting : waiting' = waiting \ {t}
    /\ UNCHANGED <<queue, queueTerminating>>

\* terminate, inside the mutex; NotifyAll must follow.
SetTerminating ==
    /\ queueTerminating' = TRUE
    /\ UNCHANGED <<queue, waiting>>

\* Mutant of NotifyAll: notify_one in terminate.
NotifyJustOne == NotifyOne

\* _cond.notify_all()
NotifyAll ==
    /\ waiting' = {}
    /\ UNCHANGED <<queue, queueTerminating>>

\* The destructor closes what is still queued and the object is gone.
QueueDestroy ==
    /\ queue' = <<>>
    /\ UNCHANGED <<queueTerminating, waiting>>
==============================================================================
