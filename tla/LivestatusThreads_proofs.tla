---------------------- MODULE LivestatusThreads_proofs ----------------------
(***************************************************************************)
(* Proofs about LivestatusThreads, for any number of client threads and    *)
(* any finite set of connections.                                          *)
(***************************************************************************)
EXTENDS LivestatusThreads, FiniteSetTheorems, TLAPS

\* The module starts with every variable in its type and no thread running.
LEMMA InitTyped == Init => TypeOK /\ Control
<1> SUFFICES ASSUME Init PROVE TypeOK /\ Control
  OBVIOUS
<1> USE ThreadsAssumption DEF Init, QueueInit, Clients, Socket
<1>1. queue \in Seq(Conns)
  OBVIOUS
<1>2. /\ queueTerminating \in BOOLEAN
      /\ waiting \subseteq Clients
      /\ shouldTerminate \in BOOLEAN
  OBVIOUS
<1>3. /\ created \in 0 .. NumThreads + 1
      /\ numQueued \in Int
      /\ active \in Int
      /\ register \in [{Socket} \cup Clients -> Int]
  OBVIOUS
<1>4. /\ conn \in [Conns -> ConnStates]
      /\ nagios \in NagiosStates
      /\ main \in MainStates
      /\ client \in [Clients -> ClientStates]
  BY DEF ConnStates, NagiosStates, MainStates, ClientStates
<1>5. /\ accepted \in Conns \cup {NoFd}
      /\ cc \in [Clients -> Conns \cup {NoFd}]
  OBVIOUS
<1>6. Control
  BY DEF Control
<1> HIDE DEF Init, QueueInit
<1> QED BY <1>1, <1>2, <1>3, <1>4, <1>5, <1>6 DEF TypeOK

\* Every step of every thread keeps the types and where the threads can be
\* relative to each other.
LEMMA NextTyped == TypeOK /\ Control /\ [Next]_vars => TypeOK' /\ Control'
<1> SUFFICES ASSUME TypeOK, Control, [Next]_vars
             PROVE  TypeOK' /\ Control'
  OBVIOUS
<1> USE ThreadsAssumption
     DEF TypeOK, Control, Clients, Socket, ConnStates, NagiosStates,
         MainStates, ClientStates, queueVars, threadVars, counterVars
<1>1. ASSUME NEW c \in Conns, Connect(c) PROVE TypeOK' /\ Control'
  BY <1>1 DEF Connect
<1>2. CASE Main
  <2>1. CASE MainLoop BY <2>1 DEF MainLoop
  <2>2. ASSUME NEW c \in Conns, Accept(c) PROVE TypeOK' /\ Control'
    BY <2>2 DEF Accept
  <2>3. CASE NothingAccepted BY <2>3 DEF NothingAccepted
  <2>4. CASE MainAdd BY <2>4 DEF MainAdd, Enqueue
  <2>5. CASE MainNotify BY <2>5 DEF MainNotify, NotifyOne
  <2>6. CASE MainLoadCounter BY <2>6 DEF MainLoadCounter
  <2>7. CASE MainStoreCounter BY <2>7 DEF MainStoreCounter
  <2> QED BY <1>2, <2>1, <2>2, <2>3, <2>4, <2>5, <2>6, <2>7 DEF Main
<1>3. ASSUME NEW t \in Clients, ClientStep(t) PROVE TypeOK' /\ Control'
  <2>1. CASE ClientLoop(t) BY <2>1 DEF ClientLoop
  <2>2. CASE ClientPop(t) BY <2>2 DEF ClientPop, Dequeue
  <2>3. CASE ClientPopNothing(t) BY <2>3 DEF ClientPopNothing, DequeueNothing
  <2>4. CASE ClientBlock(t) BY <2>4 DEF ClientBlock, Block
  <2>5. CASE ClientLoadCounter(t) BY <2>5 DEF ClientLoadCounter
  <2>6. CASE ClientStoreCounter(t) BY <2>6 DEF ClientStoreCounter
  <2>7. CASE ClientBegin(t) BY <2>7 DEF ClientBegin
  <2>8. CASE ClientServe(t) BY <2>8 DEF ClientServe
  <2>9. CASE ClientAnswer(t) BY <2>9 DEF ClientAnswer
  <2>10. CASE ClientLastAnswer(t) BY <2>10 DEF ClientLastAnswer
  <2>11. CASE ClientClose(t) BY <2>11 DEF ClientClose
  <2>12. CASE ClientEnd(t)
    <3>1. active' \in Int
      BY <2>12 DEF ClientEnd
    <3>2. TypeOK'
      BY <2>12, <3>1 DEF ClientEnd
    <3>3. Control'
      BY <2>12 DEF ClientEnd
    <3> QED BY <3>2, <3>3
  <2> QED BY <1>3, <2>1, <2>2, <2>3, <2>4, <2>5, <2>6, <2>7, <2>8, <2>9,
             <2>10, <2>11, <2>12 DEF ClientStep
<1>4. ASSUME NEW t \in Clients, ClientWait(t) PROVE TypeOK' /\ Control'
  BY <1>4 DEF ClientWait
<1>5. ASSUME NEW t \in Clients, ClientTriggered(t) PROVE TypeOK' /\ Control'
  BY <1>5 DEF ClientTriggered
<1>6. CASE Spurious BY <1>6 DEF Spurious, SpuriousWakeup
<1>7. CASE Nagios
  <2>1. CASE CreateMain BY <2>1 DEF CreateMain
  <2>2. CASE CreateClient BY <2>2 DEF CreateClient
  <2>3. CASE DeinitWithoutThreads BY <2>3 DEF DeinitWithoutThreads
  <2>4. CASE Deinit BY <2>4 DEF Deinit
  <2>5. CASE JoinMain BY <2>5 DEF JoinMain
  <2>6. CASE TerminateQueue BY <2>6 DEF TerminateQueue, SetTerminating
  <2>7. CASE NotifyAllClients BY <2>7 DEF NotifyAllClients, NotifyAll
  <2>8. CASE JoinClients BY <2>8 DEF JoinClients
  <2>9. CASE CloseSocket BY <2>9 DEF CloseSocket
  <2>10. CASE DeleteQueue BY <2>10 DEF DeleteQueue, QueueDestroy
  <2> QED BY <1>7, <2>1, <2>2, <2>3, <2>4, <2>5, <2>6, <2>7, <2>8, <2>9,
             <2>10 DEF Nagios, Teardown
<1>8. CASE UNCHANGED vars BY <1>8 DEF vars
<1> QED BY <1>1, <1>2, <1>3, <1>4, <1>5, <1>6, <1>7, <1>8 DEF Next, Unloaded

(***************************************************************************)
(* The elements of a sequence without duplicates under the two operations  *)
(* of the queue.                                                           *)
(***************************************************************************)
Elems(s) == {s[i] : i \in DOMAIN s}
Distinct(s) == \A i, j \in DOMAIN s : s[i] = s[j] => i = j

\* addConnection of a descriptor that is not queued keeps the queue distinct.
LEMMA AppendElems ==
  ASSUME NEW S, NEW s \in Seq(S), NEW x \in S, Distinct(s), x \notin Elems(s)
  PROVE  Elems(Append(s, x)) = Elems(s) \cup {x} /\ Distinct(Append(s, x))
<1> DEFINE a == Append(s, x)
<1>1. /\ DOMAIN s = 1 .. Len(s)
      /\ DOMAIN a = 1 .. Len(s) + 1
      /\ \A i \in 1 .. Len(s) : a[i] = s[i]
      /\ a[Len(s) + 1] = x
      /\ Len(s) \in Nat
  OBVIOUS
<1> HIDE DEF a
<1>2. Elems(a) = Elems(s) \cup {x}
  BY <1>1 DEF Elems
<1>3. Distinct(a)
  BY <1>1 DEF Distinct, Elems
<1> QED BY <1>2, <1>3 DEF a

\* popConnection removes exactly the head.
LEMMA TailElems ==
  ASSUME NEW S, NEW s \in Seq(S), s # <<>>, Distinct(s)
  PROVE  /\ Head(s) \in Elems(s)
         /\ Elems(Tail(s)) = Elems(s) \ {Head(s)}
         /\ Distinct(Tail(s))
<1> DEFINE t == Tail(s)
<1>1. /\ DOMAIN s = 1 .. Len(s)
      /\ Len(s) \in Nat \ {0}
      /\ DOMAIN t = 1 .. Len(s) - 1
      /\ \A i \in 1 .. Len(s) - 1 : t[i] = s[i + 1]
      /\ Head(s) = s[1]
  OBVIOUS
<1> HIDE DEF t
<1>2. Head(s) \in Elems(s)
  BY <1>1 DEF Elems
<1>3. \A i \in 2 .. Len(s) : i - 1 \in DOMAIN t /\ t[i - 1] = s[i]
  BY <1>1
<1>4. Elems(t) \subseteq Elems(s) \ {Head(s)}
  BY <1>1 DEF Elems, Distinct
<1>5. Elems(s) \ {Head(s)} \subseteq Elems(t)
  BY <1>1, <1>3 DEF Elems
<1>6. Distinct(t)
  BY <1>1 DEF Distinct
<1> QED BY <1>2, <1>4, <1>5, <1>6 DEF t

(***************************************************************************)
(* The ownership of descriptors.                                           *)
(***************************************************************************)
\* At the start nobody owns a descriptor.
LEMMA InitOwner == Init => OneOwner
<1> SUFFICES ASSUME Init PROVE OneOwner
  OBVIOUS
<1>1. Queued = {}
  BY DEF Init, QueueInit, Queued
<1>2. Held = {} /\ accepted = NoFd
  BY DEF Init, Held
<1>3. {c \in Conns : conn[c] = "open"} = {}
  BY DEF Init
<1>4. \A i, j \in DOMAIN queue : queue[i] = queue[j] => i = j
  BY DEF Init, QueueInit
<1>5. \A s, t \in Clients : cc[s] = cc[t] /\ cc[s] # NoFd => s = t
  BY DEF Init
<1> QED BY <1>1, <1>2, <1>3, <1>4, <1>5 DEF OneOwner

\* Every step hands a descriptor on from one owner to the next.
LEMMA NextOwner ==
  TypeOK /\ Control /\ OneOwner /\ [Next]_vars => OneOwner'
<1> SUFFICES ASSUME TypeOK, Control, OneOwner, [Next]_vars
             PROVE  OneOwner'
  OBVIOUS
<1> DEFINE Open == {c \in Conns : conn[c] = "open"}
<1> USE ThreadsAssumption
\* Most steps hand no descriptor over.
<1>1. ASSUME UNCHANGED <<queue, cc, accepted>>, Open' = Open
      PROVE  OneOwner'
  BY <1>1 DEF OneOwner, Queued, Held
<1> HIDE DEF Open
<1>2. ASSUME UNCHANGED <<queue, cc, accepted, conn>>
      PROVE  OneOwner'
  BY <1>1, <1>2 DEF Open
<1>3. ASSUME NEW c \in Conns, Connect(c) PROVE OneOwner'
  BY <1>1, <1>3 DEF Connect, queueVars, threadVars, Open, TypeOK
<1>4. ASSUME NEW c \in Conns, Accept(c) PROVE OneOwner'
  <2>1. accepted = NoFd /\ accepted' = c
    BY <1>4 DEF Accept, Control
  <2>2. Open' = Open \cup {c} /\ c \notin Open
    BY <1>4 DEF Accept, Open, TypeOK
  <2>3. Queued' = Queued /\ Held' = Held /\ UNCHANGED <<queue, cc>>
    BY <1>4 DEF Accept, Queued, Held, queueVars
  <2> QED BY <2>1, <2>2, <2>3 DEF OneOwner, Open
<1>5. CASE MainAdd
  <2>1. accepted \in Conns /\ accepted' = NoFd
    BY <1>5 DEF MainAdd, Control, TypeOK
  <2>2. Distinct(queue) /\ accepted \notin Elems(queue)
    BY DEF OneOwner, Distinct, Elems, Queued
  <2>3. queue \in Seq(Conns) /\ queue' = Append(queue, accepted)
    BY <1>5 DEF TypeOK, MainAdd, Enqueue
  <2>4. /\ Elems(queue') = Elems(queue) \cup {accepted}
        /\ Distinct(queue')
    BY <2>1, <2>2, <2>3, AppendElems
  <2>5. /\ Queued' = Queued \cup {accepted}
        /\ Distinct(queue')
    BY <2>4 DEF Queued, Elems
  <2>6. Open' = Open /\ Held' = Held /\ UNCHANGED cc
    BY <1>5 DEF MainAdd, Open, Held
  <2>7. NoFd \notin Queued \cup Held
    BY DEF Held, Queued, TypeOK
  <2> QED BY <2>1, <2>5, <2>6, <2>7 DEF OneOwner, Open, Distinct
<1>6. ASSUME NEW t \in Clients, ClientPop(t) PROVE OneOwner'
  <2>1. queue \in Seq(Conns) /\ queue # <<>> /\ queue' = Tail(queue)
    BY <1>6 DEF TypeOK, ClientPop, Dequeue
  <2>2. Distinct(queue)
    BY DEF OneOwner, Distinct
  <2>3. /\ Head(queue) \in Elems(queue)
        /\ Elems(queue') = Elems(queue) \ {Head(queue)}
        /\ Distinct(queue')
    BY <2>1, <2>2, TailElems
  <2>4. /\ Head(queue) \in Queued
        /\ Queued' = Queued \ {Head(queue)}
        /\ Distinct(queue')
    BY <2>3 DEF Queued, Elems
  <2>5. cc[t] = NoFd
    BY <1>6 DEF ClientPop, Control
  <2>6. Head(queue) \in Conns
    BY <1>6, <2>4 DEF Queued, TypeOK
  <2>7. /\ cc' = [cc EXCEPT ![t] = Head(queue)]
        /\ Held' = Held \cup {Head(queue)}
    BY <1>6, <2>5, <2>6 DEF ClientPop, Held, TypeOK
  <2>8. Open' = Open /\ UNCHANGED accepted
    BY <1>6 DEF ClientPop, Open
  <2>9. \A s \in Clients : cc[s] # Head(queue)
    BY <2>4, <2>6 DEF OneOwner, Held
  <2>10. \A s, u \in Clients : cc'[s] = cc'[u] /\ cc'[s] # NoFd => s = u
    BY <2>7, <2>9 DEF OneOwner, TypeOK
  <2> QED BY <2>4, <2>7, <2>8, <2>10 DEF OneOwner, Open, Distinct
<1>7. ASSUME NEW t \in Clients, ClientClose(t) PROVE OneOwner'
  <2>1. cc[t] \in Conns
    BY <1>7 DEF ClientClose, Control, TypeOK
  <2>2. cc[t] \in Held
    BY <2>1 DEF Held
  <2>3. /\ cc' = [cc EXCEPT ![t] = NoFd]
        /\ Held' = Held \ {cc[t]}
    BY <1>7, <2>1 DEF ClientClose, Held, TypeOK, OneOwner
  <2>4. Open' = Open \ {cc[t]}
    BY <1>7, <2>1 DEF ClientClose, Open, TypeOK
  <2>5. UNCHANGED <<queue, accepted>> /\ Queued' = Queued
    BY <1>7 DEF ClientClose, queueVars, Queued
  <2>6. \A s, u \in Clients : cc'[s] = cc'[u] /\ cc'[s] # NoFd => s = u
    BY <2>3 DEF OneOwner, TypeOK
  <2> QED BY <2>1, <2>2, <2>3, <2>4, <2>5, <2>6 DEF OneOwner, Open
<1>8. CASE CloseSocket
  <2>1. Open' = Open
    BY <1>8 DEF CloseSocket, Open, TypeOK
  <2> QED BY <1>1, <1>8, <2>1 DEF CloseSocket, queueVars
<1>9. CASE DeleteQueue
  <2>1. Queued' = {} /\ \A i, j \in DOMAIN queue' : queue'[i] = queue'[j] => i = j
    BY <1>9 DEF DeleteQueue, QueueDestroy, Queued
  <2>2. Open' = Open \ Queued
    BY <1>9 DEF DeleteQueue, Open, Queued, TypeOK
  <2>3. UNCHANGED <<cc, accepted>> /\ Held' = Held
    BY <1>9 DEF DeleteQueue, Held
  <2> QED BY <2>1, <2>2, <2>3 DEF OneOwner, Open
<1>10. CASE Main
  <2>1. CASE MainLoop BY <1>2, <2>1 DEF MainLoop, queueVars
  <2>2. CASE NothingAccepted BY <1>2, <2>2 DEF NothingAccepted, queueVars
  <2>3. CASE MainNotify BY <1>2, <2>3 DEF MainNotify, NotifyOne
  <2>4. CASE MainLoadCounter BY <1>2, <2>4 DEF MainLoadCounter, queueVars
  <2>5. CASE MainStoreCounter BY <1>2, <2>5 DEF MainStoreCounter, queueVars
  <2> QED BY <1>4, <1>5, <1>10, <2>1, <2>2, <2>3, <2>4, <2>5 DEF Main
<1>11. ASSUME NEW t \in Clients, ClientStep(t) PROVE OneOwner'
  <2>1. CASE ClientLoop(t) BY <1>2, <2>1 DEF ClientLoop, queueVars
  <2>2. CASE ClientPopNothing(t)
    BY <1>2, <2>2 DEF ClientPopNothing, DequeueNothing, queueVars
  <2>3. CASE ClientBlock(t)
    BY <1>2, <2>3 DEF ClientBlock, Block, threadVars
  <2>4. CASE ClientLoadCounter(t) BY <1>2, <2>4 DEF ClientLoadCounter, queueVars
  <2>5. CASE ClientStoreCounter(t) BY <1>2, <2>5 DEF ClientStoreCounter, queueVars
  <2>6. CASE ClientBegin(t) BY <1>2, <2>6 DEF ClientBegin, queueVars
  <2>7. CASE ClientServe(t) BY <1>2, <2>7 DEF ClientServe, queueVars
  <2>8. CASE ClientAnswer(t) BY <1>2, <2>8 DEF ClientAnswer, queueVars
  <2>9. CASE ClientLastAnswer(t) BY <1>2, <2>9 DEF ClientLastAnswer, queueVars
  <2>10. CASE ClientEnd(t) BY <1>2, <2>10 DEF ClientEnd, queueVars
  <2> QED BY <1>6, <1>7, <1>11, <2>1, <2>2, <2>3, <2>4, <2>5, <2>6, <2>7,
             <2>8, <2>9, <2>10 DEF ClientStep
<1>12. ASSUME NEW t \in Clients, ClientWait(t) PROVE OneOwner'
  BY <1>2, <1>12 DEF ClientWait, queueVars
<1>13. ASSUME NEW t \in Clients, ClientTriggered(t) PROVE OneOwner'
  BY <1>2, <1>13 DEF ClientTriggered, queueVars
<1>14. CASE Spurious
  BY <1>2, <1>14 DEF Spurious, SpuriousWakeup, threadVars
<1>15. CASE Nagios
  <2>1. CASE CreateMain BY <1>2, <2>1 DEF CreateMain, queueVars
  <2>2. CASE CreateClient BY <1>2, <2>2 DEF CreateClient, queueVars
  <2>3. CASE DeinitWithoutThreads
    BY <1>2, <2>3 DEF DeinitWithoutThreads, queueVars
  <2>4. CASE Deinit BY <1>2, <2>4 DEF Deinit, queueVars
  <2>5. CASE JoinMain BY <1>2, <2>5 DEF JoinMain, queueVars
  <2>6. CASE TerminateQueue BY <1>2, <2>6 DEF TerminateQueue, SetTerminating
  <2>7. CASE NotifyAllClients BY <1>2, <2>7 DEF NotifyAllClients, NotifyAll
  <2>8. CASE JoinClients BY <1>2, <2>8 DEF JoinClients, queueVars
  <2> QED BY <1>8, <1>9, <1>15, <2>1, <2>2, <2>3, <2>4, <2>5, <2>6, <2>7, <2>8
          DEF Nagios, Teardown
<1>16. CASE UNCHANGED vars
  BY <1>2, <1>16 DEF vars, queueVars, threadVars
<1> QED BY <1>3, <1>10, <1>11, <1>12, <1>13, <1>14, <1>15, <1>16
        DEF Next, Unloaded

(***************************************************************************)
(* The shutdown.  NothingLeftOpen follows from the ownership of the        *)
(* descriptors once the queue is known to be empty after its destructor.   *)
(***************************************************************************)
QueueGone == nagios = "down" => queue = <<>>

Shutdown == NoUseAfterDelete /\ NobodySleepsAfterTerminate /\ QueueGone

\* At the start the module is neither terminating nor down.
LEMMA InitShutdown == Init => Shutdown
  BY DEF Init, QueueInit, Shutdown, NoUseAfterDelete,
         NobodySleepsAfterTerminate, QueueGone

\* terminate_threads and nebmodule_deinit keep their order: the threads are
\* joined before anything is deleted, and nobody sleeps in the queue.
LEMMA NextShutdown ==
  TypeOK /\ Control /\ Shutdown /\ [Next]_vars => Shutdown'
<1> SUFFICES ASSUME TypeOK, Control, Shutdown, [Next]_vars
             PROVE  Shutdown'
  OBVIOUS
<1> USE ThreadsAssumption
    DEF Shutdown, NoUseAfterDelete, NobodySleepsAfterTerminate, QueueGone,
        TypeOK, Control, Clients, queueVars, threadVars
<1>1. ASSUME NEW c \in Conns, Connect(c) PROVE Shutdown'
  BY <1>1 DEF Connect
<1>2. CASE Main
  <2>1. CASE MainAdd \/ MainNotify
    BY <2>1 DEF MainAdd, Enqueue, MainNotify, NotifyOne
  <2>2. CASE MainLoop \/ NothingAccepted \/ MainLoadCounter \/ MainStoreCounter
    BY <2>2 DEF MainLoop, NothingAccepted, MainLoadCounter, MainStoreCounter
  <2>3. ASSUME NEW c \in Conns, Accept(c) PROVE Shutdown'
    BY <2>3 DEF Accept
  <2> QED BY <1>2, <2>1, <2>2, <2>3 DEF Main
<1>3. ASSUME NEW t \in Clients, ClientStep(t) \/ ClientWait(t) \/ ClientTriggered(t)
      PROVE  Shutdown'
  <2>1. CASE ClientPop(t) \/ ClientPopNothing(t) \/ ClientBlock(t)
    BY <2>1 DEF ClientPop, Dequeue, ClientPopNothing, DequeueNothing,
                ClientBlock, Block
  <2>2. CASE ClientLoop(t) \/ ClientLoadCounter(t) \/ ClientStoreCounter(t)
    BY <2>2 DEF ClientLoop, ClientLoadCounter, ClientStoreCounter
  <2>3. CASE ClientBegin(t) \/ ClientServe(t) \/ ClientAnswer(t)
    BY <2>3 DEF ClientBegin, ClientServe, ClientAnswer
  <2>4. CASE ClientLastAnswer(t) \/ ClientClose(t) \/ ClientEnd(t)
    BY <2>4 DEF ClientLastAnswer, ClientClose, ClientEnd
  <2>5. CASE ClientWait(t) \/ ClientTriggered(t)
    BY <2>5 DEF ClientWait, ClientTriggered
  <2> QED BY <1>3, <2>1, <2>2, <2>3, <2>4, <2>5 DEF ClientStep
<1>4. CASE Spurious
  BY <1>4 DEF Spurious, SpuriousWakeup
<1>5. CASE Nagios
  <2>1. CASE CreateMain \/ CreateClient \/ Deinit
    BY <2>1 DEF CreateMain, CreateClient, Deinit
  <2>5. CASE DeinitWithoutThreads
    <3>1. main = "none" /\ \A t \in Clients : client[t] = "none"
      BY <2>5 DEF DeinitWithoutThreads
    <3>2. waiting = {}
      BY <3>1
    <3> QED BY <2>5, <3>1, <3>2 DEF DeinitWithoutThreads
  <2>2. CASE JoinMain \/ TerminateQueue \/ NotifyAllClients
    BY <2>2 DEF JoinMain, TerminateQueue, SetTerminating, NotifyAllClients,
                NotifyAll
  <2>3. CASE JoinClients \/ CloseSocket
    BY <2>3 DEF JoinClients, CloseSocket
  <2>4. CASE DeleteQueue
    BY <2>4 DEF DeleteQueue, QueueDestroy
  <2> QED BY <1>5, <2>1, <2>2, <2>3, <2>4, <2>5 DEF Nagios, Teardown
<1>6. CASE UNCHANGED vars
  BY <1>6 DEF vars
<1> QED BY <1>1, <1>2, <1>3, <1>4, <1>5, <1>6 DEF Next, Unloaded

\* When the queue is gone and no thread is left, no descriptor has an owner,
\* so none is open.
LEMMA DownMeansClosed ==
  TypeOK /\ Control /\ OneOwner /\ Shutdown => NothingLeftOpen
<1> SUFFICES ASSUME TypeOK, Control, OneOwner, Shutdown, nagios = "down"
             PROVE  {c \in Conns : conn[c] = "open"} = {}
  BY DEF NothingLeftOpen
<1>1. Queued = {}
  BY DEF Shutdown, QueueGone, Queued
<1>2. Held = {}
  BY DEF Shutdown, NoUseAfterDelete, Control, Held
<1>3. accepted = NoFd
  BY DEF Shutdown, NoUseAfterDelete, Control
<1> QED BY <1>1, <1>2, <1>3 DEF OneOwner

(***************************************************************************)
(* No lost wakeup.  A step keeps the bound on the queue when it leaves the *)
(* queue alone and takes neither a thread out of Popping nor a pending     *)
(* notification away; the other steps are counted one by one.              *)
(***************************************************************************)
\* A set of client threads is finite.
LEMMA PoppingFinite ==
  ASSUME NEW S, S \subseteq Clients
  PROVE  IsFiniteSet(S) /\ Cardinality(S) \in Nat
<1>1. IsFiniteSet(Clients)
  BY ThreadsAssumption, FS_Interval DEF Clients
<1> QED BY <1>1, FS_Subset, FS_CardinalityType

\* Every step keeps enough threads on their way to the queue, or the
\* notification of addConnection to come.
LEMMA NextWakeup ==
  TypeOK /\ TypeOK' /\ Control /\ NoLostWakeup /\ [Next]_vars => NoLostWakeup'
<1> SUFFICES ASSUME TypeOK, TypeOK', Control, NoLostWakeup, [Next]_vars
             PROVE  NoLostWakeup'
  OBVIOUS
<1>1. /\ Len(queue) \in Nat /\ Len(queue') \in Nat
      /\ IsFiniteSet(Popping) /\ Cardinality(Popping) \in Nat
      /\ IsFiniteSet(Popping') /\ Cardinality(Popping') \in Nat
  <2>1. Popping \subseteq Clients /\ Popping' \subseteq Clients
    BY DEF Popping
  <2> QED BY <2>1, PoppingFinite DEF TypeOK
<1>2. ASSUME queue' = queue, waiting' \subseteq waiting, Popping \subseteq Popping',
             main = "notify" => main' = "notify"
      PROVE  NoLostWakeup'
  <2>1. Cardinality(Popping) <= Cardinality(Popping')
    BY <1>1, <1>2, FS_Subset
  <2> QED BY <1>1, <1>2, <2>1 DEF NoLostWakeup
<1>3. ASSUME queue' = <<>> PROVE NoLostWakeup'
  BY <1>1, <1>3 DEF NoLostWakeup
<1>4. ASSUME NEW c \in Conns, Connect(c) PROVE NoLostWakeup'
  BY <1>2, <1>4 DEF Connect, queueVars, threadVars, Popping
<1>5. CASE MainAdd
  <2>1. Len(queue') = Len(queue) + 1
    BY <1>5 DEF MainAdd, Enqueue, TypeOK
  <2>2. Popping' = Popping /\ UNCHANGED waiting /\ main # "notify" /\ main' = "notify"
    BY <1>5 DEF MainAdd, Enqueue, Popping
  <2> QED BY <1>1, <2>1, <2>2 DEF NoLostWakeup
<1>6. CASE MainNotify
  <2>1. CASE waiting = {}
    <3>1. waiting' = {}
      BY <1>6, <2>1 DEF MainNotify, NotifyOne
    <3> QED BY <3>1 DEF NoLostWakeup
  <2>2. ASSUME NEW t \in waiting, waiting' = waiting \ {t} PROVE NoLostWakeup'
    <3>1. t \in Clients /\ client[t] = "pop" /\ UNCHANGED <<client, queue>>
      BY <1>6 DEF MainNotify, NotifyOne, Control, TypeOK
    <3>2. Popping' = Popping \cup {t} /\ t \notin Popping
      BY <2>2, <3>1 DEF Popping
    <3>3. Cardinality(Popping') = Cardinality(Popping) + 1
      BY <1>1, <3>2, FS_AddElement
    <3>4. waiting # {}
      BY <2>2
    <3> QED BY <1>1, <1>6, <3>1, <3>3, <3>4 DEF NoLostWakeup, MainNotify
  <2> QED BY <1>6, <2>1, <2>2 DEF MainNotify, NotifyOne
<1>7. ASSUME NEW t \in Clients, ClientPop(t) PROVE NoLostWakeup'
  <2>1. Len(queue') = Len(queue) - 1
    BY <1>7 DEF ClientPop, Dequeue, TypeOK
  <2>2. UNCHANGED <<waiting, main>>
    BY <1>7 DEF ClientPop, Dequeue
  <2>3. t \in Popping /\ Popping' = Popping \ {t}
    BY <1>7 DEF ClientPop, Dequeue, Popping, TypeOK
  <2>4. Cardinality(Popping') = Cardinality(Popping) - 1
    BY <1>1, <2>3, FS_RemoveElement
  <2> QED BY <1>1, <2>1, <2>2, <2>4 DEF NoLostWakeup
<1>8. CASE Main
  <2>1. ASSUME NEW c \in Conns, Accept(c) PROVE NoLostWakeup'
    BY <1>2, <2>1 DEF Accept, queueVars, Popping
  <2>2. CASE MainLoop \/ NothingAccepted \/ MainLoadCounter \/ MainStoreCounter
    BY <1>2, <2>2 DEF MainLoop, NothingAccepted, MainLoadCounter,
                      MainStoreCounter, queueVars, Popping
  <2> QED BY <1>5, <1>6, <1>8, <2>1, <2>2 DEF Main
<1>9. ASSUME NEW t \in Clients,
             ClientStep(t) \/ ClientWait(t) \/ ClientTriggered(t)
      PROVE  NoLostWakeup'
  <2>1. CASE ClientPopNothing(t)
    BY <1>3, <2>1 DEF ClientPopNothing, DequeueNothing, queueVars
  <2>2. CASE ClientBlock(t)
    BY <1>3, <2>2 DEF ClientBlock, Block
  <2>3. CASE ClientLoop(t) \/ ClientLoadCounter(t) \/ ClientStoreCounter(t)
    BY <1>2, <2>3 DEF ClientLoop, ClientLoadCounter, ClientStoreCounter,
                      queueVars, Popping, TypeOK
  <2>4. CASE ClientBegin(t) \/ ClientServe(t) \/ ClientAnswer(t)
    BY <1>2, <2>4 DEF ClientBegin, ClientServe, ClientAnswer, queueVars,
                      Popping, TypeOK
  <2>5. CASE ClientLastAnswer(t) \/ ClientClose(t) \/ ClientEnd(t)
    BY <1>2, <2>5 DEF ClientLastAnswer, ClientClose, ClientEnd, queueVars,
                      Popping, TypeOK
  <2>6. CASE ClientWait(t) \/ ClientTriggered(t)
    BY <1>2, <2>6 DEF ClientWait, ClientTriggered, queueVars, Popping, TypeOK
  <2> QED BY <1>7, <1>9, <2>1, <2>2, <2>3, <2>4, <2>5, <2>6 DEF ClientStep
<1>10. CASE Spurious
  BY <1>2, <1>10 DEF Spurious, SpuriousWakeup, threadVars, Popping
<1>11. CASE Nagios
  <2>1. CASE CreateMain \/ DeinitWithoutThreads \/ Deinit \/ JoinMain
    BY <1>2, <2>1 DEF CreateMain, DeinitWithoutThreads, Deinit, JoinMain,
                      queueVars, Popping, Control
  <2>2. CASE CreateClient
    BY <1>2, <2>2 DEF CreateClient, queueVars, Popping, Control, TypeOK, Clients
  <2>3. CASE TerminateQueue
    BY <1>2, <2>3 DEF TerminateQueue, SetTerminating, Popping
  <2>4. CASE NotifyAllClients
    <3>1. waiting' = {}
      BY <2>4 DEF NotifyAllClients, NotifyAll
    <3> QED BY <3>1 DEF NoLostWakeup
  <2>5. CASE JoinClients \/ CloseSocket
    BY <1>2, <2>5 DEF JoinClients, CloseSocket, queueVars, Popping
  <2>6. CASE DeleteQueue
    BY <1>3, <2>6 DEF DeleteQueue, QueueDestroy
  <2> QED BY <1>11, <2>1, <2>2, <2>3, <2>4, <2>5, <2>6 DEF Nagios, Teardown
<1>12. CASE UNCHANGED vars
  BY <1>2, <1>12 DEF vars, queueVars, threadVars, Popping
<1> QED BY <1>4, <1>8, <1>9, <1>10, <1>11, <1>12 DEF Next, Unloaded

(***************************************************************************)
(* The inductive invariant, and the theorems about the threads.            *)
(***************************************************************************)
IInv == TypeOK /\ Control /\ OneOwner /\ Shutdown /\ NoLostWakeup

\* The inductive invariant holds in every state.
LEMMA Invariance == Spec => []IInv
<1>1. Init => NoLostWakeup
  BY DEF Init, QueueInit, NoLostWakeup
<1>2. Init => IInv
  BY <1>1, InitTyped, InitOwner, InitShutdown DEF IInv
<1>3. IInv /\ [Next]_vars => IInv'
  BY NextTyped, NextOwner, NextShutdown, NextWakeup DEF IInv
<1> QED BY <1>2, <1>3, PTL DEF Spec

\* Every variable keeps its type.
THEOREM TypeCorrect == Spec => []TypeOK
  BY Invariance, PTL DEF IInv

\* Every open descriptor has exactly one owner: none is lost between
\* main_thread, the queue and the client threads, and none is served or
\* closed twice.
THEOREM Ownership == Spec => []OneOwner
  BY Invariance, PTL DEF IInv

\* nebmodule_deinit deletes nothing that a thread still uses.
THEOREM SafeDelete == Spec => []NoUseAfterDelete
<1>1. IInv => NoUseAfterDelete
  BY DEF IInv, Shutdown
<1> QED BY Invariance, <1>1, PTL

\* Once ClientQueue::terminate has notified, no client thread sleeps.
THEOREM TerminateWakesAll == Spec => []NobodySleepsAfterTerminate
<1>1. IInv => NobodySleepsAfterTerminate
  BY DEF IInv, Shutdown
<1> QED BY Invariance, <1>1, PTL

\* When nebmodule_deinit returns, every accepted connection is closed.
THEOREM CleanShutdown == Spec => []NothingLeftOpen
<1>1. IInv => NothingLeftOpen
  BY DownMeansClosed DEF IInv
<1> QED BY Invariance, <1>1, PTL

\* While a client thread sleeps in popConnection, every queued connection has
\* a thread of its own on the way to it or a notification to come.
THEOREM NoWakeupIsLost == Spec => []NoLostWakeup
  BY Invariance, PTL DEF IInv

(***************************************************************************)
(* The threads implement ConnectionService.                                *)
(***************************************************************************)
\* While client thread t has no descriptor, fewer than NumThreads are held.
LEMMA HeldBound ==
  ASSUME TypeOK, NEW t \in Clients, cc[t] = NoFd
  PROVE  Cardinality(Held) < NumThreads
<1> DEFINE Busy == {s \in Clients : cc[s] # NoFd}
           f == [s \in Busy |-> cc[s]]
<1>1. IsFiniteSet(Clients) /\ Cardinality(Clients) = NumThreads
  BY ThreadsAssumption, FS_Interval DEF Clients
<1>2. /\ IsFiniteSet(Clients \ {t})
      /\ Cardinality(Clients \ {t}) = NumThreads - 1
  BY <1>1, FS_RemoveElement
<1>3. Busy \subseteq Clients \ {t}
  OBVIOUS
<1>4. IsFiniteSet(Busy) /\ Cardinality(Busy) <= NumThreads - 1
  BY <1>2, <1>3, FS_Subset
<1>5. f \in Surjection(Busy, Held)
  BY DEF Surjection, Held
<1>6. IsFiniteSet(Held) /\ Cardinality(Held) <= Cardinality(Busy)
  BY <1>4, <1>5, FS_Surjection
<1>7. Cardinality(Held) \in Nat /\ Cardinality(Busy) \in Nat
  BY <1>4, <1>6, FS_CardinalityType
<1> QED BY <1>4, <1>6, <1>7, ThreadsAssumption

\* The module starts with nobody waiting for the service.
LEMMA InitService == Init => ConnectionService!ServiceInit
  BY DEF Init, QueueInit, ConnectionService!ServiceInit, Held

\* A step of the service, or one it does not see.
ServiceStep ==
  [ConnectionService!ServiceNext]_(ConnectionService!serviceVars)

\* Every step of a thread is a step of the service or leaves it alone.
LEMMA NextService == IInv /\ [Next]_vars => ServiceStep
<1> SUFFICES ASSUME IInv, [Next]_vars
             PROVE  ServiceStep
  OBVIOUS
<1> DEFINE Closed == {c \in Conns : conn[c] = "closed"}
<1> USE ThreadsAssumption
<1>0. TypeOK /\ Control /\ OneOwner /\ Shutdown
  BY DEF IInv
<1>1. ASSUME UNCHANGED <<queue, cc>>, Closed' = Closed,
             nagios' = "down" <=> nagios = "down"
      PROVE  ServiceStep
  <2>1. Held' = Held
    BY <1>1 DEF Held
  <2>2. (nagios # "down")' = (nagios # "down")
    BY <1>1
  <2> QED BY <1>1, <2>1, <2>2 DEF ServiceStep, ConnectionService!serviceVars
<1> HIDE DEF Closed
<1>2. ASSUME UNCHANGED <<queue, cc, conn, nagios>> PROVE ServiceStep
  BY <1>1, <1>2 DEF Closed
\* Connecting, accepting and refusing are no business of the service.
<1>3. ASSUME NEW c \in Conns, Connect(c) \/ Accept(c) PROVE ServiceStep
  BY <1>0, <1>1, <1>3 DEF Connect, Accept, queueVars, threadVars, Closed, TypeOK
<1>4. CASE CloseSocket
  BY <1>0, <1>1, <1>4 DEF CloseSocket, queueVars, Closed, TypeOK
<1>5. CASE MainAdd
  <2>1. nagios # "down" /\ accepted \in Conns
    BY <1>0, <1>5 DEF MainAdd, Shutdown, NoUseAfterDelete, Control, TypeOK
  <2>2. accepted \notin Queued \cup Held \cup Closed
    BY <1>0, <2>1 DEF OneOwner, Closed
  <2>3. /\ queue' = Append(queue, accepted)
        /\ Held' = Held /\ Closed' = Closed /\ UNCHANGED nagios
    BY <1>0, <1>5 DEF MainAdd, Enqueue, Held, Closed
  <2>4. ConnectionService!Arrive(accepted)
    BY <2>1, <2>2, <2>3
    DEF ConnectionService!Arrive, ConnectionService!InLine, Queued, Closed
  <2> QED BY <2>1, <2>4 DEF ServiceStep, ConnectionService!ServiceNext
<1>6. ASSUME NEW t \in Clients, ClientPop(t) PROVE ServiceStep
  <2>1. nagios # "down" /\ cc[t] = NoFd
    BY <1>0, <1>6 DEF ClientPop, Shutdown, NoUseAfterDelete, Control
  <2>2. queue # <<>> /\ queue' = Tail(queue) /\ Head(queue) \in Conns
    BY <1>0, <1>6 DEF ClientPop, Dequeue, TypeOK
  <2>3. Held' = Held \cup {Head(queue)}
    BY <1>0, <1>6, <2>1, <2>2 DEF ClientPop, Held, TypeOK
  <2>4. Cardinality(Held) < NumThreads
    BY <1>0, <2>1, HeldBound
  <2>5. Closed' = Closed /\ UNCHANGED nagios
    BY <1>0, <1>6 DEF ClientPop, Closed
  <2>6. (nagios # "down")' = (nagios # "down")
    BY <2>5
  <2>7. ConnectionService!Cardinality(Held) = Cardinality(Held)
    BY DEF ConnectionService!Cardinality, Cardinality
  <2>8. ConnectionService!Begin
    BY <2>1, <2>2, <2>3, <2>4, <2>5, <2>6, <2>7
    DEF ConnectionService!Begin, Closed
  <2> QED BY <2>8 DEF ServiceStep, ConnectionService!ServiceNext
<1>7. ASSUME NEW t \in Clients, ClientClose(t) PROVE ServiceStep
  <2>1. cc[t] \in Conns /\ cc[t] \in Held
    BY <1>0, <1>7 DEF ClientClose, Control, TypeOK, Held
  <2>2. Held' = Held \ {cc[t]}
    BY <1>0, <1>7, <2>1 DEF ClientClose, Held, TypeOK, OneOwner
  <2>3. Closed' = Closed \cup {cc[t]} /\ UNCHANGED <<queue, nagios>>
    BY <1>0, <1>7, <2>1 DEF ClientClose, Closed, TypeOK, queueVars
  <2>4. PICK c \in Conns : c = cc[t]
    BY <2>1
  <2>5. ConnectionService!Finish(c)
    BY <2>1, <2>2, <2>3, <2>4 DEF ConnectionService!Finish, Closed
  <2> QED BY <2>5 DEF ServiceStep, ConnectionService!ServiceNext
<1>8. CASE DeleteQueue
  <2>1. Held = {} /\ Held' = Held
    BY <1>0, <1>8 DEF DeleteQueue, Shutdown, NoUseAfterDelete, Control, Held
  <2>2. Closed' = Closed \cup Queued /\ queue' = <<>>
    BY <1>0, <1>8 DEF DeleteQueue, QueueDestroy, Closed, Queued, TypeOK
  <2>3. nagios = "delete" /\ nagios' = "down"
    BY <1>0, <1>8 DEF DeleteQueue
  <2>4. ConnectionService!Stop
    BY <2>1, <2>2, <2>3
    DEF ConnectionService!Stop, ConnectionService!InLine, Queued, Closed
  <2> QED BY <2>4 DEF ServiceStep, ConnectionService!ServiceNext
<1>9. CASE Main
  <2>1. CASE MainLoop \/ NothingAccepted \/ MainLoadCounter \/ MainStoreCounter
    BY <1>2, <2>1 DEF MainLoop, NothingAccepted, MainLoadCounter,
                      MainStoreCounter, queueVars
  <2>2. CASE MainNotify
    BY <1>2, <2>2 DEF MainNotify, NotifyOne
  <2> QED BY <1>3, <1>5, <1>9, <2>1, <2>2 DEF Main
<1>10. ASSUME NEW t \in Clients,
             ClientStep(t) \/ ClientWait(t) \/ ClientTriggered(t)
      PROVE  ServiceStep
  <2>1. CASE ClientPopNothing(t) \/ ClientBlock(t)
    BY <1>2, <2>1 DEF ClientPopNothing, DequeueNothing, ClientBlock, Block,
                      queueVars, threadVars
  <2>2. CASE ClientLoop(t) \/ ClientLoadCounter(t) \/ ClientStoreCounter(t)
    BY <1>2, <2>2 DEF ClientLoop, ClientLoadCounter, ClientStoreCounter,
                      queueVars
  <2>3. CASE ClientBegin(t) \/ ClientServe(t) \/ ClientAnswer(t)
    BY <1>2, <2>3 DEF ClientBegin, ClientServe, ClientAnswer, queueVars
  <2>4. CASE ClientLastAnswer(t) \/ ClientEnd(t)
    BY <1>2, <2>4 DEF ClientLastAnswer, ClientEnd, queueVars
  <2>5. CASE ClientWait(t) \/ ClientTriggered(t)
    BY <1>2, <2>5 DEF ClientWait, ClientTriggered, queueVars
  <2> QED BY <1>6, <1>7, <1>10, <2>1, <2>2, <2>3, <2>4, <2>5 DEF ClientStep
<1>11. CASE Spurious
  BY <1>2, <1>11 DEF Spurious, SpuriousWakeup, threadVars
<1>12. CASE Nagios
  <2>1. CASE CreateMain \/ CreateClient \/ DeinitWithoutThreads
    BY <1>1, <2>1 DEF CreateMain, CreateClient, DeinitWithoutThreads,
                      queueVars, Closed
  <2>2. CASE Deinit \/ JoinMain \/ JoinClients
    BY <1>1, <2>2 DEF Deinit, JoinMain, JoinClients, queueVars, Closed
  <2>3. CASE TerminateQueue \/ NotifyAllClients
    BY <1>1, <2>3 DEF TerminateQueue, SetTerminating, NotifyAllClients,
                      NotifyAll, Closed
  <2> QED BY <1>4, <1>8, <1>12, <2>1, <2>2, <2>3 DEF Nagios, Teardown
<1>13. CASE UNCHANGED vars
  BY <1>2, <1>13 DEF vars, queueVars, threadVars
<1> QED BY <1>3, <1>9, <1>10, <1>11, <1>12, <1>13 DEF Next, Unloaded

\* Connections are served first come first served, at most one per client
\* thread, each once, and not at all after the module is down.
THEOREM ThreadsImplementService == Spec => ImplementsService
<1>1. Init => ConnectionService!ServiceInit
  BY InitService
<1>2. IInv /\ [Next]_vars => [ConnectionService!ServiceNext]_(ConnectionService!serviceVars)
  BY NextService DEF ServiceStep
<1> QED BY <1>1, <1>2, Invariance, PTL
        DEF Spec, ImplementsService, ConnectionService!Service
=============================================================================
