-------------------------- MODULE LivestatusThreads --------------------------
(***************************************************************************)
(* The threads of the NEB module and the life of a client connection:      *)
(* src/module.cc with src/ClientQueue.cc.                                  *)
(*                                                                         *)
(*  - the Nagios thread starts the others, and joins them in               *)
(*    nebmodule_deinit before it destroys what they use;                   *)
(*  - the socket thread (main_thread) accepts connections and queues them; *)
(*  - every client thread pops a connection, answers its requests, closes  *)
(*    it and pops the next one.                                            *)
(*                                                                         *)
(* A connection stands for its file descriptor; the kernel's reuse of      *)
(* descriptor numbers is why it must be closed exactly once.               *)
(* fl_should_terminate is a plain bool read by every thread: its address   *)
(* escapes, so each read is a load and returns the value last stored.  The *)
(* ++ and -- of the plain int g_num_queued_connections are a load and a    *)
(* store.                                                                  *)
(***************************************************************************)
EXTENDS ClientQueue, Integers, FiniteSets

CONSTANTS Conns,       \* the connections clients may open
          NoFd,        \* the -1 popConnection returns instead of a descriptor
          NumThreads,  \* g_livestatus_threads
          WaitQueries  \* may a request block in Query::doWait without limit?

ASSUME ThreadsAssumption ==
    /\ IsFiniteSet(Conns)
    /\ NoFd \notin Conns
    /\ NumThreads \in Nat
    /\ WaitQueries \in BOOLEAN

Clients == 1 .. NumThreads

VARIABLES conn,             \* the state of each connection
          nagios,           \* where the Nagios thread is
          created,          \* number of threads pthread_create was called for
          main,             \* where the socket thread is
          accepted,         \* cc of main_thread
          client,           \* where each client thread is
          cc,               \* cc of each client_thread
          shouldTerminate,  \* fl_should_terminate
          numQueued,        \* g_num_queued_connections
          register,         \* what a thread has loaded from numQueued
          active            \* g_livestatus_active_connections

threadVars == <<nagios, created, main, accepted, client, cc, shouldTerminate>>
counterVars == <<numQueued, register, active>>
vars == <<queueVars, conn, threadVars, counterVars>>

\* The socket thread is thread 0 of fl_thread_info.
Socket == 0

Init ==
    /\ QueueInit
    /\ conn = [c \in Conns |-> "new"]
    /\ nagios = "loaded"
    /\ created = 0
    /\ main = "none"
    /\ accepted = NoFd
    /\ client = [t \in Clients |-> "none"]
    /\ cc = [t \in Clients |-> NoFd]
    /\ shouldTerminate = FALSE
    /\ numQueued = 0
    /\ register = [t \in {Socket} \cup Clients |-> 0]
    /\ active = 0

------------------------------------------------------------------------------
\* The environment: a client connects to the listening socket, which exists
\* from nebmodule_init to close_unix_socket.
Connect(c) ==
    /\ conn[c] = "new"
    /\ nagios \notin {"delete", "down"}
    /\ conn' = [conn EXCEPT ![c] = "backlog"]
    /\ UNCHANGED <<queueVars, threadVars, counterVars>>

------------------------------------------------------------------------------
\* The socket thread.

\* while (!fl_should_terminate)
MainLoop ==
    /\ main = "loop"
    /\ main' = IF shouldTerminate THEN "exited" ELSE "poll"
    /\ UNCHANGED <<queueVars, conn, nagios, created, accepted, client, cc,
                   shouldTerminate, counterVars>>

\* poll reports the socket readable and accept returns a descriptor.
Accept(c) ==
    /\ main = "poll"
    /\ conn[c] = "backlog"
    /\ conn' = [conn EXCEPT ![c] = "open"]
    /\ accepted' = c
    /\ main' = "add"
    /\ UNCHANGED <<queueVars, nagios, created, client, cc, shouldTerminate,
                   counterVars>>

\* poll times out after 2.5 seconds or fails, or accept returns -1.
NothingAccepted ==
    /\ main = "poll"
    /\ main' = "loop"
    /\ UNCHANGED <<queueVars, conn, nagios, created, accepted, client, cc,
                   shouldTerminate, counterVars>>

\* addConnection, its critical section: cc is the queue's from here on.
MainAdd ==
    /\ main = "add"
    /\ Enqueue(accepted)
    /\ accepted' = NoFd
    /\ main' = "notify"
    /\ UNCHANGED <<conn, nagios, created, client, cc, shouldTerminate,
                   counterVars>>

\* addConnection, its notification.
MainNotify ==
    /\ main = "notify"
    /\ NotifyOne
    /\ main' = "load"
    /\ UNCHANGED <<conn, nagios, created, accepted, client, cc,
                   shouldTerminate, counterVars>>

\* g_num_queued_connections++
MainLoadCounter ==
    /\ main = "load"
    /\ register' = [register EXCEPT ![Socket] = numQueued]
    /\ main' = "store"
    /\ UNCHANGED <<queueVars, conn, nagios, created, accepted, client, cc,
                   shouldTerminate, numQueued, active>>

MainStoreCounter ==
    /\ main = "store"
    /\ numQueued' = register[Socket] + 1
    /\ main' = "loop"
    /\ UNCHANGED <<queueVars, conn, nagios, created, accepted, client, cc,
                   shouldTerminate, register, active>>

Main ==
    \/ MainLoop
    \/ \E c \in Conns : Accept(c)
    \/ NothingAccepted
    \/ MainAdd
    \/ MainNotify
    \/ MainLoadCounter
    \/ MainStoreCounter

------------------------------------------------------------------------------
\* Client thread t.

\* while (!fl_should_terminate)
ClientLoop(t) ==
    /\ client[t] = "loop"
    /\ client' = [client EXCEPT ![t] = IF shouldTerminate THEN "exited"
                                                          ELSE "pop"]
    /\ UNCHANGED <<queueVars, conn, nagios, created, main, accepted, cc,
                   shouldTerminate, counterVars>>

\* popConnection returns a descriptor: cc is the thread's from here on.
ClientPop(t) ==
    /\ client[t] = "pop"
    /\ Dequeue(t)
    /\ cc' = [cc EXCEPT ![t] = Head(queue)]
    /\ client' = [client EXCEPT ![t] = "load"]
    /\ UNCHANGED <<conn, nagios, created, main, accepted, shouldTerminate,
                   counterVars>>

\* popConnection returns -1; the counters are updated all the same.
ClientPopNothing(t) ==
    /\ client[t] = "pop"
    /\ DequeueNothing(t)
    /\ client' = [client EXCEPT ![t] = "load"]
    /\ UNCHANGED <<conn, nagios, created, main, accepted, cc, shouldTerminate,
                   counterVars>>

\* popConnection blocks.
ClientBlock(t) ==
    /\ client[t] = "pop"
    /\ Block(t)
    /\ UNCHANGED <<conn, threadVars, counterVars>>

\* g_num_queued_connections--
ClientLoadCounter(t) ==
    /\ client[t] = "load"
    /\ register' = [register EXCEPT ![t] = numQueued]
    /\ client' = [client EXCEPT ![t] = "store"]
    /\ UNCHANGED <<queueVars, conn, nagios, created, main, accepted, cc,
                   shouldTerminate, numQueued, active>>

ClientStoreCounter(t) ==
    /\ client[t] = "store"
    /\ numQueued' = register[t] - 1
    /\ client' = [client EXCEPT ![t] = "begin"]
    /\ UNCHANGED <<queueVars, conn, nagios, created, main, accepted, cc,
                   shouldTerminate, register, active>>

\* g_livestatus_active_connections++ (atomic); if (cc >= 0)
ClientBegin(t) ==
    /\ client[t] = "begin"
    /\ active' = active + 1
    /\ client' = [client EXCEPT ![t] = IF cc[t] = NoFd THEN "end" ELSE "serve"]
    /\ UNCHANGED <<queueVars, conn, nagios, created, main, accepted, cc,
                   shouldTerminate, numQueued, register>>

\* while (keepalive && !fl_should_terminate), keepalive being true
ClientServe(t) ==
    /\ client[t] = "serve"
    /\ client' = [client EXCEPT ![t] = IF shouldTerminate THEN "close"
                                                          ELSE "request"]
    /\ UNCHANGED <<queueVars, conn, nagios, created, main, accepted, cc,
                   shouldTerminate, counterVars>>

\* answerRequest returns keepalive = TRUE: the loop goes on.
ClientAnswer(t) ==
    /\ client[t] = "request"
    /\ client' = [client EXCEPT ![t] = "serve"]
    /\ UNCHANGED <<queueVars, conn, nagios, created, main, accepted, cc,
                   shouldTerminate, counterVars>>

\* Mutant of ClientLastAnswer: the early return forgets close(cc).
ClientLastAnswerLeaking(t) ==
    /\ client[t] = "request"
    /\ cc' = [cc EXCEPT ![t] = NoFd]
    /\ client' = [client EXCEPT ![t] = "end"]
    /\ UNCHANGED <<queueVars, conn, nagios, created, main, accepted,
                   shouldTerminate, counterVars>>

\* answerRequest returns keepalive = FALSE: a request without KeepAlive, end
\* of file, a timeout, or the termination flag seen while reading.
ClientLastAnswer(t) ==
    /\ client[t] = "request"
    /\ client' = [client EXCEPT ![t] = "close"]
    /\ UNCHANGED <<queueVars, conn, nagios, created, main, accepted, cc,
                   shouldTerminate, counterVars>>

\* answerRequest blocks in Query::doWait: without a WaitTimeout only a
\* trigger ends this, the termination flag does not.
ClientWait(t) ==
    /\ WaitQueries
    /\ client[t] = "request"
    /\ client' = [client EXCEPT ![t] = "doWait"]
    /\ UNCHANGED <<queueVars, conn, nagios, created, main, accepted, cc,
                   shouldTerminate, counterVars>>

ClientTriggered(t) ==
    /\ client[t] = "doWait"
    /\ client' = [client EXCEPT ![t] = "request"]
    /\ UNCHANGED <<queueVars, conn, nagios, created, main, accepted, cc,
                   shouldTerminate, counterVars>>

\* close(cc)
ClientClose(t) ==
    /\ client[t] = "close"
    /\ conn' = [conn EXCEPT ![cc[t]] = "closed"]
    /\ cc' = [cc EXCEPT ![t] = NoFd]
    /\ client' = [client EXCEPT ![t] = "end"]
    /\ UNCHANGED <<queueVars, nagios, created, main, accepted,
                   shouldTerminate, counterVars>>

\* g_livestatus_active_connections-- (atomic)
ClientEnd(t) ==
    /\ client[t] = "end"
    /\ active' = active - 1
    /\ client' = [client EXCEPT ![t] = "loop"]
    /\ UNCHANGED <<queueVars, conn, nagios, created, main, accepted, cc,
                   shouldTerminate, numQueued, register>>

\* What a client thread does of its own accord.
ClientStep(t) ==
    \/ ClientLoop(t)
    \/ ClientPop(t)
    \/ ClientPopNothing(t)
    \/ ClientBlock(t)
    \/ ClientLoadCounter(t)
    \/ ClientStoreCounter(t)
    \/ ClientBegin(t)
    \/ ClientServe(t)
    \/ ClientAnswer(t)
    \/ ClientLastAnswer(t)
    \/ ClientClose(t)
    \/ ClientEnd(t)

Spurious ==
    /\ SpuriousWakeup
    /\ UNCHANGED <<conn, threadVars, counterVars>>

------------------------------------------------------------------------------
\* The Nagios thread.

\* start_threads with g_thread_running == 0: the next pthread_create.
CreateMain ==
    /\ nagios = "loaded"
    /\ created = 0
    /\ main' = "loop"
    /\ created' = 1
    /\ nagios' = IF NumThreads = 0 THEN "running" ELSE "loaded"
    /\ UNCHANGED <<queueVars, conn, accepted, client, cc, shouldTerminate,
                   counterVars>>

CreateClient ==
    /\ nagios = "loaded"
    /\ created \in Clients
    /\ client' = [client EXCEPT ![created] = "loop"]
    /\ created' = created + 1
    /\ nagios' = IF created = NumThreads THEN "running" ELSE "loaded"
    /\ UNCHANGED <<queueVars, conn, main, accepted, cc, shouldTerminate,
                   counterVars>>

\* nebmodule_deinit before the threads were started: nothing to terminate.
DeinitWithoutThreads ==
    /\ nagios = "loaded"
    /\ created = 0
    /\ nagios' = "closeSocket"
    /\ UNCHANGED <<queueVars, conn, created, main, accepted, client, cc,
                   shouldTerminate, counterVars>>

\* nebmodule_deinit: terminate_threads sets the flag ...
Deinit ==
    /\ nagios = "running"
    /\ shouldTerminate' = TRUE
    /\ nagios' = "joinMain"
    /\ UNCHANGED <<queueVars, conn, created, main, accepted, client, cc,
                   counterVars>>

\* ... joins the socket thread ...
JoinMain ==
    /\ nagios = "joinMain"
    /\ main = "exited"
    /\ nagios' = "terminate"
    /\ UNCHANGED <<queueVars, conn, created, main, accepted, client, cc,
                   shouldTerminate, counterVars>>

\* ... calls ClientQueue::terminate ...
TerminateQueue ==
    /\ nagios = "terminate"
    /\ SetTerminating
    /\ nagios' = "notifyAll"
    /\ UNCHANGED <<conn, created, main, accepted, client, cc, shouldTerminate,
                   counterVars>>

NotifyAllClients ==
    /\ nagios = "notifyAll"
    /\ NotifyAll
    /\ nagios' = "joinClients"
    /\ UNCHANGED <<conn, created, main, accepted, client, cc, shouldTerminate,
                   counterVars>>

\* Mutant of JoinClients: only the socket thread is joined.
JoinNoClients ==
    /\ nagios = "joinClients"
    /\ shouldTerminate' = FALSE
    /\ nagios' = "closeSocket"
    /\ UNCHANGED <<queueVars, conn, created, main, accepted, client, cc,
                   counterVars>>

\* ... joins all threads and resets the flag.
JoinClients ==
    /\ nagios = "joinClients"
    /\ \A t \in Clients : client[t] = "exited"
    /\ shouldTerminate' = FALSE
    /\ nagios' = "closeSocket"
    /\ UNCHANGED <<queueVars, conn, created, main, accepted, client, cc,
                   counterVars>>

\* close_unix_socket: whoever is still in the backlog is refused.
CloseSocket ==
    /\ nagios = "closeSocket"
    /\ conn' = [c \in Conns |-> IF conn[c] = "backlog" THEN "refused"
                                                       ELSE conn[c]]
    /\ nagios' = "delete"
    /\ UNCHANGED <<queueVars, created, main, accepted, client, cc,
                   shouldTerminate, counterVars>>

\* Mutant of DeleteQueue: the destructor forgets the queued descriptors.
DeleteQueueLeaking ==
    /\ nagios = "delete"
    /\ QueueDestroy
    /\ nagios' = "down"
    /\ UNCHANGED <<conn, created, main, accepted, client, cc,
                   shouldTerminate, counterVars>>

\* delete fl_client_queue: ~ClientQueue closes what is left in the queue.
DeleteQueue ==
    /\ nagios = "delete"
    /\ conn' = [c \in Conns |-> IF \E i \in DOMAIN queue : queue[i] = c
                                THEN "closed" ELSE conn[c]]
    /\ QueueDestroy
    /\ nagios' = "down"
    /\ UNCHANGED <<created, main, accepted, client, cc, shouldTerminate,
                   counterVars>>

\* What the Nagios thread does once nebmodule_deinit has been called.
Teardown ==
    \/ JoinMain
    \/ TerminateQueue
    \/ NotifyAllClients
    \/ JoinClients
    \/ CloseSocket
    \/ DeleteQueue

Nagios ==
    \/ CreateMain
    \/ CreateClient
    \/ DeinitWithoutThreads
    \/ Deinit
    \/ Teardown

\* The unloaded module does nothing more.
Unloaded ==
    /\ nagios = "down"
    /\ UNCHANGED vars

Next ==
    \/ \E c \in Conns : Connect(c)
    \/ Main
    \/ \E t \in Clients : ClientStep(t) \/ ClientWait(t) \/ ClientTriggered(t)
    \/ Spurious
    \/ Nagios
    \/ Unloaded

(***************************************************************************)
(* The scheduler runs every thread that can run.  poll reports a pending   *)
(* connection and accept does not fail for ever (SF on Accept), clients do *)
(* not keep a connection busy for ever (SF on ClientLastAnswer: they hang  *)
(* up, or the idle timeout closes the connection).  Nothing forces a       *)
(* client to connect, Nagios to unload the module, or a trigger to fire.   *)
(***************************************************************************)
Fairness ==
    /\ WF_vars(Main)
    /\ SF_vars(\E c \in Conns : Accept(c))
    /\ \A t \in Clients : /\ WF_vars(ClientStep(t))
                          /\ SF_vars(ClientLastAnswer(t))
    /\ WF_vars(CreateMain \/ CreateClient)
    /\ WF_vars(Teardown)

Spec == Init /\ [][Next]_vars
FairSpec == Spec /\ Fairness

------------------------------------------------------------------------------
MainStates == {"none", "loop", "poll", "add", "notify", "load", "store",
               "exited"}
ClientStates == {"none", "loop", "pop", "load", "store", "begin", "serve",
                 "request", "doWait", "close", "end", "exited"}
NagiosStates == {"loaded", "running", "joinMain", "terminate", "notifyAll",
                 "joinClients", "closeSocket", "delete", "down"}
ConnStates == {"new", "backlog", "refused", "open", "closed"}

\* Every variable has its type.
TypeOK ==
    /\ queue \in Seq(Conns)
    /\ queueTerminating \in BOOLEAN
    /\ waiting \subseteq Clients
    /\ conn \in [Conns -> ConnStates]
    /\ nagios \in NagiosStates
    /\ created \in 0 .. NumThreads + 1
    /\ main \in MainStates
    /\ accepted \in Conns \cup {NoFd}
    /\ client \in [Clients -> ClientStates]
    /\ cc \in [Clients -> Conns \cup {NoFd}]
    /\ shouldTerminate \in BOOLEAN
    /\ numQueued \in Int
    /\ register \in [{Socket} \cup Clients -> Int]
    /\ active \in Int

\* The connections in the queue, and those a client thread works on.
Queued == {queue[i] : i \in DOMAIN queue}
Held == {cc[t] : t \in Clients} \ {NoFd}

\* An open descriptor has exactly one owner: main_thread between accept and
\* addConnection, one place in the queue, or one client thread.  So none is
\* lost, served twice, or closed while another thread still uses its number.
OneOwner ==
    /\ {c \in Conns : conn[c] = "open"} = Queued \cup Held \cup ({accepted} \ {NoFd})
    /\ \A i, j \in DOMAIN queue : queue[i] = queue[j] => i = j
    /\ \A s, t \in Clients : cc[s] = cc[t] /\ cc[s] # NoFd => s = t
    /\ Queued \cap Held = {}
    /\ accepted \notin Queued \cup Held

\* Where the threads can be relative to each other and to what they hold; the
\* part of the inductive invariant that is about control.
Control ==
    /\ main = "add" <=> accepted # NoFd
    /\ \A t \in Clients :
        /\ cc[t] # NoFd => client[t] \in {"load", "store", "begin", "serve",
                                        "request", "doWait", "close"}
        /\ client[t] \in {"serve", "request", "doWait", "close"} => cc[t] # NoFd
        /\ t \in waiting => client[t] = "pop"
    /\ nagios = "loaded" =>
        /\ created = 0 => main = "none"
        /\ \A t \in Clients : t >= created => client[t] = "none"
    /\ nagios \in {"terminate", "notifyAll", "joinClients"} => main = "exited"
    /\ nagios \in {"notifyAll", "joinClients"} => queueTerminating

\* The client threads that have entered popConnection and are not blocked.
Popping == {t \in Clients : client[t] = "pop" /\ t \notin waiting}

\* No lost wakeup: if a client thread sleeps in popConnection then every
\* queued connection has its own thread on the way to it, or a notify_one to
\* come.  addConnection notifies after it has released the mutex.
NoLostWakeup ==
    waiting # {} =>
        Len(queue) <= Cardinality(Popping) + (IF main = "notify" THEN 1 ELSE 0)

\* After ClientQueue::terminate has notified no thread sleeps in the queue
\* any more, and none can go to sleep: joining the client threads is safe.
NobodySleepsAfterTerminate ==
    nagios \in {"joinClients", "closeSocket", "delete", "down"} => waiting = {}

\* close_unix_socket and the deletes of nebmodule_deinit happen when no thread
\* that uses the socket, the store or the queue is left.
NoUseAfterDelete ==
    nagios \in {"closeSocket", "delete", "down"} =>
        /\ main \in {"none", "exited"}
        /\ \A t \in Clients : client[t] \in {"none", "exited"}

\* When nebmodule_deinit returns, every connection ever accepted is closed.
NothingLeftOpen == nagios = "down" => \A c \in Conns : conn[c] # "open"

\* A wait query without a WaitTimeout does not look at the termination flag, and
\* the Nagios thread, which would fire its trigger, is the one that joins.  The
\* properties below except threads in a wait; and they assume (SF on
\* ClientLastAnswer) that clients read their answers and come to an end.  Otherwise
\* they assume only that a thread that can run does run.
InWait(t) == client[t] = "doWait"

\* A connection that has been queued is taken by a client thread, or the
\* module is being terminated, or all client threads are busy waiting.
QueuedIsServed ==
    \A c \in Conns :
        c \in Queued /\ nagios = "running"
            ~> c \in Held \/ nagios # "running" \/ \A t \in Clients : InWait(t)

\* nebmodule_deinit returns, every thread notices the termination, unless one
\* of them sits in a wait query.
DeinitReturns == nagios = "joinMain" ~> nagios = "down" \/ \E t \in Clients : InWait(t)

\* A client that has connected is accepted or refused, and in the end its
\* connection is closed by someone, unless there is a wait query in the way.
ConnectionIsClosed ==
    \A c \in Conns : conn[c] = "backlog" /\ nagios = "running"
        ~> conn[c] \in {"closed", "refused"} \/ \E t \in Clients : InWait(t)
------------------------------------------------------------------------------
\* The threads implement the service: addConnection lets a connection arrive,
\* popConnection begins to serve it, close ends that, and the destructor of
\* the queue stops the service.
ConnectionService ==
    INSTANCE ConnectionService WITH
        MaxActive <- NumThreads,
        line <- queue,
        inService <- Held,
        finished <- {c \in Conns : conn[c] = "closed"},
        open <- nagios # "down"

\* First come, first served; never more than one thread per connection; no
\* service after the queue is gone.
ImplementsService == ConnectionService!Service
==============================================================================
