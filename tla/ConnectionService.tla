-------------------------- MODULE ConnectionService --------------------------
(***************************************************************************)
(* What the threads of the NEB module promise to the clients, without the  *)
(* threads: connections are served in the order in which they came in, at  *)
(* most MaxActive at a time, each of them once; when the service stops, it *)
(* drops the line only after the last connection in service has ended, and *)
(* nothing is served afterwards.                                           *)
(***************************************************************************)
EXTENDS Sequences, Naturals, FiniteSets

CONSTANTS Conns, MaxActive

VARIABLES line,       \* the connections waiting for service, oldest first
          inService,  \* the connections being served
          finished,   \* the connections that have been closed
          open        \* does the service accept and serve connections?

serviceVars == <<line, inService, finished, open>>

InLine == {line[i] : i \in DOMAIN line}

ServiceInit ==
    /\ line = <<>>
    /\ inService = {}
    /\ finished = {}
    /\ open = TRUE

Arrive(c) ==
    /\ open
    /\ c \notin InLine \cup inService \cup finished
    /\ line' = Append(line, c)
    /\ UNCHANGED <<inService, finished, open>>

Begin ==
    /\ open
    /\ line # <<>>
    /\ Cardinality(inService) < MaxActive
    /\ inService' = inService \cup {Head(line)}
    /\ line' = Tail(line)
    /\ UNCHANGED <<finished, open>>

Finish(c) ==
    /\ c \in inService
    /\ inService' = inService \ {c}
    /\ finished' = finished \cup {c}
    /\ UNCHANGED <<line, open>>

Stop ==
    /\ open
    /\ inService = {}
    /\ open' = FALSE
    /\ finished' = finished \cup InLine
    /\ line' = <<>>
    /\ UNCHANGED inService

ServiceNext ==
    \/ \E c \in Conns : Arrive(c) \/ Finish(c)
    \/ Begin
    \/ Stop

Service == ServiceInit /\ [][ServiceNext]_serviceVars
==============================================================================
