------------------------------ MODULE NebModule ------------------------------
(***************************************************************************)
(* The broker module in the Nagios thread: nebmodule_init, the callbacks   *)
(* of module.cc, nebmodule_deinit, and what the callbacks keep: the        *)
(* registries of downtimes and comments (DowntimesOrComments.cc) and the   *)
(* cache of timeperiods (TimeperiodsCache.cc).  Client threads wait for    *)
(* triggers (WaitTriggers) and walk over the registries (TableDowntimes,   *)
(* TableComments) at the same time.                                        *)
(*                                                                         *)
(* The registries are plain std::maps without a lock.  A callback changes  *)
(* one in two steps: a walk that moves on in between is lost (it may end   *)
(* up anywhere), and so is one whose entry is erased.  Starting and        *)
(* joining the threads is in LivestatusThreads.  Left out are the counters *)
(* (only the status table shows them) and what is logged, except for the   *)
(* timeperiod transitions, which the state history reads back.             *)
(***************************************************************************)
EXTENDS Naturals

CONSTANTS Waiters, NoWaiter, WaitTrigger, \* see WaitTriggers
          Ids,     \* the ids of downtimes and those of comments
          End,     \* the position after the last entry
          Periods  \* timeperiod_list

\* The maps _downtimes and _comments of Store, named like their triggers.
Registries == {"downtime", "comment"}

VARIABLES pc, kind, timed, expired, cond, mutex, todo, due, missed, \* WaitTriggers
          phase,      \* of the module's life
          registered, \* the callbacks Nagios knows of
          listed,     \* the downtimes and comments that Nagios has
          entries,    \* the keys of each registry
          change,     \* the change of a registry that is being made
          walk,       \* the walk of each client over a registry
          inside,     \* the periods the time is in (check_time_against_period)
          cache,      \* TimeperiodsCache::_cache
          recent,     \* was _last_update less than a minute ago?
          logged,     \* the state of each period the log tells last
          flipped     \* ghost: periods begun or ended since the last update

Triggers == INSTANCE WaitTriggers

ASSUME NebModuleAssumption ==
    /\ NoWaiter \notin Waiters
    /\ WaitTrigger \subseteq Triggers!Kinds
    /\ End \in Nat
    /\ Ids \in [Registries -> SUBSET (0 .. End - 1)]

triggerVars == <<pc, kind, timed, expired, cond, mutex, todo, due, missed>>
periodVars == <<inside, cache, recent, logged, flipped>>
vars == <<triggerVars, phase, registered, listed, entries, change, walk, periodVars>>

\* The type of a callback and the function registered for it.
NebCallbacks ==
    {<<"host_status", "broker_host">>, <<"comment", "broker_comment">>,
     <<"downtime", "broker_downtime">>, <<"service_check", "broker_check">>,
     <<"host_check", "broker_check">>, <<"log", "broker_log">>,
     <<"external_command", "broker_command">>, <<"state_change", "broker_state">>,
     <<"adaptive_program", "broker_program">>, <<"process", "broker_process">>,
     <<"timed_event", "broker_event">>}

\* deregister_callbacks names the wrong function for process data.
DeregisteredCallbacks ==
    (NebCallbacks \ {<<"process", "broker_process">>})
        \cup {<<"process", "broker_program">>}

\* verify_event_broker_options
NeededOptions ==
    {"program_state", "timed_events", "service_checks", "host_checks",
     "logged_data", "comment_data", "downtime_data", "status_data",
     "adaptive_data", "externalcommand_data", "statechange_data"}

NoChange == [registry |-> "none"]
NoWalk == [registry |-> "none"]
Lost == [registry |-> "undefined"]
Unknown == "unknown"

IsIn(p) == IF p \in inside THEN "in" ELSE "out"

Init ==
    /\ Triggers!Init
    /\ phase = "unloaded"
    /\ registered = {}
    /\ listed = [r \in Registries |-> {}]
    /\ entries = [r \in Registries |-> {}]
    /\ change = NoChange
    /\ walk = [w \in Waiters |-> NoWalk]
    /\ inside \in SUBSET Periods
    /\ cache = [p \in Periods |-> Unknown]
    /\ recent = FALSE
    /\ logged = [p \in Periods |-> Unknown]
    /\ flipped = {}

------------------------------------------------------------------------------
\* nebmodule_init: the socket may fail, options of the broker may be missing.
NebmoduleInit ==
    /\ phase = "unloaded"
    /\ \E opened \in BOOLEAN,
          options \in {NeededOptions} \cup {NeededOptions \ {o} : o \in NeededOptions} :
          IF opened /\ NeededOptions \subseteq options
          THEN phase' = "loaded" /\ registered' = NebCallbacks
          ELSE phase' = "refused" /\ UNCHANGED registered
    /\ UNCHANGED <<triggerVars, listed, entries, change, walk, periodVars>>

\* The Nagios thread calls a callback when the one before has returned.
Calls(type, function) ==
    /\ <<type, function>> \in registered
    /\ todo = <<>> /\ change = NoChange

\* broker_process, NEBTYPE_PROCESS_START: new store, queue and cache.
ProcessStart ==
    /\ Calls("process", "broker_process") /\ phase = "loaded"
    /\ phase' = "started"
    /\ UNCHANGED <<triggerVars, registered, listed, entries, change, walk, periodVars>>

------------------------------------------------------------------------------
\* TimeperiodsCache::update: at most once a minute.
Update(cached) ==
    IF recent THEN
        /\ cache' = cached
        /\ UNCHANGED <<recent, flipped>>
    ELSE
        /\ cache' = [p \in Periods |-> IsIn(p)]
        /\ recent' = TRUE
        /\ flipped' = {}

\* What update logs: a first entry or a transition.
LoggedByUpdate(cached, told) ==
    [p \in Periods |->
        IF ~recent /\ cached[p] # IsIn(p) THEN IsIn(p) ELSE told[p]]

\* Mutant of ProcessEventLoopStart: the threads start before any update.
ProcessEventLoopStartEarly ==
    /\ Calls("process", "broker_process") /\ phase = "started"
    /\ phase' = "running"
    /\ UNCHANGED <<triggerVars, registered, listed, entries, change, walk, periodVars>>

\* broker_process, NEBTYPE_PROCESS_EVENTLOOPSTART: update, then start_threads.
ProcessEventLoopStart ==
    /\ Calls("process", "broker_process") /\ phase = "started"
    /\ phase' = "running"
    /\ logged' = LoggedByUpdate(cache, logged)
    /\ Update(cache)
    /\ UNCHANGED <<triggerVars, registered, listed, entries, change, walk, inside>>

\* logCurrentTimeperiods: logs every period, but puts only unknown ones into
\* the cache.
WithCurrent(cached) ==
    [p \in Periods |-> IF cached[p] = Unknown THEN IsIn(p) ELSE cached[p]]

\* broker_event: at a log rotation the current state of the periods goes into
\* the log, once the threads run; then the periods are brought up to date.
BrokerEvent ==
    /\ Calls("timed_event", "broker_event") /\ phase \in {"started", "running"}
    /\ \E rotation \in BOOLEAN :
        LET logsAll == rotation /\ phase = "running"
            cached == IF logsAll THEN WithCurrent(cache) ELSE cache
            told == IF logsAll THEN [p \in Periods |-> IsIn(p)] ELSE logged
        IN  logged' = LoggedByUpdate(cached, told) /\ Update(cached)
    /\ UNCHANGED <<triggerVars, phase, registered, listed, entries, change, walk, inside>>

\* The last update is a minute old.
MinutePasses ==
    /\ recent
    /\ recent' = FALSE
    /\ UNCHANGED <<triggerVars, phase, registered, listed, entries, change, walk,
                   inside, cache, logged, flipped>>

\* A period begins or ends, at most once between two updates: "The timeperiod
\* definitions have a 1-minute granularity" (TimeperiodsCache.cc).
PeriodFlips(p) ==
    /\ p \notin flipped
    /\ inside' = IF p \in inside THEN inside \ {p} ELSE inside \cup {p}
    /\ flipped' = flipped \cup {p}
    /\ UNCHANGED <<triggerVars, phase, registered, listed, entries, change, walk,
                   cache, recent, logged>>

------------------------------------------------------------------------------
\* The types of a change: NEBTYPE_DOWNTIME_ADD and the like.
ChangeTypes == {"add", "load", "delete", "start"}

\* registerDowntime and registerComment.  The entry replaces an older one;
\* other types, like the start of a downtime, change nothing.
Register(keys, type, id) ==
    CASE type \in {"add", "load"} -> keys \cup {id}
      [] type = "delete" -> keys \ {id}
      [] OTHER -> keys

\* The functions that are called for the registries.
BrokerOf == [r \in Registries |->
                IF r = "downtime" THEN "broker_downtime" ELSE "broker_comment"]

\* Nagios changes its own list and calls broker_downtime or broker_comment,
\* which begins to change the registry.  Nagios may delete what it has not
\* told of, and tells of a new downtime twice (load and add).
BeginChange(r) ==
    /\ Calls(r, BrokerOf[r]) /\ phase \in {"started", "running"}
    /\ \E type \in ChangeTypes, id \in Ids[r] :
        /\ change' = [registry |-> r, type |-> type, id |-> id]
        /\ listed' = [listed EXCEPT ![r] = Register(@, type, id)]
    /\ UNCHANGED <<triggerVars, phase, registered, entries, walk, periodVars>>

\* The iterator at comes first among the entries from id on, or is the end.
ComesFirst(at, keys, id) == at >= id /\ \A i \in keys : i >= id => at <= i

\* What a change of the registry does to a walk k over it: the walk is lost if
\* the entry it is at is erased or replaced; an erased entry has not been there
\* all along, a new one is seen or not.
Disturbed(k, r, type, id) ==
    CASE k.registry # r \/ type = "start" -> k
      [] k.registry = r /\ type # "start" /\ k.at = id -> Lost
      [] OTHER -> [k EXCEPT
            !.lasting = IF type = "delete" THEN @ \ {id} ELSE @,
            !.ever = IF type = "delete" THEN @ ELSE @ \cup {id}]

\* Mutant of EndChange: every change fires the trigger of comments.
EndChangeAsComment ==
    /\ change # NoChange
    /\ LET r == change.registry
       IN  /\ entries' = [entries EXCEPT ![r] =
                             Register(@, change.type, change.id)]
           /\ cond' = [w \in Waiters |-> entries'["downtime"] # {}]
           /\ walk' = [w \in Waiters |->
                           Disturbed(walk[w], r, change.type, change.id)]
           /\ Triggers!Event(<<"comment">>)
    /\ change' = NoChange
    /\ UNCHANGED <<phase, registered, listed, periodVars>>

\* The registry is changed; the callback goes on to notify_all.  A query waits
\* for its host to have a downtime.
EndChange ==
    /\ change # NoChange
    /\ LET r == change.registry
       IN  /\ entries' = [entries EXCEPT ![r] =
                             Register(@, change.type, change.id)]
           /\ cond' = [w \in Waiters |-> entries'["downtime"] # {}]
           /\ walk' = [w \in Waiters |->
                           Disturbed(walk[w], r, change.type, change.id)]
           /\ Triggers!Event(<<r>>)
    /\ change' = NoChange
    /\ UNCHANGED <<phase, registered, listed, periodVars>>

\* A callback that changes nothing here and notifies.
Notifies(kinds) ==
    /\ cond' = cond
    /\ Triggers!Event(kinds)
    /\ UNCHANGED <<phase, registered, listed, entries, change, walk, periodVars>>

\* broker_check, of services and of hosts
BrokerCheck ==
    /\ \E type \in {"service_check", "host_check"} : Calls(type, "broker_check")
    /\ Notifies(<<"check">>)

BrokerLog == Calls("log", "broker_log") /\ Notifies(<<"log">>)

\* broker_command, at the start and at the end of a command.  It executes the
\* start of the custom command _LOG itself.
BrokerCommand ==
    /\ Calls("external_command", "broker_command")
    /\ \E isLog \in BOOLEAN :
        Notifies(IF isLog THEN <<"log", "command">> ELSE <<"command">>)

BrokerState == Calls("state_change", "broker_state") /\ Notifies(<<"state">>)

BrokerProgram ==
    Calls("adaptive_program", "broker_program") /\ Notifies(<<"program">>)

\* notify_all takes the conditions one after the other.
Notify ==
    /\ Triggers!Notify
    /\ UNCHANGED <<phase, registered, listed, entries, change, walk, periodVars>>

------------------------------------------------------------------------------
\* A query with a wait, in the thread of a client.
Call(w) ==
    /\ phase = "running" /\ walk[w] = NoWalk
    /\ Triggers!Call(w)
    /\ UNCHANGED <<phase, registered, listed, entries, change, walk, periodVars>>

\* The wait goes on as in WaitTriggers, also while the threads are joined.
Wait(w) ==
    /\ Triggers!Step(w) \/ Triggers!Spurious(w) \/ Triggers!DeadlinePasses(w)
    /\ UNCHANGED <<phase, registered, listed, entries, change, walk, periodVars>>

\* TableDowntimes::answerQuery, TableComments::answerQuery
BeginWalk(w) ==
    /\ phase = "running" /\ pc[w] = "idle" /\ walk[w] = NoWalk
    /\ \E r \in Registries : \E at \in entries[r] \cup {End} :
        /\ ComesFirst(at, entries[r], 0)
        /\ walk' = [walk EXCEPT ![w] =
              IF change.registry = r THEN Lost
              ELSE [registry |-> r, at |-> at, answered |-> {},
                    lasting |-> listed[r], ever |-> listed[r]]]
    /\ UNCHANGED <<triggerVars, phase, registered, listed, entries, change, periodVars>>

\* Mutant of WalkOn: a row that the filter rejects takes the next one along.
WalkOnSkipping(w) ==
    /\ walk[w] \notin {NoWalk, Lost} /\ walk[w].at # End
    /\ LET k == walk[w] IN \E at \in entries[k.registry] \cup {End} :
        /\ ComesFirst(at, entries[k.registry], k.at + 2)
        /\ walk' = [walk EXCEPT ![w].answered = @ \cup {k.at}, ![w].at = at]
    /\ UNCHANGED <<triggerVars, phase, registered, listed, entries, change, periodVars>>

\* processDataset takes the entry, and the walk moves on.
WalkOn(w) ==
    /\ walk[w] \notin {NoWalk, Lost} /\ walk[w].at # End
    /\ LET k == walk[w] IN \E at \in entries[k.registry] \cup {End} :
        /\ ComesFirst(at, entries[k.registry], k.at + 1)
        /\ walk' = [walk EXCEPT ![w] =
              IF change.registry = k.registry THEN Lost
              ELSE [k EXCEPT !.answered = @ \cup {k.at}, !.at = at]]
    /\ UNCHANGED <<triggerVars, phase, registered, listed, entries, change, periodVars>>

\* The walk is over, or processDataset ends it at a limit or at termination.
EndWalk(w) ==
    /\ walk[w] # NoWalk
    /\ walk' = [walk EXCEPT ![w] = NoWalk]
    /\ UNCHANGED <<triggerVars, phase, registered, listed, entries, change, periodVars>>

------------------------------------------------------------------------------
\* nebmodule_deinit calls terminate_threads.
TerminateThreads ==
    /\ phase = "running" /\ todo = <<>> /\ change = NoChange
    /\ phase' = "stopping"
    /\ UNCHANGED <<triggerVars, registered, listed, entries, change, walk, periodVars>>

\* The threads have been joined: nebmodule_deinit deletes store, queue and
\* cache and deregisters the callbacks.
NebmoduleDeinit ==
    /\ phase = "stopping"
    /\ \A w \in Waiters : pc[w] = "idle" /\ walk[w] = NoWalk
    /\ phase' = "stopped"
    /\ entries' = [r \in Registries |-> {}]
    /\ cache' = [p \in Periods |-> Unknown]
    /\ recent' = FALSE
    /\ registered' = registered \ DeregisteredCallbacks
    /\ UNCHANGED <<triggerVars, listed, change, walk, inside, logged, flipped>>

Next ==
    \/ NebmoduleInit
    \/ ProcessStart
    \/ ProcessEventLoopStart
    \/ BrokerEvent
    \/ MinutePasses
    \/ \E p \in Periods : PeriodFlips(p)
    \/ \E r \in Registries : BeginChange(r)
    \/ EndChange
    \/ BrokerCheck
    \/ BrokerLog
    \/ BrokerCommand
    \/ BrokerState
    \/ BrokerProgram
    \/ Notify
    \/ \E w \in Waiters :
        \/ Call(w)
        \/ Wait(w)
        \/ BeginWalk(w)
        \/ WalkOn(w)
        \/ EndWalk(w)
    \/ TerminateThreads
    \/ NebmoduleDeinit

Spec == Init /\ [][Next]_vars

------------------------------------------------------------------------------
\* A query that waits for a downtime and sleeps although there is one will yet
\* be notified, or missed the notification between its evaluation and its
\* registration: broker_downtime changes the registry before notify_all.
DowntimeWakes ==
    \A w \in Waiters :
        pc[w] = "asleep" /\ kind[w] \in {"all", "downtime"} /\ entries["downtime"] # {}
            => Triggers!InTodo(kind[w]) \/ missed[w]

\* Unless it is lost (an entry erased under it, or a step during a change), a walk
\* has answered every entry before its position that Nagios had all along, and
\* none that Nagios did not have during the walk.
WalksSeeWhatLasts ==
    \A w \in Waiters :
        walk[w] \notin {NoWalk, Lost} =>
            LET k == walk[w] IN
            /\ {i \in k.lasting : i < k.at} \subseteq k.answered
            /\ k.answered \subseteq k.ever
            /\ \A i \in k.answered : i < k.at

\* Queries find every period in the cache (inTimeperiod would take a missing
\* one for over, and logCurrentTimeperiods would follow an end iterator).  What
\* they find, and what the log tells last, is the state at the last update; the
\* log is ahead of the cache only when a rotation logged a period that has
\* begun or ended since.
PeriodsTold ==
    phase \in {"running", "stopping"} =>
        \A p \in Periods :
            /\ cache[p] # Unknown
            /\ p \notin flipped => cache[p] = IsIn(p)
            /\ logged[p] \in {cache[p], IsIn(p)}
==============================================================================
