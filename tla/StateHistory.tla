----------------------------- MODULE StateHistory -----------------------------
(***************************************************************************)
(* The availability report: src/TableStateHistory.cc.                      *)
(*                                                                         *)
(* A query walks over the log from before its time frame to its end and    *)
(* keeps one record for every host and service it meets.  Whenever         *)
(* something about an object changes, a row says how long the old state    *)
(* has lasted.  The rows are kept as the seconds they add to each state.   *)
(* Each log entry is one step: the query holds LogCache::_lock.            *)
(*                                                                         *)
(* The log is any sequence of entries in the order of time.  A CURRENT     *)
(* STATE entry is treated like an alert.  Core messages, acknowledgements, *)
(* malformed transitions and what is said of objects Nagios does not know  *)
(* any more are "other", but for the initial state of NoObject.            *)
(* Besides the choice of services, the filter of a query bounds the time   *)
(* of its rows and nothing else.                                           *)
(* Notification period and service period work alike: an object belongs to *)
(* a set of periods.  Which entries are read, from which files, is in      *)
(* HistoryReader.                                                          *)
(*                                                                         *)
(* `meant' and `quiet' are ghosts for the properties.                      *)
(***************************************************************************)
EXTENDS Integers, FiniteSets, Functions

CONSTANTS Hosts, Services, NoObject,
          HostOf,    \* the host of each service
          Periods,   \* the names of the timeperiods
          PeriodsOf, \* the periods each object refers to
          MaxState,  \* bound: 2 for hosts and 3 for services
          Grace,     \* ten minutes
          MaxTime,   \* bound: _until - 1 of every query
          MaxEntries \* bound: entries that all queries together read

Objects == Hosts \cup Services

ASSUME StateHistoryAssumption ==
    /\ IsFiniteSet(Objects)
    /\ Hosts \cap Services = {}
    /\ NoObject \notin Objects
    /\ HostOf \in [Services -> Hosts]
    /\ PeriodsOf \in [Objects -> SUBSET Periods]
    /\ {MaxState, Grace, MaxTime, MaxEntries} \subseteq Nat

Unmonitored == -1
States == 0 .. MaxState
Until == MaxTime + 1

VARIABLES pc,              \* "idle", "reading" or "done"
          since,           \* _since
          wanted,          \* the services object_filter accepts
          onlyUpdate,      \* only_update
          inInitialStates, \* in_nagios_initial_states
          now,             \* the time of the last entry
          periods,         \* _notification_periods, kept between queries
          info,            \* state_info
          numRead,         \* entries read, for the bound
          meant,           \* ghost: how the seconds should be spent
          quiet            \* ghost: hosts an initial state has changed

vars == <<pc, since, wanted, onlyUpdate, inInitialStates, now, periods, info,
          numRead, meant, quiet>>

Kinds == {"alert", "initial", "downtime", "flapping"}
Entries ==
    [kind : {"alert", "initial"}, object : Objects,
     value : States, time : 0 .. MaxTime]
    \cup [kind : {"downtime", "flapping"}, object : Objects,
          value : {0, 1}, time : 0 .. MaxTime]
    \cup [kind : {"timeperiod"}, object : Periods,
          value : {0, 1}, time : 0 .. MaxTime]
    \cup [kind : {"log_initial_states", "initial", "other"},
          object : {NoObject}, value : {0}, time : 0 .. MaxTime]

NoSeconds == [x \in States \cup {Unmonitored} |-> 0]

Init ==
    /\ pc = "idle"
    /\ since = 0
    /\ wanted = {}
    /\ onlyUpdate = TRUE
    /\ inInitialStates = FALSE
    /\ now = 0
    /\ periods = << >>
    /\ info = << >>
    /\ numRead = 0
    /\ meant = << >>
    /\ quiet = {}

------------------------------------------------------------------------------
\* _in_notification_period and _in_service_period as far as they are known.
PeriodsNow(o) ==
    [p \in PeriodsOf[o] |-> IF p \in DOMAIN periods THEN periods[p] ELSE 1]

\* The record of an object the log mentions for the first time.
NewState(o, time, only) ==
    LET hostKnown == o \in Services /\ HostOf[o] \in DOMAIN info
    IN [state |-> IF ~only /\ time - since > Grace THEN Unmonitored ELSE 0,
        from |-> since,
        hostDown |-> hostKnown /\ info[HostOf[o]].hostDown,
        inHostDowntime |-> IF hostKnown THEN info[HostOf[o]].inHostDowntime
                                        ELSE 0,
        inDowntime |-> 0, inPeriod |-> PeriodsNow(o), flapping |-> 0,
        mayNoLongerExist |-> FALSE, hasVanished |-> FALSE, lastKnown |-> 0,
        spent |-> NoSeconds]

\* Query::processDataset: the filter of the query, which bounds the time of its
\* rows by _since, refuses a row of an earlier time.  The time of a row is its
\* end.
Refused(until) == until < since

\* Mutant of Process: the next row begins where this one did.
ProcessKeepingFrom(r, until, only) ==
    IF only \/ Refused(until) THEN r
    ELSE [r EXCEPT !.spent[r.state] = @ + until - r.from]

\* process: a row says that the state of r has lasted until now.  The next row
\* begins here, also if this one is refused.
Process(r, until, only) ==
    IF only THEN r
    ELSE [r EXCEPT !.from = until,
                   !.spent[r.state] = IF Refused(until) THEN @ ELSE @ + until - r.from]

\* Mutant of Revive: the periods are not looked up again.
ReviveOutsidePeriods(o, r, only) ==
    IF ~r.hasVanished THEN r
    ELSE [Process(r, r.lastKnown, only) EXCEPT
              !.mayNoLongerExist = FALSE, !.hasVanished = FALSE,
              !.state = Unmonitored, !.inDowntime = 0, !.flapping = 0,
              !.inPeriod = [p \in PeriodsOf[o] |-> 0]]

\* updateHostServiceState: an object that has vanished is back.  It has been
\* unmonitored since the restart after which it was missing.
Revive(o, r, only) ==
    IF ~r.hasVanished THEN r
    ELSE [Process(r, r.lastKnown, only) EXCEPT
              !.mayNoLongerExist = FALSE, !.hasVanished = FALSE,
              !.state = Unmonitored, !.inDowntime = 0, !.flapping = 0,
              !.inPeriod = PeriodsNow(o)]

------------------------------------------------------------------------------
\* updateHostServiceState, state_host, state_host_initial and alert_host.
HostState(o, r, e, only) ==
    IF o \in Hosts
    THEN IF r.state = e.value THEN r
         ELSE [Process(r, e.time, only) EXCEPT !.state = e.value,
                                               !.hostDown = e.value > 0]
    ELSE IF r.hostDown = (e.value > 0) THEN r
         ELSE [Process(r, e.time, only) EXCEPT !.hostDown = e.value > 0]

\* The same for state_service, state_service_initial and alert_service.
ServiceState(r, e, only) ==
    IF r.state = e.value THEN r
    ELSE [Process(r, e.time, only) EXCEPT !.state = e.value]

\* downtime_alert_host
HostDowntime(o, r, e, only) ==
    IF r.inHostDowntime = e.value THEN r
    ELSE [Process(r, e.time, only) EXCEPT
              !.inHostDowntime = e.value,
              !.inDowntime = IF o \in Hosts THEN e.value ELSE @]

\* downtime_alert_service
ServiceDowntime(r, e, only) ==
    IF r.inDowntime = e.value THEN r
    ELSE [Process(r, e.time, only) EXCEPT !.inDowntime = e.value]

\* flapping_host and flapping_service
Flapping(r, e, only) ==
    IF r.flapping = e.value THEN r
    ELSE [Process(r, e.time, only) EXCEPT !.flapping = e.value]

\* timeperiod_transition
Transition(o, r, e, only) ==
    IF e.object \in PeriodsOf[o] /\ r.inPeriod[e.object] # e.value
    THEN [Process(r, e.time, only) EXCEPT !.inPeriod[e.object] = e.value]
    ELSE r

\* updateHostServiceState for an entry of object o or of its host.
Update(o, r, e, only) ==
    LET back == [Revive(o, r, only) EXCEPT !.mayNoLongerExist = FALSE]
        ofHost == e.object \in Hosts
    IN CASE e.kind = "flapping" -> Flapping(back, e, only)
         [] e.kind = "downtime" /\ ofHost -> HostDowntime(o, back, e, only)
         [] e.kind = "downtime" /\ ~ofHost -> ServiceDowntime(back, e, only)
         [] e.kind \in {"alert", "initial"} /\ ofHost ->
                HostState(o, back, e, only)
         [] e.kind \in {"alert", "initial"} /\ ~ofHost ->
                ServiceState(back, e, only)

\* Mutant of Propagates: only alerts go on to the services.
PropagatesAlertsOnly(r, e, only) ==
    /\ e.object \in Hosts
    /\ e.kind = "alert"
    /\ Revive(e.object, r, only).state # e.value

\* The entry of a host also goes to its services if it has changed the host:
\* not for an initial state.
Propagates(r, e, only) ==
    /\ e.object \in Hosts
    /\ \/ e.kind = "alert" /\ Revive(e.object, r, only).state # e.value
       \/ e.kind = "downtime" /\ r.inHostDowntime # e.value

------------------------------------------------------------------------------
(* What the seconds of the time frame should be spent on, counted as time  *)
(* passes: an object is in the state reported last.  After a restart this  *)
(* is in doubt until the object is heard of again; if not among the        *)
(* initial states, it has been unmonitored since.                          *)

FirstMeant(time, only) ==
    LET is == IF ~only /\ time - since > Grace THEN Unmonitored ELSE 0
    IN [is |-> is, doubtful |-> FALSE, gone |-> FALSE, restart |-> 0,
        early |-> FALSE, pending |-> 0,
        counted |-> IF only THEN NoSeconds
                            ELSE [NoSeconds EXCEPT ![is] = time - since]]

Aged(m, time) ==
    LET seconds == IF time < since THEN 0
                   ELSE time - (IF now < since THEN since ELSE now)
    IN IF m.doubtful THEN [m EXCEPT !.pending = @ + seconds]
                     ELSE [m EXCEPT !.counted[m.is] = @ + seconds]

\* The object is heard of, or the report ends.  `early' tells that it was found
\* to be missing since a restart before the time frame, after the frame began.
Settled(m, gone, only) ==
    LET is == IF gone THEN Unmonitored ELSE m.is
    IN [m EXCEPT !.is = is, !.counted[is] = @ + m.pending, !.pending = 0,
                 !.early = @ \/ (gone /\ ~only /\ m.restart < since),
                 !.doubtful = FALSE, !.gone = FALSE]

------------------------------------------------------------------------------
\* answerQuery: the query knows its time frame and takes the lock.
StartQuery(from, services) ==
    /\ pc \in {"idle", "done"}
    /\ Until - from - 1 # 0
    /\ pc' = "reading"
    /\ since' = from
    /\ wanted' = services
    /\ onlyUpdate' = TRUE
    /\ inInitialStates' = FALSE
    /\ now' = 0
    /\ info' = << >>
    /\ meant' = << >>
    /\ quiet' = {}
    /\ UNCHANGED <<periods, numRead>>

\* The time frame has been reached, with e or before.
Reached(e) == ~onlyUpdate \/ e.time >= since

\* e is the first entry after the initial states of all objects.
PhaseEnds(e) == inInitialStates /\ e.kind # "initial"

\* Every record before the entry itself is looked at: reports begin with the
\* time frame, and what was not among the initial states has vanished.
Prepared(e) ==
    [o \in DOMAIN info |->
        [info[o] EXCEPT
            !.from = IF onlyUpdate /\ Reached(e) THEN since ELSE @,
            !.hasVanished = @ \/ (PhaseEnds(e) /\ info[o].mayNoLongerExist)]]

PreparedMeant(e) ==
    [o \in DOMAIN meant |->
        [Aged(meant[o], e.time) EXCEPT
            !.gone = @ \/ (PhaseEnds(e) /\ meant[o].doubtful)]]

\* The head of the loop, the same for every entry.
Read(e) ==
    /\ pc = "reading"
    /\ e.time >= now
    /\ numRead < MaxEntries
    /\ numRead' = numRead + 1
    /\ now' = e.time
    /\ onlyUpdate' = ~Reached(e)
    /\ inInitialStates' = \/ e.kind = "log_initial_states"
                          \/ inInitialStates /\ ~PhaseEnds(e)
    /\ UNCHANGED <<pc, since, wanted>>

Ignored(e) ==
    \/ e.kind = "other"
    \/ e.kind \in Kinds /\ e.object \notin Hosts \cup wanted

\* An entry of no object of the report.
IgnoreEntry(e) ==
    /\ Ignored(e)
    /\ Read(e)
    /\ info' = Prepared(e)
    /\ meant' = PreparedMeant(e)
    /\ UNCHANGED <<periods, quiet>>

\* An entry of a host or service, which may be new; a host tells its services.
ObjectEntry(e) ==
    /\ e.kind \in Kinds /\ ~Ignored(e)
    /\ Read(e)
    /\ LET o == e.object
           only == ~Reached(e)
           prepared == Prepared(e)
           preparedMeant == PreparedMeant(e)
           isNew == o \notin DOMAIN info
           record == IF isNew THEN NewState(o, e.time, only) ELSE prepared[o]
           services == {s \in Services \cap DOMAIN info : HostOf[s] = o}
           told == IF Propagates(record, e, only) THEN services ELSE {}
           m == IF isNew THEN FirstMeant(e.time, only) ELSE preparedMeant[o]
           settled == Settled(m, m.gone, only)
       IN /\ info' = [x \in DOMAIN info \cup {o} |->
                         IF x = o THEN Update(o, record, e, only)
                         ELSE IF x \in told
                              THEN Update(x, prepared[x], e, only)
                              ELSE prepared[x]]
          /\ meant' = [x \in DOMAIN meant \cup {o} |->
                          IF x # o THEN preparedMeant[x]
                          ELSE IF e.kind \in {"alert", "initial"}
                               THEN [settled EXCEPT !.is = e.value]
                               ELSE settled]
          /\ quiet' = IF o \in Hosts /\ e.kind = "initial" THEN quiet \cup {o}
                      ELSE IF e.kind = "alert" /\ Propagates(record, e, only)
                      THEN quiet \ {o}
                      ELSE quiet
    /\ UNCHANGED periods

\* A timeperiod begins or ends.
TimeperiodTransition(e) ==
    /\ e.kind = "timeperiod"
    /\ Read(e)
    /\ periods' = [p \in DOMAIN periods \cup {e.object} |->
                      IF p = e.object THEN e.value ELSE periods[p]]
    /\ info' = [o \in DOMAIN info |->
                   Transition(o, Prepared(e)[o], e, ~Reached(e))]
    /\ meant' = PreparedMeant(e)
    /\ UNCHANGED quiet

\* Nagios has been restarted and is about to log all initial states.
LogInitialStates(e) ==
    /\ e.kind = "log_initial_states"
    /\ Read(e)
    /\ LET prepared == Prepared(e)
           preparedMeant == PreparedMeant(e)
       IN /\ info' = [o \in DOMAIN info |->
                         IF prepared[o].hasVanished THEN prepared[o]
                         ELSE [prepared[o] EXCEPT !.lastKnown = e.time,
                                                  !.mayNoLongerExist = TRUE]]
          /\ meant' = [o \in DOMAIN meant |->
                          IF preparedMeant[o].gone THEN preparedMeant[o]
                          ELSE [preparedMeant[o] EXCEPT !.doubtful = TRUE,
                                                        !.restart = e.time]]
    /\ UNCHANGED <<periods, quiet>>

\* Mutant of FinalRow: an object that has vanished keeps its state to the end.
FinalRowStillThere(r) == Process(r, Until - 1, FALSE)

\* The final report of an object.
FinalRow(r) ==
    LET absent == [Process(r, r.lastKnown, FALSE) EXCEPT !.state = Unmonitored]
    IN Process(IF r.mayNoLongerExist THEN absent ELSE r, Until - 1, FALSE)

\* No entry is left before the end of the time frame.
Finish ==
    /\ pc = "reading"
    /\ pc' = "done"
    /\ info' = [o \in DOMAIN info |-> FinalRow(info[o])]
    /\ meant' = [o \in DOMAIN meant |->
                    LET m == Aged(meant[o], Until - 1)
                    IN Settled(m, m.doubtful, FALSE)]
    /\ UNCHANGED <<since, wanted, onlyUpdate, inInitialStates, now, periods,
                   numRead, quiet>>

\* processDataset has refused a row, for a limit or on termination: no final
\* report.  _abort_query is only looked at before the next entry.
Abort ==
    /\ pc = "reading"
    /\ ~onlyUpdate
    /\ pc' = "idle"
    /\ info' = << >>
    /\ meant' = << >>
    /\ UNCHANGED <<since, wanted, onlyUpdate, inInitialStates, now, periods,
                   numRead, quiet>>

Next ==
    \/ \E from \in 0 .. MaxTime, services \in SUBSET Services :
           StartQuery(from, services)
    \/ \E e \in Entries :
           \/ IgnoreEntry(e)
           \/ ObjectEntry(e)
           \/ TimeperiodTransition(e)
           \/ LogInitialStates(e)
    \/ Finish
    \/ Abort

Spec == Init /\ [][Next]_vars

------------------------------------------------------------------------------
(* Properties *)

HostServiceState(o) ==
    [state : States \cup {Unmonitored}, from : 0 .. MaxTime,
     hostDown : BOOLEAN, inHostDowntime : {0, 1}, inDowntime : {0, 1},
     inPeriod : [PeriodsOf[o] -> {0, 1}],
     flapping : {0, 1}, mayNoLongerExist : BOOLEAN, hasVanished : BOOLEAN,
     lastKnown : 0 .. MaxTime,
     spent : [States \cup {Unmonitored} -> Int]]

\* Types, and: only objects of the report have a record, and whatever has
\* vanished was missing at a restart.
TypeOK ==
    /\ pc \in {"idle", "reading", "done"}
    /\ since \in 0 .. MaxTime
    /\ wanted \subseteq Services
    /\ onlyUpdate \in BOOLEAN
    /\ inInitialStates \in BOOLEAN
    /\ now \in 0 .. MaxTime
    /\ periods \in UNION {[ps -> {0, 1}] : ps \in SUBSET Periods}
    /\ DOMAIN info \subseteq Hosts \cup wanted
    /\ DOMAIN meant = DOMAIN info
    /\ numRead \in 0 .. MaxEntries
    /\ quiet \subseteq Hosts
    /\ \A o \in DOMAIN info :
           /\ info[o] \in HostServiceState(o)
           /\ info[o].hasVanished => info[o].mayNoLongerExist

Total(f) == FoldFunction(+, 0, f)

\* The rows of an object of a finished report cover the time frame: their
\* durations sum up to _query_timeframe, so that the duration_part columns sum
\* up to 1.  Only for an object found to be missing since a restart before the
\* frame they sum up to more: its first row ends before the frame, so the filter
\* refuses it, and yet the next one begins there.
DurationsSumUp ==
    pc = "done" =>
        \A o \in DOMAIN info :
            /\ Total(info[o].spent) >= Until - 1 - since
            /\ ~meant[o].early => Total(info[o].spent) = Until - 1 - since

\* In a finished report every second belongs to the state the object was in: the
\* one reported last, UNMONITORED from a restart after which it was missing.  No
\* state gets less, and none gets more but for an object missing since a restart
\* before the time frame.
SpentAsMeant ==
    pc = "done" =>
        \A o \in DOMAIN info : \A x \in States \cup {Unmonitored} :
            /\ info[o].spent[x] >= meant[o].counted[x]
            /\ ~meant[o].early => info[o].spent[x] = meant[o].counted[x]

\* What a host does reaches its services, the ones known before the host and
\* the ones met later: they are in host downtime when their host is, and know
\* whether it is down unless only an initial state said so.
HostReachesServices ==
    \A s \in Services \cap DOMAIN info :
        HostOf[s] \in DOMAIN info =>
            LET host == info[HostOf[s]]
            IN /\ info[s].inHostDowntime = host.inHostDowntime
               /\ \/ info[s].hostDown = host.hostDown
                  \/ HostOf[s] \in quiet

\* A record is inside or outside of each of its periods as the last transition
\* says, also after it has vanished and come back.
PeriodsFollowed == \A o \in DOMAIN info : info[o].inPeriod = PeriodsNow(o)

\* The column host_down "Shows if the host of this service is down"
\* (TableStateHistory.cc:116).  An INITIAL HOST STATE changes the host only.
HostDownShown ==
    \A s \in Services \cap DOMAIN info :
        HostOf[s] \in DOMAIN info =>
            info[s].hostDown = info[HostOf[s]].hostDown
===============================================================================
