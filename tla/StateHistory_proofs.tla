-------------------------- MODULE StateHistory_proofs --------------------------
(***************************************************************************)
(* Proofs about StateHistory: what holds of the records of all hosts and   *)
(* services, whatever log a query reads.                                   *)
(*                                                                         *)
(* First the types, the periods and what services know of their hosts;     *)
(* then the durations, and the states the seconds are spent on.  For these *)
(* the record of an object is taken as a debt: the rows that are written   *)
(* and the ones that are not yet written together give every second of the *)
(* time frame to the state the object was meant to be in.                  *)
(***************************************************************************)
EXTENDS StateHistory, FiniteSetTheorems, WellFoundedInduction, TLAPS

\* What is left alone when a row is written.
SameFlags(q, r) ==
    /\ q.state = r.state
    /\ q.hostDown = r.hostDown
    /\ q.inHostDowntime = r.inHostDowntime
    /\ q.inPeriod = r.inPeriod
    /\ q.mayNoLongerExist = r.mayNoLongerExist
    /\ q.hasVanished = r.hasVanished

\* process writes a row and changes nothing that the next row will say.
LEMMA ProcessSound ==
  ASSUME NEW o \in Objects, NEW r \in HostServiceState(o),
         NEW until \in 0 .. MaxTime, NEW only \in BOOLEAN
  PROVE  /\ Process(r, until, only) \in HostServiceState(o)
         /\ SameFlags(Process(r, until, only), r)
<1>1. CASE only
  BY <1>1 DEF Process, SameFlags
<1>2. CASE ~only
  <2> DEFINE spent == [r.spent EXCEPT ![r.state] =
                          IF Refused(until) THEN @ ELSE @ + until - r.from]
  <2>1. r.spent \in [States \cup {Unmonitored} -> Int]
        /\ r.state \in States \cup {Unmonitored} /\ r.from \in Int
    BY StateHistoryAssumption DEF HostServiceState
  <2>2. spent \in [States \cup {Unmonitored} -> Int]
    BY <2>1, StateHistoryAssumption
  <2>3. Process(r, until, only) = [r EXCEPT !.spent = spent, !.from = until]
    BY <1>2 DEF Process
  <2> HIDE DEF spent
  <2> QED BY <2>2, <2>3 DEF HostServiceState, SameFlags
<1> QED BY <1>1, <1>2

\* The periods as they are known are a value for each period of the object.
LEMMA PeriodsNowTyped ==
  ASSUME TypeOK, NEW o \in Objects
  PROVE  PeriodsNow(o) \in [PeriodsOf[o] -> {0, 1}]
<1>1. PICK ps \in SUBSET Periods : periods \in [ps -> {0, 1}]
  BY DEF TypeOK
<1> QED BY <1>1 DEF PeriodsNow

\* A record that comes back keeps what it knows of its host.
LEMMA ReviveSound ==
  ASSUME TypeOK, NEW o \in Objects, NEW r \in HostServiceState(o),
         r.inPeriod = PeriodsNow(o), NEW only \in BOOLEAN
  PROVE  LET back == Revive(o, r, only)
         IN /\ back \in HostServiceState(o)
            /\ ~back.hasVanished
            /\ back.hostDown = r.hostDown
            /\ back.inHostDowntime = r.inHostDowntime
            /\ back.inPeriod = PeriodsNow(o)
<1>1. CASE ~r.hasVanished
  BY <1>1 DEF Revive, HostServiceState
<1>2. CASE r.hasVanished
  <2> DEFINE q == Process(r, r.lastKnown, only)
  <2>1. r.lastKnown \in 0 .. MaxTime
    BY DEF HostServiceState
  <2>2. q \in HostServiceState(o) /\ SameFlags(q, r)
    BY <2>1, ProcessSound
  <2>3. Revive(o, r, only) =
            [q EXCEPT !.mayNoLongerExist = FALSE, !.hasVanished = FALSE,
                      !.state = Unmonitored, !.inDowntime = 0, !.flapping = 0,
                      !.inPeriod = PeriodsNow(o)]
    BY <1>2 DEF Revive
  <2> HIDE DEF q
  <2>4. PICK periodsNow \in [PeriodsOf[o] -> {0, 1}] : periodsNow = PeriodsNow(o)
    BY PeriodsNowTyped
  <2>5. Unmonitored \in States \cup {Unmonitored}
    OBVIOUS
  <2>6. Revive(o, r, only) \in HostServiceState(o)
    BY <2>2, <2>3, <2>4, <2>5 DEF HostServiceState
  <2>7. ~Revive(o, r, only).hasVanished
    BY <2>2, <2>3 DEF HostServiceState
  <2>8. Revive(o, r, only).inPeriod = PeriodsNow(o)
    BY <2>2, <2>3 DEF HostServiceState
  <2>9. /\ Revive(o, r, only).hostDown = q.hostDown
        /\ Revive(o, r, only).inHostDowntime = q.inHostDowntime
    BY <2>2, <2>3 DEF HostServiceState
  <2> QED BY <2>2, <2>6, <2>7, <2>8, <2>9 DEF SameFlags
<1> QED BY <1>1, <1>2

\* What an entry of a host or service does to a record: it is there again, its
\* periods stay what they were, and only entries of the host tell of the host.
LEMMA UpdateSound ==
  ASSUME TypeOK, NEW o \in Objects, NEW r \in HostServiceState(o),
         r.inPeriod = PeriodsNow(o), NEW only \in BOOLEAN,
         NEW e \in Entries, e.kind \in Kinds, e.object \in Objects
  PROVE  LET q == Update(o, r, e, only)
         IN /\ q \in HostServiceState(o)
            /\ ~q.hasVanished
            /\ q.inPeriod = PeriodsNow(o)
            /\ q.hostDown =
                   IF e.kind \in {"alert", "initial"} /\ e.object \in Hosts
                      /\ (o \in Hosts =>
                             Revive(o, r, only).state # e.value)
                   THEN e.value > 0 ELSE r.hostDown
            /\ q.inHostDowntime =
                   IF e.kind = "downtime" /\ e.object \in Hosts
                   THEN e.value ELSE r.inHostDowntime
<1> DEFINE revived == Revive(o, r, only)
           back == [revived EXCEPT !.mayNoLongerExist = FALSE]
           row == Process(back, e.time, only)
<1>1. /\ revived \in HostServiceState(o)
      /\ ~revived.hasVanished
      /\ revived.hostDown = r.hostDown
      /\ revived.inHostDowntime = r.inHostDowntime
      /\ revived.inPeriod = PeriodsNow(o)
  BY ReviveSound
<1> HIDE DEF revived
<1>2. /\ back \in HostServiceState(o)
      /\ ~back.hasVanished
      /\ back.state = revived.state
      /\ back.hostDown = r.hostDown
      /\ back.inHostDowntime = r.inHostDowntime
      /\ back.inPeriod = PeriodsNow(o)
  BY <1>1 DEF HostServiceState
<1> HIDE DEF back
<1>3. e.time \in 0 .. MaxTime
      /\ (e.kind \in {"alert", "initial"} => e.value \in States)
      /\ (e.kind \in {"downtime", "flapping"} => e.value \in {0, 1})
  BY StateHistoryAssumption DEF Entries, States
<1>4. row \in HostServiceState(o) /\ SameFlags(row, back)
  BY <1>2, <1>3, ProcessSound
<1> HIDE DEF row
<1>5. CASE e.kind = "flapping"
  <2>1. Update(o, r, e, only) =
            IF back.flapping = e.value THEN back
            ELSE [row EXCEPT !.flapping = e.value]
    BY <1>5 DEF Update, Flapping, revived, back, row
  <2> QED BY <1>2, <1>3, <1>4, <1>5, <2>1 DEF HostServiceState, SameFlags
<1>6. CASE e.kind = "downtime" /\ e.object \in Hosts
  <2>1. PICK inDowntime \in {0, 1} :
            inDowntime = IF o \in Hosts THEN e.value ELSE row.inDowntime
    BY <1>3, <1>4, <1>6 DEF HostServiceState
  <2>2. Update(o, r, e, only) =
            IF back.inHostDowntime = e.value THEN back
            ELSE [row EXCEPT !.inHostDowntime = e.value, !.inDowntime = inDowntime]
    BY <1>6, <2>1 DEF Update, HostDowntime, revived, back, row
  <2>3. CASE back.inHostDowntime = e.value
    BY <1>2, <1>6, <2>2, <2>3
  <2>4. CASE back.inHostDowntime # e.value
    <3>1. Update(o, r, e, only) =
              [row EXCEPT !.inHostDowntime = e.value, !.inDowntime = inDowntime]
      BY <2>2, <2>4
    <3>2. Update(o, r, e, only) \in HostServiceState(o)
      BY <1>3, <1>4, <1>6, <2>1, <3>1 DEF HostServiceState
    <3>3. /\ Update(o, r, e, only).hostDown = row.hostDown
          /\ Update(o, r, e, only).inHostDowntime = e.value
          /\ Update(o, r, e, only).inPeriod = row.inPeriod
          /\ Update(o, r, e, only).hasVanished = row.hasVanished
      BY <1>4, <3>1 DEF HostServiceState
    <3> QED BY <1>2, <1>4, <1>6, <3>2, <3>3 DEF SameFlags
  <2> QED BY <2>3, <2>4
<1>7. CASE e.kind = "downtime" /\ e.object \notin Hosts
  <2>1. Update(o, r, e, only) =
            IF back.inDowntime = e.value THEN back
            ELSE [row EXCEPT !.inDowntime = e.value]
    BY <1>7 DEF Update, ServiceDowntime, revived, back, row
  <2> QED BY <1>2, <1>3, <1>4, <1>7, <2>1 DEF HostServiceState, SameFlags
<1>8. CASE e.kind \in {"alert", "initial"} /\ e.object \in Hosts
  <2>1. CASE o \in Hosts
    <3>0. (e.value > 0) \in BOOLEAN
      OBVIOUS
    <3>1. PICK down \in BOOLEAN : down = (e.value > 0)
      BY <3>0, Zenon
    <3>2. Update(o, r, e, only) =
              IF back.state = e.value THEN back
              ELSE [row EXCEPT !.state = e.value, !.hostDown = down]
      BY <1>8, <2>1, <3>1 DEF Update, HostState, revived, back, row
    <3>3. CASE back.state = e.value
      BY <1>2, <1>8, <2>1, <3>2, <3>3 DEF revived
    <3>4. CASE back.state # e.value
      <4>1. Update(o, r, e, only) = [row EXCEPT !.state = e.value, !.hostDown = down]
        BY <3>2, <3>4
      <4> QED BY <1>2, <1>3, <1>4, <1>8, <2>1, <3>1, <3>4, <4>1
              DEF HostServiceState, SameFlags, revived
    <3> QED BY <3>3, <3>4
  <2>2. CASE o \notin Hosts
    <3>1. Update(o, r, e, only) =
              IF back.hostDown = (e.value > 0) THEN back
              ELSE [row EXCEPT !.hostDown = e.value > 0]
      BY <1>8, <2>2 DEF Update, HostState, revived, back, row
    <3>2. CASE back.hostDown = (e.value > 0)
      BY <1>2, <1>8, <2>2, <3>1, <3>2
    <3>3. CASE back.hostDown # (e.value > 0)
      <4>1. (e.value > 0) \in BOOLEAN
        OBVIOUS
      <4>2. Update(o, r, e, only) = [row EXCEPT !.hostDown = e.value > 0]
        BY <3>1, <3>3
      <4> QED BY <1>2, <1>4, <1>8, <2>2, <4>1, <4>2
              DEF HostServiceState, SameFlags
    <3> QED BY <3>2, <3>3
  <2> QED BY <2>1, <2>2
<1>9. CASE e.kind \in {"alert", "initial"} /\ e.object \notin Hosts
  <2>1. Update(o, r, e, only) =
            IF back.state = e.value THEN back
            ELSE [row EXCEPT !.state = e.value]
    BY <1>9 DEF Update, ServiceState, revived, back, row
  <2> QED BY <1>2, <1>3, <1>4, <1>9, <2>1 DEF HostServiceState, SameFlags
<1> QED BY <1>5, <1>6, <1>7, <1>8, <1>9 DEF Kinds

\* A new record knows what there is to know of its host.
LEMMA NewStateSound ==
  ASSUME TypeOK, NEW o \in Objects, NEW time \in 0 .. MaxTime,
         NEW only \in BOOLEAN
  PROVE  LET r == NewState(o, time, only)
             hostKnown == o \in Services /\ HostOf[o] \in DOMAIN info
         IN /\ r \in HostServiceState(o)
            /\ ~r.hasVanished
            /\ r.inPeriod = PeriodsNow(o)
            /\ hostKnown => /\ r.hostDown = info[HostOf[o]].hostDown
                            /\ r.inHostDowntime = info[HostOf[o]].inHostDowntime
            /\ ~hostKnown => ~r.hostDown /\ r.inHostDowntime = 0
<1> DEFINE hostKnown == o \in Services /\ HostOf[o] \in DOMAIN info
           down == hostKnown /\ info[HostOf[o]].hostDown
           downtime == IF hostKnown THEN info[HostOf[o]].inHostDowntime ELSE 0
           state == IF ~only /\ time - since > Grace THEN Unmonitored ELSE 0
<1>1. PeriodsNow(o) \in [PeriodsOf[o] -> {0, 1}]
  BY PeriodsNowTyped
<1>2. hostKnown => /\ info[HostOf[o]].hostDown \in BOOLEAN
                   /\ info[HostOf[o]].inHostDowntime \in {0, 1}
  BY DEF TypeOK, HostServiceState
<1>3. down \in BOOLEAN /\ downtime \in {0, 1}
  BY <1>2
<1>4. state \in States \cup {Unmonitored}
  BY StateHistoryAssumption DEF States
<1>5. NoSeconds \in [States \cup {Unmonitored} -> Int]
  BY DEF NoSeconds
<1>6. since \in 0 .. MaxTime /\ 0 \in 0 .. MaxTime
  BY StateHistoryAssumption DEF TypeOK
<1>7. NewState(o, time, only) =
          [state |-> state, from |-> since,
           hostDown |-> down, inHostDowntime |-> downtime,
           inDowntime |-> 0, inPeriod |-> PeriodsNow(o), flapping |-> 0,
           mayNoLongerExist |-> FALSE, hasVanished |-> FALSE, lastKnown |-> 0,
           spent |-> NoSeconds]
  BY DEF NewState
<1>8. hostKnown => down = info[HostOf[o]].hostDown
  BY <1>2
<1> HIDE DEF state, down, downtime
<1>9. NewState(o, time, only) \in HostServiceState(o)
  BY <1>1, <1>3, <1>4, <1>5, <1>6, <1>7 DEF HostServiceState
<1>10. hostKnown => downtime = info[HostOf[o]].inHostDowntime
  BY DEF downtime
<1>11. ~hostKnown => ~down /\ downtime = 0
  BY DEF down, downtime
<1> QED BY <1>7, <1>8, <1>9, <1>10, <1>11

\* Until its host is met, a service knows nothing of it.
UnknownHostIsUp ==
    \A s \in Services \cap DOMAIN info :
        HostOf[s] \notin DOMAIN info =>
            ~info[s].hostDown /\ info[s].inHostDowntime = 0

\* The inductive invariant of the state history.
IInv == TypeOK /\ PeriodsFollowed /\ HostReachesServices /\ UnknownHostIsUp

\* The head of the loop keeps the types of the variables it sets.
LEMMA ReadSound ==
  ASSUME TypeOK, NEW e \in Entries, Read(e)
  PROVE  /\ pc' \in {"idle", "reading", "done"}
         /\ since' \in 0 .. MaxTime
         /\ wanted' \subseteq Services
         /\ onlyUpdate' \in BOOLEAN
         /\ inInitialStates' \in BOOLEAN
         /\ now' \in 0 .. MaxTime
         /\ numRead' \in 0 .. MaxEntries
         /\ wanted' = wanted
<1>1. e.time \in 0 .. MaxTime
  BY DEF Entries
<1> QED BY <1>1, StateHistoryAssumption DEF TypeOK, Read, Reached, PhaseEnds

\* The prelude of the loop keeps what a record says of its host and periods.
LEMMA PreparedSound ==
  ASSUME TypeOK, NEW e \in Entries
  PROVE  /\ DOMAIN Prepared(e) = DOMAIN info
         /\ \A o \in DOMAIN info :
                LET r == Prepared(e)[o]
                IN /\ r \in HostServiceState(o)
                   /\ r.hasVanished => r.mayNoLongerExist
                   /\ r.hostDown = info[o].hostDown
                   /\ r.inHostDowntime = info[o].inHostDowntime
                   /\ r.inPeriod = info[o].inPeriod
         /\ DOMAIN PreparedMeant(e) = DOMAIN info
<1>1. DOMAIN Prepared(e) = DOMAIN info
  BY DEF Prepared
<1>2. DOMAIN PreparedMeant(e) = DOMAIN info
  BY DEF PreparedMeant, TypeOK
<1>3. ASSUME NEW o \in DOMAIN info
      PROVE  LET r == Prepared(e)[o]
             IN /\ r \in HostServiceState(o)
                /\ r.hasVanished => r.mayNoLongerExist
                /\ r.hostDown = info[o].hostDown
                /\ r.inHostDowntime = info[o].inHostDowntime
                /\ r.inPeriod = info[o].inPeriod
  <2> DEFINE from == IF onlyUpdate /\ Reached(e) THEN since ELSE info[o].from
             gone == info[o].hasVanished
                     \/ (PhaseEnds(e) /\ info[o].mayNoLongerExist)
  <2>1. info[o] \in HostServiceState(o)
        /\ (info[o].hasVanished => info[o].mayNoLongerExist)
    BY <1>3 DEF TypeOK
  <2>2. from \in 0 .. MaxTime
    BY <2>1 DEF TypeOK, HostServiceState
  <2>3. gone \in BOOLEAN /\ (gone => info[o].mayNoLongerExist)
    BY <2>1 DEF HostServiceState
  <2>4. Prepared(e)[o] = [info[o] EXCEPT !.from = from, !.hasVanished = gone]
    BY <1>3 DEF Prepared
  <2> HIDE DEF from, gone
  <2> QED BY <2>1, <2>2, <2>3, <2>4 DEF HostServiceState
<1> QED BY <1>1, <1>2, <1>3

\* Actions that leave the host and the periods of every record alone, and the
\* records themselves in place, preserve the invariant.
LEMMA SameRecords ==
  ASSUME IInv,
         DOMAIN info' = DOMAIN info, UNCHANGED <<periods, quiet>>,
         \A o \in DOMAIN info :
             /\ info'[o].hostDown = info[o].hostDown
             /\ info'[o].inHostDowntime = info[o].inHostDowntime
             /\ info'[o].inPeriod = info[o].inPeriod
  PROVE  PeriodsFollowed' /\ HostReachesServices' /\ UnknownHostIsUp'
<1>1. PeriodsFollowed'
  BY DEF IInv, PeriodsFollowed, PeriodsNow
<1>2. HostReachesServices'
  BY DEF IInv, HostReachesServices
<1>3. UnknownHostIsUp'
  BY DEF IInv, UnknownHostIsUp
<1> QED BY <1>1, <1>2, <1>3

\* An entry of no object of the report.
LEMMA IgnoreEntryInv ==
  ASSUME IInv, NEW e \in Entries, IgnoreEntry(e)
  PROVE  IInv'
<1> USE DEF IInv
<1>1. info' = Prepared(e) /\ meant' = PreparedMeant(e)
      /\ UNCHANGED <<periods, quiet>> /\ Read(e)
  BY DEF IgnoreEntry
<1>2. TypeOK'
  BY <1>1, ReadSound, PreparedSound DEF TypeOK, HostServiceState
<1>3. PeriodsFollowed' /\ HostReachesServices' /\ UnknownHostIsUp'
  BY <1>1, PreparedSound, SameRecords
<1> QED BY <1>2, <1>3

\* A restart puts every object in doubt.
LEMMA LogInitialStatesInv ==
  ASSUME IInv, NEW e \in Entries, LogInitialStates(e)
  PROVE  IInv'
<1> USE DEF IInv
<1>1. UNCHANGED <<periods, quiet>> /\ Read(e)
      /\ DOMAIN info' = DOMAIN info /\ DOMAIN meant' = DOMAIN meant
  BY DEF LogInitialStates
<1>2. ASSUME NEW o \in DOMAIN info
      PROVE  /\ info'[o] \in HostServiceState(o)
             /\ info'[o].hasVanished => info'[o].mayNoLongerExist
             /\ info'[o].hostDown = info[o].hostDown
             /\ info'[o].inHostDowntime = info[o].inHostDowntime
             /\ info'[o].inPeriod = info[o].inPeriod
  <2> DEFINE r == Prepared(e)[o]
  <2>1. info'[o] = IF r.hasVanished THEN r
                   ELSE [r EXCEPT !.lastKnown = e.time, !.mayNoLongerExist = TRUE]
    BY DEF LogInitialStates
  <2>2. e.time \in 0 .. MaxTime
    BY DEF Entries
  <2>3. /\ r \in HostServiceState(o)
        /\ r.hasVanished => r.mayNoLongerExist
        /\ r.hostDown = info[o].hostDown
        /\ r.inHostDowntime = info[o].inHostDowntime
        /\ r.inPeriod = info[o].inPeriod
    BY PreparedSound
  <2> HIDE DEF r
  <2> QED BY <2>1, <2>2, <2>3 DEF HostServiceState
<1>3. TypeOK'
  BY <1>1, <1>2, ReadSound DEF TypeOK, HostServiceState
<1>4. PeriodsFollowed' /\ HostReachesServices' /\ UnknownHostIsUp'
  BY <1>1, <1>2, SameRecords
<1> QED BY <1>3, <1>4

\* The final report.
LEMMA FinishInv ==
  ASSUME IInv, Finish
  PROVE  IInv'
<1> USE DEF IInv
<1>1. UNCHANGED <<since, wanted, onlyUpdate, inInitialStates, now, periods,
                  numRead, quiet>>
      /\ pc' = "done" /\ DOMAIN info' = DOMAIN info /\ DOMAIN meant' = DOMAIN meant
  BY DEF Finish
<1>2. ASSUME NEW o \in DOMAIN info
      PROVE  /\ info'[o] \in HostServiceState(o)
             /\ info'[o].hasVanished => info'[o].mayNoLongerExist
             /\ info'[o].hostDown = info[o].hostDown
             /\ info'[o].inHostDowntime = info[o].inHostDowntime
             /\ info'[o].inPeriod = info[o].inPeriod
  <2> DEFINE r == info[o]
             last == Process(r, r.lastKnown, FALSE)
             absent == [last EXCEPT !.state = Unmonitored]
             before == IF r.mayNoLongerExist THEN absent ELSE r
  <2>1. /\ o \in Objects /\ r \in HostServiceState(o)
        /\ r.hasVanished => r.mayNoLongerExist
    BY DEF TypeOK, Objects
  <2>2. r.lastKnown \in 0 .. MaxTime /\ Until - 1 \in 0 .. MaxTime
    BY <2>1, StateHistoryAssumption DEF HostServiceState, Until
  <2>3. last \in HostServiceState(o) /\ SameFlags(last, r)
    BY <2>1, <2>2, ProcessSound
  <2>4. info'[o] = Process(before, Until - 1, FALSE)
    BY DEF Finish, FinalRow
  <2> HIDE DEF r, last
  <2>5. /\ before \in HostServiceState(o)
        /\ before.hasVanished => before.mayNoLongerExist
        /\ before.hostDown = r.hostDown
        /\ before.inHostDowntime = r.inHostDowntime
        /\ before.inPeriod = r.inPeriod
    BY <2>1, <2>3 DEF HostServiceState, SameFlags
  <2> HIDE DEF before
  <2>6. info'[o] \in HostServiceState(o) /\ SameFlags(info'[o], before)
    BY <2>1, <2>2, <2>4, <2>5, ProcessSound
  <2> QED BY <2>5, <2>6 DEF SameFlags, r
<1>3. TypeOK'
  BY <1>1, <1>2 DEF TypeOK, HostServiceState
<1>4. PeriodsFollowed' /\ HostReachesServices' /\ UnknownHostIsUp'
  BY <1>1, <1>2, SameRecords
<1> QED BY <1>3, <1>4

\* A transition reaches every record that refers to the period.
LEMMA TimeperiodTransitionInv ==
  ASSUME IInv, NEW e \in Entries, TimeperiodTransition(e)
  PROVE  IInv'
<1> USE DEF IInv
<1>1. /\ e.object \in Periods /\ e.value \in {0, 1} /\ e.time \in 0 .. MaxTime
      /\ UNCHANGED quiet /\ Read(e)
      /\ meant' = PreparedMeant(e) /\ DOMAIN info' = DOMAIN info
  BY StateHistoryAssumption DEF TimeperiodTransition, Entries
<1>2. periods' = [p \in DOMAIN periods \cup {e.object} |->
                     IF p = e.object THEN e.value ELSE periods[p]]
  BY DEF TimeperiodTransition
<1>3. periods' \in UNION {[ps -> {0, 1}] : ps \in SUBSET Periods}
  <2>1. PICK ps \in SUBSET Periods : periods \in [ps -> {0, 1}]
    BY DEF TypeOK
  <2>2. periods' \in [ps \cup {e.object} -> {0, 1}]
    BY <1>1, <1>2, <2>1
  <2>3. ps \cup {e.object} \in SUBSET Periods
    BY <1>1
  <2> QED BY <2>2, <2>3
<1>4. ASSUME NEW o \in DOMAIN info
      PROVE  /\ info'[o] \in HostServiceState(o)
             /\ info'[o].hasVanished => info'[o].mayNoLongerExist
             /\ info'[o].hostDown = info[o].hostDown
             /\ info'[o].inHostDowntime = info[o].inHostDowntime
             /\ info'[o].inPeriod = PeriodsNow(o)'
  <2> DEFINE r == Prepared(e)[o]
             only == ~Reached(e)
             row == Process(r, e.time, only)
             concerned == e.object \in PeriodsOf[o]
  <2>1. /\ r \in HostServiceState(o)
        /\ r.hasVanished => r.mayNoLongerExist
        /\ r.hostDown = info[o].hostDown
        /\ r.inHostDowntime = info[o].inHostDowntime
        /\ r.inPeriod = PeriodsNow(o)
    BY PreparedSound DEF PeriodsFollowed
  <2>2. o \in Objects /\ only \in BOOLEAN
    BY DEF TypeOK, Objects, Reached
  <2>3. info'[o] = IF concerned /\ r.inPeriod[e.object] # e.value
                   THEN [row EXCEPT !.inPeriod[e.object] = e.value]
                   ELSE r
    BY DEF TimeperiodTransition, Transition
  <2> HIDE DEF r, only
  <2>4. row \in HostServiceState(o) /\ SameFlags(row, r)
    BY <1>1, <2>1, <2>2, ProcessSound
  <2> HIDE DEF row
  <2>5. PeriodsNow(o)' = IF concerned
                         THEN [PeriodsNow(o) EXCEPT ![e.object] = e.value]
                         ELSE PeriodsNow(o)
    BY <1>2 DEF PeriodsNow
  <2>6. PeriodsNow(o) \in [PeriodsOf[o] -> {0, 1}]
    BY <2>2, PeriodsNowTyped
  <2>7. CASE concerned /\ r.inPeriod[e.object] # e.value
    <3> DEFINE inPeriod == [row.inPeriod EXCEPT ![e.object] = e.value]
    <3>1. inPeriod = PeriodsNow(o)' /\ inPeriod \in [PeriodsOf[o] -> {0, 1}]
      BY <1>1, <2>1, <2>4, <2>5, <2>6, <2>7 DEF SameFlags
    <3>2. info'[o] = [row EXCEPT !.inPeriod = inPeriod]
      BY <2>3, <2>7
    <3> HIDE DEF inPeriod
    <3> QED BY <2>1, <2>4, <3>1, <3>2 DEF HostServiceState, SameFlags
  <2>8. CASE ~(concerned /\ r.inPeriod[e.object] # e.value)
    <3>1. PeriodsNow(o)' = PeriodsNow(o)
      BY <2>1, <2>5, <2>6, <2>8
    <3> QED BY <2>1, <2>3, <2>8, <3>1
  <2> QED BY <2>7, <2>8
<1>5. TypeOK'
  BY <1>1, <1>3, <1>4, ReadSound, PreparedSound DEF TypeOK, HostServiceState
<1>6. PeriodsFollowed'
  BY <1>1, <1>4 DEF PeriodsFollowed
<1>7. HostReachesServices'
  BY <1>1, <1>4 DEF HostReachesServices
<1>8. UnknownHostIsUp'
  BY <1>1, <1>4 DEF UnknownHostIsUp
<1> QED BY <1>5, <1>6, <1>7, <1>8

\* Whether an entry changes the host, so that it is passed on.
LEMMA PropagatesSound ==
  ASSUME IInv, NEW e \in Entries, NEW only \in BOOLEAN,
         e.kind \in Kinds, e.object \in Hosts,
         NEW r \in HostServiceState(e.object), r.inPeriod = PeriodsNow(e.object)
  PROVE  LET q == Update(e.object, r, e, only)
             told == Propagates(r, e, only)
         IN /\ told /\ e.kind = "alert" => q.hostDown = (e.value > 0)
            /\ told => e.kind \in {"alert", "downtime"}
            /\ ~told /\ e.kind # "initial" => q.hostDown = r.hostDown
            /\ ~told => q.inHostDowntime = r.inHostDowntime
  BY UpdateSound DEF Propagates, IInv, Kinds, Objects

\* The names ObjectEntry gives to the record of its object and to the services
\* the entry is passed on to.
Only(e) == ~Reached(e)

RecordOf(e) ==
    IF e.object \notin DOMAIN info THEN NewState(e.object, e.time, Only(e))
                                  ELSE Prepared(e)[e.object]

Told(e) ==
    IF Propagates(RecordOf(e), e, Only(e))
    THEN {s \in Services \cap DOMAIN info : HostOf[s] = e.object} ELSE {}

\* What is known of the record before the entry is applied to it.
LEMMA RecordOfSound ==
  ASSUME IInv, NEW e \in Entries, e.object \in Objects
  PROVE  LET o == e.object
             hostKnown == o \in Services /\ HostOf[o] \in DOMAIN info
         IN /\ RecordOf(e) \in HostServiceState(o)
            /\ RecordOf(e).inPeriod = PeriodsNow(o)
            /\ o \in DOMAIN info =>
                   /\ RecordOf(e).hostDown = info[o].hostDown
                   /\ RecordOf(e).inHostDowntime = info[o].inHostDowntime
            /\ o \notin DOMAIN info /\ hostKnown =>
                   /\ RecordOf(e).hostDown = info[HostOf[o]].hostDown
                   /\ RecordOf(e).inHostDowntime = info[HostOf[o]].inHostDowntime
            /\ o \notin DOMAIN info /\ ~hostKnown =>
                   ~RecordOf(e).hostDown /\ RecordOf(e).inHostDowntime = 0
<1>1. e.time \in 0 .. MaxTime
  BY DEF Entries
<1>2. Only(e) \in BOOLEAN
  BY DEF Only, Reached, IInv, TypeOK
<1>3. CASE e.object \in DOMAIN info
  <2>1. RecordOf(e) = Prepared(e)[e.object]
    BY <1>3 DEF RecordOf
  <2>2. info[e.object].inPeriod = PeriodsNow(e.object)
    BY <1>3 DEF IInv, PeriodsFollowed
  <2> QED BY <1>3, <2>1, <2>2, PreparedSound DEF IInv
<1>4. CASE e.object \notin DOMAIN info
  <2>1. RecordOf(e) = NewState(e.object, e.time, Only(e))
    BY <1>4 DEF RecordOf
  <2> QED BY <1>1, <1>2, <1>4, <2>1, NewStateSound DEF IInv
<1> QED BY <1>3, <1>4

\* What an entry of an object leaves in the records: of the object itself, of
\* the services it is passed on to, and of all others.
LEMMA ObjectEntryRecords ==
  ASSUME IInv, NEW e \in Entries, ObjectEntry(e)
  PROVE  /\ e.kind \in Kinds /\ e.object \in Objects
         /\ e.object \in Hosts \cup wanted
         /\ Only(e) \in BOOLEAN
         /\ DOMAIN info' = DOMAIN info \cup {e.object}
         /\ info'[e.object] = Update(e.object, RecordOf(e), e, Only(e))
         /\ \A x \in Told(e) \ {e.object} :
                info'[x] = Update(x, Prepared(e)[x], e, Only(e))
         /\ \A x \in DOMAIN info \ (Told(e) \cup {e.object}) :
                info'[x] = Prepared(e)[x]
         /\ DOMAIN meant' = DOMAIN meant \cup {e.object}
         /\ quiet' = IF e.object \in Hosts /\ e.kind = "initial"
                     THEN quiet \cup {e.object}
                     ELSE IF e.kind = "alert"
                             /\ Propagates(RecordOf(e), e, Only(e))
                          THEN quiet \ {e.object} ELSE quiet
<1>1. e.kind \in Kinds /\ ~Ignored(e)
  BY DEF ObjectEntry
<1>2. e.object \in Hosts \cup wanted /\ e.object \in Objects
  BY <1>1 DEF Ignored, IInv, TypeOK, Objects
<1>3. Only(e) \in BOOLEAN
  BY DEF Only, Reached, IInv, TypeOK
<1>4. info' = [x \in DOMAIN info \cup {e.object} |->
                  IF x = e.object THEN Update(e.object, RecordOf(e), e, Only(e))
                  ELSE IF x \in Told(e)
                       THEN Update(x, Prepared(e)[x], e, Only(e))
                       ELSE Prepared(e)[x]]
  BY DEF ObjectEntry, Told, RecordOf, Only
<1>5. DOMAIN meant' = DOMAIN meant \cup {e.object}
  BY DEF ObjectEntry
<1>6. quiet' = IF e.object \in Hosts /\ e.kind = "initial"
               THEN quiet \cup {e.object}
               ELSE IF e.kind = "alert" /\ Propagates(RecordOf(e), e, Only(e))
                    THEN quiet \ {e.object} ELSE quiet
  BY DEF ObjectEntry, RecordOf, Only
<1>7. Told(e) \subseteq DOMAIN info
  BY DEF Told
<1> QED BY <1>1, <1>2, <1>3, <1>4, <1>5, <1>6, <1>7

\* After an entry of an object, services and hosts still agree.  An entry of a
\* service concerns nobody else; one of a host is passed on to its services
\* whenever it has changed the host.
LEMMA ObjectEntryReaches ==
  ASSUME IInv, NEW e \in Entries, ObjectEntry(e)
  PROVE  HostReachesServices' /\ UnknownHostIsUp'
<1> DEFINE o == e.object
           down(x) == info'[x].hostDown
           downtime(x) == info'[x].inHostDowntime
<1>1. /\ e.kind \in Kinds /\ o \in Objects /\ Only(e) \in BOOLEAN
      /\ DOMAIN info' = DOMAIN info \cup {o}
  BY ObjectEntryRecords
<1>2. \A x \in DOMAIN info \ (Told(e) \cup {o}) :
          down(x) = info[x].hostDown /\ downtime(x) = info[x].inHostDowntime
  <2> TAKE x \in DOMAIN info \ (Told(e) \cup {o})
  <2>1. info'[x] = Prepared(e)[x]
    BY ObjectEntryRecords
  <2>2. /\ Prepared(e)[x].hostDown = info[x].hostDown
        /\ Prepared(e)[x].inHostDowntime = info[x].inHostDowntime
    BY PreparedSound DEF IInv
  <2> QED BY <2>1, <2>2
<1>3. HostOf \in [Services -> Hosts] /\ Hosts \cap Services = {}
  BY StateHistoryAssumption
<1> DEFINE known == RecordOf(e)
<1>4. /\ known \in HostServiceState(o) /\ known.inPeriod = PeriodsNow(o)
      /\ info'[o] = Update(o, known, e, Only(e))
  BY <1>1, RecordOfSound, ObjectEntryRecords
<1>5. /\ downtime(o) = IF e.kind = "downtime" /\ o \in Hosts
                       THEN e.value ELSE known.inHostDowntime
      /\ e.kind \notin {"alert", "initial"} \/ o \notin Hosts =>
             down(o) = known.hostDown
  <2> HIDE DEF known
  <2>1. LET q == Update(o, known, e, Only(e))
        IN /\ q.inHostDowntime = IF e.kind = "downtime" /\ o \in Hosts
                                 THEN e.value ELSE known.inHostDowntime
           /\ e.kind \notin {"alert", "initial"} \/ o \notin Hosts =>
                  q.hostDown = known.hostDown
    BY <1>1, <1>4, UpdateSound DEF IInv
  <2> QED BY <1>4, <2>1
<1>6. CASE o \in Services
  <2>1. Told(e) = {} /\ o \notin Hosts
    BY <1>3, <1>6 DEF Told, Propagates
  <2>2. /\ down(o) = RecordOf(e).hostDown
        /\ downtime(o) = RecordOf(e).inHostDowntime
    BY <1>5, <2>1
  <2>3. quiet' = quiet
    <3>1. ~Propagates(RecordOf(e), e, Only(e))
      BY <2>1 DEF Propagates
    <3> QED BY <2>1, <3>1, ObjectEntryRecords
  <2>4. ASSUME NEW s \in Services, s \in DOMAIN info', HostOf[s] \in DOMAIN info'
        PROVE  /\ downtime(s) = downtime(HostOf[s])
               /\ down(s) = down(HostOf[s]) \/ HostOf[s] \in quiet'
    <3>1. HostOf[s] # o /\ HostOf[s] \in DOMAIN info
      BY <1>1, <1>3, <2>1, <2>4
    <3>2. CASE s = o
      BY <1>1, <1>2, <2>1, <2>2, <2>3, <3>1, <3>2, RecordOfSound
         DEF IInv, HostReachesServices
    <3>3. CASE s # o
      BY <1>1, <1>2, <2>1, <2>3, <2>4, <3>1, <3>3 DEF IInv, HostReachesServices
    <3> QED BY <3>2, <3>3
  <2>5. ASSUME NEW s \in Services, s \in DOMAIN info', HostOf[s] \notin DOMAIN info'
        PROVE  ~down(s) /\ downtime(s) = 0
    <3>1. CASE s = o
      BY <1>1, <2>2, <2>5, <3>1, RecordOfSound DEF IInv, UnknownHostIsUp
    <3>2. CASE s # o
      BY <1>1, <1>2, <2>1, <2>5, <3>2 DEF IInv, UnknownHostIsUp
    <3> QED BY <3>1, <3>2
  <2> QED BY <2>4, <2>5 DEF HostReachesServices, UnknownHostIsUp
<1>7. CASE o \in Hosts
  <2>1. Told(e) \subseteq {s \in Services \cap DOMAIN info : HostOf[s] = o}
    BY DEF Told
  <2> DEFINE told == Propagates(RecordOf(e), e, Only(e))
             alert == e.kind \in {"alert", "initial"}
  <2>2. /\ told /\ e.kind = "alert" => down(o) = (e.value > 0)
        /\ told => e.kind \in {"alert", "downtime"}
        /\ ~told /\ e.kind # "initial" => down(o) = RecordOf(e).hostDown
        /\ ~told => downtime(o) = RecordOf(e).inHostDowntime
    <3>1. LET q == Update(o, known, e, Only(e))
          IN /\ told /\ e.kind = "alert" => q.hostDown = (e.value > 0)
             /\ told => e.kind \in {"alert", "downtime"}
             /\ ~told /\ e.kind # "initial" => q.hostDown = known.hostDown
             /\ ~told => q.inHostDowntime = known.inHostDowntime
      <4> HIDE DEF known
      <4>1. told = Propagates(known, e, Only(e))
        BY DEF known
      <4> QED BY <1>1, <1>7, <1>4, <4>1, PropagatesSound
    <3> QED BY <1>4, <3>1
  <2>3. /\ e.kind = "downtime" => downtime(o) = e.value
        /\ e.kind # "downtime" => downtime(o) = RecordOf(e).inHostDowntime
        /\ ~alert => down(o) = RecordOf(e).hostDown
    BY <1>7, <1>5
  <2>4. ASSUME NEW s \in Told(e)
        PROVE  /\ e.kind = "alert" => down(s) = (e.value > 0)
               /\ e.kind # "alert" => down(s) = info[s].hostDown
               /\ e.kind = "downtime" => downtime(s) = e.value
               /\ e.kind # "downtime" => downtime(s) = info[s].inHostDowntime
    <3> DEFINE r == Prepared(e)[s]
    <3>1. /\ s \in Objects /\ s \notin Hosts /\ s # o
          /\ s \in DOMAIN info /\ told
      BY <1>3, <1>7, <2>1 DEF Told, Objects
    <3>2. /\ r \in HostServiceState(s) /\ r.inPeriod = PeriodsNow(s)
          /\ r.hostDown = info[s].hostDown
          /\ r.inHostDowntime = info[s].inHostDowntime
      BY <3>1, PreparedSound DEF IInv, PeriodsFollowed
    <3>3. info'[s] = Update(s, r, e, Only(e))
      BY <3>1, ObjectEntryRecords
    <3> HIDE DEF r
    <3>4. LET q == Update(s, r, e, Only(e))
          IN /\ q.hostDown = IF alert THEN e.value > 0 ELSE r.hostDown
             /\ q.inHostDowntime = IF e.kind = "downtime" THEN e.value
                                   ELSE r.inHostDowntime
      BY <1>1, <1>7, <3>1, <3>2, UpdateSound DEF IInv
    <3> QED BY <2>2, <3>1, <3>2, <3>3, <3>4
  <2>5. ASSUME NEW s \in Services, s \in DOMAIN info', HostOf[s] \in DOMAIN info'
        PROVE  /\ downtime(s) = downtime(HostOf[s])
               /\ down(s) = down(HostOf[s]) \/ HostOf[s] \in quiet'
    <3>1. s # o /\ s \in DOMAIN info
      BY <1>1, <1>3, <1>7, <2>5
    <3>2. CASE HostOf[s] # o
      <4>1. s \notin Told(e) /\ HostOf[s] \notin Told(e)
            /\ HostOf[s] \in DOMAIN info
        BY <1>1, <1>3, <2>1, <2>5, <3>2
      <4>2. HostOf[s] \in quiet' <=> HostOf[s] \in quiet
        BY <3>2, ObjectEntryRecords
      <4> QED BY <1>2, <3>1, <3>2, <4>1, <4>2 DEF IInv, HostReachesServices
    <3>3. CASE HostOf[s] = o
      <4>1. /\ info[s].inHostDowntime = RecordOf(e).inHostDowntime
            /\ info[s].hostDown = RecordOf(e).hostDown \/ o \in quiet
        <5>1. CASE o \in DOMAIN info
          BY <1>1, <3>1, <3>3, <5>1, RecordOfSound DEF IInv, HostReachesServices
        <5>2. CASE o \notin DOMAIN info
          <6>1. ~RecordOf(e).hostDown /\ RecordOf(e).inHostDowntime = 0
                /\ RecordOf(e).hostDown \in BOOLEAN
            BY <1>1, <1>3, <1>7, <5>2, RecordOfSound DEF HostServiceState
          <6>2. ~info[s].hostDown /\ info[s].inHostDowntime = 0
                /\ info[s].hostDown \in BOOLEAN
            BY <3>1, <3>3, <5>2
               DEF IInv, UnknownHostIsUp, TypeOK, HostServiceState
          <6> QED BY <6>1, <6>2
        <5> QED BY <5>1, <5>2
      <4>2. quiet' = IF e.kind = "initial" THEN quiet \cup {o}
                     ELSE IF e.kind = "alert" /\ told THEN quiet \ {o} ELSE quiet
        BY <1>7, ObjectEntryRecords
      <4>3. CASE told
        <5>1. s \in Told(e)
          BY <3>1, <3>3, <4>3 DEF Told
        <5> QED BY <2>2, <2>3, <2>4, <3>3, <4>1, <4>2, <4>3, <5>1
      <4>4. CASE ~told
        <5>1. down(s) = info[s].hostDown /\ downtime(s) = info[s].inHostDowntime
          BY <1>2, <3>1, <4>4 DEF Told
        <5> QED BY <2>2, <3>3, <4>1, <4>2, <4>4, <5>1
      <4> QED BY <4>3, <4>4
    <3> QED BY <3>2, <3>3
  <2>6. ASSUME NEW s \in Services, s \in DOMAIN info', HostOf[s] \notin DOMAIN info'
        PROVE  ~down(s) /\ downtime(s) = 0
    <3>1. s # o /\ s \in DOMAIN info /\ s \notin Told(e)
      BY <1>1, <1>3, <1>7, <2>1, <2>6
    <3> QED BY <1>1, <1>2, <2>6, <3>1 DEF IInv, UnknownHostIsUp
  <2> QED BY <2>5, <2>6 DEF HostReachesServices, UnknownHostIsUp
<1> QED BY <1>1, <1>6, <1>7 DEF Objects

\* An entry of a host or service.
LEMMA ObjectEntryInv ==
  ASSUME IInv, NEW e \in Entries, ObjectEntry(e)
  PROVE  IInv'
<1> DEFINE o == e.object
           Sound(x) == /\ info'[x] \in HostServiceState(x)
                       /\ info'[x].hasVanished => info'[x].mayNoLongerExist
                       /\ info'[x].inPeriod = PeriodsNow(x)
<1>1. /\ e.kind \in Kinds /\ o \in Objects /\ Only(e) \in BOOLEAN
      /\ o \in Hosts \cup wanted
      /\ DOMAIN info' = DOMAIN info \cup {o}
      /\ DOMAIN meant' = DOMAIN meant \cup {o}
  BY ObjectEntryRecords
<1>2. Read(e) /\ UNCHANGED periods
  BY DEF ObjectEntry
<1>3. \A x \in DOMAIN info :
          /\ x \in Objects
          /\ Prepared(e)[x] \in HostServiceState(x)
          /\ Prepared(e)[x].hasVanished => Prepared(e)[x].mayNoLongerExist
          /\ Prepared(e)[x].inPeriod = PeriodsNow(x)
  BY PreparedSound DEF IInv, PeriodsFollowed, TypeOK, Objects
<1>4. Sound(o)
  <2> DEFINE r == RecordOf(e)
  <2>1. r \in HostServiceState(o) /\ r.inPeriod = PeriodsNow(o)
    BY <1>1, RecordOfSound
  <2> HIDE DEF r
  <2>2. LET q == Update(o, r, e, Only(e))
        IN /\ q \in HostServiceState(o)
           /\ ~q.hasVanished
           /\ q.inPeriod = PeriodsNow(o)
    BY <1>1, <2>1, UpdateSound DEF IInv
  <2>3. info'[o] = Update(o, r, e, Only(e))
    BY ObjectEntryRecords DEF r
  <2> QED BY <2>2, <2>3
<1>5. ASSUME NEW x \in Told(e), x # o
      PROVE  Sound(x)
  <2> DEFINE r == Prepared(e)[x]
  <2>1. x \in DOMAIN info
    BY DEF Told
  <2>2. r \in HostServiceState(x) /\ r.inPeriod = PeriodsNow(x) /\ x \in Objects
    BY <1>3, <2>1
  <2>3. info'[x] = Update(x, r, e, Only(e))
    BY <1>5, ObjectEntryRecords
  <2> HIDE DEF r
  <2>4. LET q == Update(x, r, e, Only(e))
        IN /\ q \in HostServiceState(x)
           /\ ~q.hasVanished
           /\ q.inPeriod = PeriodsNow(x)
    BY <1>1, <2>2, UpdateSound DEF IInv
  <2> QED BY <2>3, <2>4
<1>6. ASSUME NEW x \in DOMAIN info \ (Told(e) \cup {o})
      PROVE  Sound(x)
  <2>1. info'[x] = Prepared(e)[x]
    BY <1>6, ObjectEntryRecords
  <2> QED BY <1>3, <2>1
<1>7. \A x \in DOMAIN info' : Sound(x)
  BY <1>1, <1>4, <1>5, <1>6
<1>8. TypeOK'
  <2>1. quiet' \subseteq Hosts
    BY ObjectEntryRecords DEF IInv, TypeOK
  <2> QED BY <1>1, <1>2, <1>7, <2>1, ReadSound DEF IInv, TypeOK, HostServiceState
<1>9. PeriodsFollowed'
  BY <1>2, <1>7 DEF PeriodsFollowed, PeriodsNow
<1> QED BY <1>8, <1>9, ObjectEntryReaches DEF IInv

\* A query begins, or ends early, without records.
LEMMA NoRecordsInv ==
  ASSUME IInv, info' = << >>, meant' = << >>, UNCHANGED periods,
         pc' \in {"idle", "reading"}, since' \in 0 .. MaxTime,
         wanted' \subseteq Services, onlyUpdate' \in BOOLEAN,
         inInitialStates' \in BOOLEAN, now' \in 0 .. MaxTime,
         numRead' \in 0 .. MaxEntries, quiet' \subseteq Hosts
  PROVE  IInv'
<1>1. DOMAIN info' = {} /\ DOMAIN meant' = {}
  OBVIOUS
<1> QED BY <1>1 DEF IInv, TypeOK, PeriodsFollowed, HostReachesServices,
                    UnknownHostIsUp

(***************************************************************************)
(* The invariant holds in every state, and the theorems follow from it.    *)
(***************************************************************************)
LEMMA InitInv == Init => IInv
<1> SUFFICES ASSUME Init PROVE IInv
  OBVIOUS
<1>1. DOMAIN info = {} /\ DOMAIN meant = {}
  BY DEF Init
<1>2. periods \in UNION {[ps -> {0, 1}] : ps \in SUBSET Periods}
  <2>1. periods \in [{} -> {0, 1}]
    BY DEF Init
  <2> QED BY <2>1
<1>3. since \in 0 .. MaxTime /\ now \in 0 .. MaxTime
      /\ numRead \in 0 .. MaxEntries
  <2>1. MaxTime \in Nat /\ MaxEntries \in Nat
    BY StateHistoryAssumption
  <2> QED BY <2>1 DEF Init
<1>4. TypeOK
  <2>1. pc = "idle" /\ wanted = {} /\ onlyUpdate = TRUE
        /\ inInitialStates = FALSE /\ quiet = {}
    BY DEF Init
  <2> QED BY <1>1, <1>2, <1>3, <2>1 DEF TypeOK
<1>5. PeriodsFollowed /\ HostReachesServices /\ UnknownHostIsUp
  BY <1>1 DEF PeriodsFollowed, HostReachesServices, UnknownHostIsUp
<1> QED BY <1>4, <1>5 DEF IInv

\* Every entry of the log, and the end of the report, keeps the invariant.
LEMMA NextInv == IInv /\ [Next]_vars => IInv'
<1> SUFFICES ASSUME IInv, [Next]_vars PROVE IInv'
  OBVIOUS
<1>1. CASE \E from \in 0 .. MaxTime, services \in SUBSET Services :
              StartQuery(from, services)
  <2>1. PICK from \in 0 .. MaxTime, services \in SUBSET Services :
            StartQuery(from, services)
    BY <1>1
  <2>2. info' = << >> /\ meant' = << >> /\ UNCHANGED periods
        /\ pc' = "reading" /\ since' = from /\ wanted' = services
        /\ onlyUpdate' = TRUE /\ inInitialStates' = FALSE
        /\ now' = 0 /\ numRead' = numRead /\ quiet' = {}
    BY <2>1 DEF StartQuery
  <2>3. now' \in 0 .. MaxTime
    <3>1. MaxTime \in Nat
      BY StateHistoryAssumption
    <3> QED BY <2>2, <3>1
  <2>4. numRead' \in 0 .. MaxEntries
    BY <2>2 DEF IInv, TypeOK
  <2>5. since' \in 0 .. MaxTime /\ wanted' \subseteq Services
        /\ quiet' \subseteq Hosts
    BY <2>1, <2>2
  <2> QED BY <2>2, <2>3, <2>4, <2>5, NoRecordsInv
<1>2. ASSUME NEW e \in Entries, IgnoreEntry(e) PROVE IInv'
  BY <1>2, IgnoreEntryInv
<1>3. ASSUME NEW e \in Entries, ObjectEntry(e) PROVE IInv'
  BY <1>3, ObjectEntryInv
<1>4. ASSUME NEW e \in Entries, TimeperiodTransition(e) PROVE IInv'
  BY <1>4, TimeperiodTransitionInv
<1>5. ASSUME NEW e \in Entries, LogInitialStates(e) PROVE IInv'
  BY <1>5, LogInitialStatesInv
<1>6. CASE Finish
  BY <1>6, FinishInv
<1>7. CASE Abort
  BY <1>7, NoRecordsInv DEF Abort, IInv, TypeOK
<1>8. CASE UNCHANGED vars
  <2>1. TypeOK'
    BY <1>8 DEF vars, IInv, TypeOK, HostServiceState
  <2>2. PeriodsFollowed'
    BY <1>8 DEF vars, IInv, PeriodsFollowed, PeriodsNow
  <2>3. HostReachesServices'
    BY <1>8 DEF vars, IInv, HostReachesServices
  <2>4. UnknownHostIsUp'
    BY <1>8 DEF vars, IInv, UnknownHostIsUp
  <2> QED BY <2>1, <2>2, <2>3, <2>4 DEF IInv
<1> QED BY <1>1, <1>2, <1>3, <1>4, <1>5, <1>6, <1>7, <1>8 DEF Next

\* The inductive invariant of the records.
LEMMA Invariance == Spec => []IInv
  BY InitInv, NextInv, PTL DEF Spec

\* Every variable keeps its type, for any number of hosts, services, periods
\* and log entries, and what has vanished was missing at a restart.
THEOREM TypeCorrect == Spec => []TypeOK
<1>1. IInv => TypeOK
  BY DEF IInv
<1> QED BY Invariance, <1>1, PTL

\* The records of a report are inside or outside of their periods as the last
\* transitions say, whatever has vanished and come back in between.
THEOREM PeriodsAreFollowed == Spec => []PeriodsFollowed
<1>1. IInv => PeriodsFollowed
  BY DEF IInv
<1> QED BY Invariance, <1>1, PTL

\* The services of a host are in host downtime exactly when their host is, and
\* know whether it is down unless only an initial state said so, in whatever
\* order hosts and services appear in the log.
THEOREM HostsReachServices == Spec => []HostReachesServices
<1>1. IInv => HostReachesServices
  BY DEF IInv
<1> QED BY Invariance, <1>1, PTL

------------------------------------------------------------------------------
(* Seconds *)

StatesOfRows == States \cup {Unmonitored}
Seconds == [StatesOfRows -> Int]

\* d seconds more in state x
Plus(f, x, d) == [f EXCEPT ![x] = @ + d]

\* The rows of an object that keeps its state until time.
Present(r, time) == Plus(r.spent, r.state, time - r.from)

\* The rows of an object that is unmonitored since it was last known.
Absent(r, time) ==
    Plus(IF Refused(r.lastKnown) THEN r.spent ELSE Present(r, r.lastKnown),
         Unmonitored, time - r.lastKnown)

\* What the rows of an object will say, those that are not yet written included,
\* if nothing is heard of it until time.
Due(r, time) == IF r.hasVanished THEN Absent(r, time) ELSE Present(r, time)

\* The same of what is meant.
Claimed(m) == IF m.doubtful THEN Plus(m.counted, Unmonitored, m.pending) ELSE m.counted

\* Since when an object in doubt has been in doubt, as far as the frame goes.
Begin(r) == IF Refused(r.lastKnown) THEN since ELSE r.lastKnown

\* No state has less in f than in g.
AtLeast(f, g) == \A x \in StatesOfRows : f[x] >= g[x]

\* An object that is missing since a restart before the frame may get more.
Excepted(m) == m.early \/ (m.gone /\ m.restart < since)

Matches(f, g, excepted) == IF excepted THEN AtLeast(f, g) ELSE f = g

\* The record of an object is as it is meant to be at a time; the initial states
\* may be being logged.  A host may have told a service that has vanished of a
\* change: then the record is no longer in doubt, but unmonitored.
Agrees(r, m, time, initial) ==
    /\ ~m.doubtful => /\ ~r.mayNoLongerExist /\ m.is = r.state
                      /\ m.pending = 0 /\ ~m.gone
    /\ m.doubtful /\ ~m.gone =>
           /\ r.mayNoLongerExist /\ ~r.hasVanished /\ m.is = r.state
           /\ initial
           /\ m.restart = r.lastKnown
           /\ m.pending = time - Begin(r)
           /\ Matches(Present(r, Begin(r)), m.counted, m.early)
    /\ m.doubtful /\ m.gone =>
           /\ r.hasVanished \/ r.state = Unmonitored
           /\ r.mayNoLongerExist /\ Refused(r.lastKnown) => m.restart < since
    /\ ~m.doubtful \/ m.gone => Matches(Due(r, time), Claimed(m), Excepted(m))

\* How much of the time frame has passed.
Clock == IF now < since THEN since ELSE now

Meant ==
    [is : StatesOfRows, doubtful : BOOLEAN, gone : BOOLEAN, restart : Int,
     early : BOOLEAN, pending : Int, counted : Seconds]

\* Before the time frame nothing is spent, and whatever is in doubt is so since
\* before.
BeforeFrame(r, m) ==
    /\ r.from = since /\ r.spent = NoSeconds
    /\ ~m.early /\ m.counted = NoSeconds /\ m.pending = 0
    /\ m.doubtful => m.restart < since

\* The rows of an object lie one behind the other: no second of the frame is
\* left out, up to the one where the next row begins.
Laid(r, time) ==
    /\ Total(r.spent) >= r.from - since
    /\ r.from <= time
    /\ r.mayNoLongerExist => /\ r.lastKnown <= time
                             /\ Refused(r.lastKnown) => r.from >= since

\* Every second of the frame is meant for a state, or in doubt.
Complete(m, time) == Total(m.counted) + m.pending = time - since

ReadingInv ==
    pc = "reading" =>
        /\ IF onlyUpdate THEN Clock = since ELSE now >= since
        /\ \A o \in DOMAIN info :
               /\ meant[o] \in Meant
               /\ Laid(info[o], Clock)
               /\ Complete(meant[o], Clock)
               /\ onlyUpdate => BeforeFrame(info[o], meant[o])
               /\ Agrees(info[o], meant[o], Clock, inInitialStates)

\* A set of numbers with zero and the successors of its members has all of them.
LEMMA AllNumbers ==
  ASSUME NEW P \in SUBSET Nat, 0 \in P, \A n \in P : n + 1 \in P
  PROVE  P = Nat
<1> DEFINE missing == Nat \ P
<1> SUFFICES ASSUME missing # {} PROVE FALSE
  OBVIOUS
<1>1. PICK x \in missing : \A y \in missing : ~(<<y, x>> \in OpToRel(<, Nat))
  <2>1. IsWellFoundedOn(OpToRel(<, Nat), Nat)
    BY NatLessThanWellFounded
  <2> QED BY <2>1, WFMin
<1>2. x \in Nat /\ x \notin P /\ x # 0
  BY <1>1
<1>3. x - 1 \in Nat /\ x - 1 < x
  BY <1>2
<1>4. x - 1 \in P
  BY <1>1, <1>3 DEF OpToRel
<1>5. x - 1 + 1 = x
  BY <1>2
<1> QED BY <1>2, <1>4, <1>5

\* A subset without its picked element is smaller.
LEMMA Smaller ==
  ASSUME NEW S, IsFiniteSet(S), NEW s \in SUBSET S, NEW x \in s
  PROVE  /\ IsFiniteSet(s) /\ s \ {x} \in SUBSET S
         /\ Cardinality(s) \in Nat /\ Cardinality(s \ {x}) \in Nat
         /\ Cardinality(s \ {x}) + 1 = Cardinality(s) /\ Cardinality(s) > 0
<1>1. IsFiniteSet(s) /\ IsFiniteSet(s \ {x})
  BY FS_Subset
<1>2. Cardinality(s \ {x}) = Cardinality(s) - 1
  BY <1>1, FS_RemoveElement
<1>3. Cardinality(s) \in Nat /\ Cardinality(s \ {x}) \in Nat
  BY <1>1, FS_CardinalityType
<1> QED BY <1>1, <1>2, <1>3

Pick(s) == CHOOSE x \in s : TRUE

\* The sum over every subset, taken element after element.
Adds(g, f, S) ==
    \A s \in SUBSET S : g[s] = IF s = {} THEN 0 ELSE f[Pick(s)] + g[s \ {Pick(s)}]

\* Such sums exist over a finite set.
LEMMA SumsExist ==
  ASSUME NEW S, IsFiniteSet(S), NEW f, \A x \in S : f[x] \in Int
  PROVE  \E g \in [SUBSET S -> Int] : Adds(g, f, S)
<1> DEFINE AddsTo(g, n) ==
               \A s \in SUBSET S : Cardinality(s) <= n =>
                   g[s] = IF s = {} THEN 0 ELSE f[Pick(s)] + g[s \ {Pick(s)}]
           P == {n \in Nat : \E g \in [SUBSET S -> Int] : AddsTo(g, n)}
<1>1. 0 \in P
  <2> DEFINE g == [s \in SUBSET S |-> 0]
  <2>1. \A s \in SUBSET S : Cardinality(s) <= 0 => s = {}
    <3> SUFFICES ASSUME NEW s \in SUBSET S, Cardinality(s) <= 0, s # {} PROVE FALSE
      OBVIOUS
    <3>1. PICK x \in s : TRUE
      OBVIOUS
    <3>2. Cardinality(s) > 0 /\ Cardinality(s) \in Nat
      BY <3>1, Smaller
    <3> QED BY <3>2
  <2>2. g \in [SUBSET S -> Int] /\ AddsTo(g, 0)
    BY <2>1
  <2> QED BY <2>2
<1>2. ASSUME NEW n \in P PROVE n + 1 \in P
  <2>1. PICK g \in [SUBSET S -> Int] : AddsTo(g, n)
    OBVIOUS
  <2> DEFINE h == [s \in SUBSET S |->
                      IF Cardinality(s) <= n THEN g[s]
                      ELSE f[Pick(s)] + g[s \ {Pick(s)}]]
  <2>2. ASSUME NEW s \in SUBSET S, s # {}
        PROVE  /\ Pick(s) \in s /\ f[Pick(s)] \in Int
               /\ s \ {Pick(s)} \in SUBSET S /\ g[s \ {Pick(s)}] \in Int
               /\ Cardinality(s) \in Nat /\ Cardinality(s \ {Pick(s)}) \in Nat
               /\ Cardinality(s \ {Pick(s)}) + 1 = Cardinality(s)
    <3>1. Pick(s) \in s
      BY <2>2 DEF Pick
    <3> QED BY <3>1, Smaller
  <2>3. Cardinality({}) = 0
    BY FS_EmptySet
  <2>4. h \in [SUBSET S -> Int]
    <3> SUFFICES ASSUME NEW s \in SUBSET S PROVE h[s] \in Int
      OBVIOUS
    <3>1. CASE s = {}
      BY <2>3, <3>1
    <3>2. CASE s # {}
      BY <2>2, <3>2
    <3> QED BY <3>1, <3>2
  <2>5. AddsTo(h, n + 1)
    <3> SUFFICES ASSUME NEW s \in SUBSET S, Cardinality(s) <= n + 1
                 PROVE  h[s] = IF s = {} THEN 0 ELSE f[Pick(s)] + h[s \ {Pick(s)}]
      OBVIOUS
    <3>1. CASE s = {}
      BY <2>1, <2>3, <3>1
    <3>2. CASE s # {}
      <4>1. Cardinality(s \ {Pick(s)}) <= n
        BY <2>2, <3>2
      <4>2. h[s \ {Pick(s)}] = g[s \ {Pick(s)}]
        BY <2>2, <3>2, <4>1
      <4>3. h[s] = f[Pick(s)] + g[s \ {Pick(s)}]
        BY <2>1, <3>2
      <4> QED BY <3>2, <4>2, <4>3
    <3> QED BY <3>1, <3>2
  <2> HIDE DEF h
  <2>6. n + 1 \in Nat
    OBVIOUS
  <2>7. \E g2 \in [SUBSET S -> Int] : AddsTo(g2, n + 1)
    BY <2>4, <2>5
  <2> QED BY <2>6, <2>7
<1>3. P = Nat
  <2> HIDE DEF P
  <2>1. P \in SUBSET Nat
    BY DEF P
  <2> QED BY <1>1, <1>2, <2>1, AllNumbers
<1>4. Cardinality(S) \in P
  BY <1>3, FS_CardinalityType
<1>5. PICK g \in [SUBSET S -> Int] : AddsTo(g, Cardinality(S))
  BY <1>4
<1>6. \A s \in SUBSET S : Cardinality(s) <= Cardinality(S)
  BY FS_Subset
<1> QED BY <1>5, <1>6 DEF Adds

\* If one element has d more, every set with it has.
LEMMA SumsDiffer ==
  ASSUME NEW S, IsFiniteSet(S), NEW f, NEW more, NEW x \in S, NEW d \in Int,
         \A y \in S : f[y] \in Int /\ more[y] = f[y] + (IF x = y THEN d ELSE 0),
         NEW g, Adds(g, f, S), NEW h, Adds(h, more, S)
  PROVE  \A s \in SUBSET S : g[s] \in Int /\ h[s] = g[s] + (IF x \in s THEN d ELSE 0)
<1> DEFINE Differ(s) == g[s] \in Int /\ h[s] = g[s] + (IF x \in s THEN d ELSE 0)
           P == {n \in Nat : \A s \in SUBSET S : Cardinality(s) <= n => Differ(s)}
<1>1. Differ({})
  <2>1. g[{}] = 0 /\ h[{}] = 0
    BY DEF Adds
  <2> QED BY <2>1
<1>2. 0 \in P
  <2> SUFFICES ASSUME NEW s \in SUBSET S, Cardinality(s) <= 0, s # {} PROVE FALSE
    BY <1>1
  <2>1. PICK y \in s : TRUE
    OBVIOUS
  <2>2. Cardinality(s) > 0 /\ Cardinality(s) \in Nat
    BY <2>1, Smaller
  <2> QED BY <2>2
<1>3. ASSUME NEW n \in P PROVE n + 1 \in P
  <2>1. ASSUME NEW s \in SUBSET S, Cardinality(s) <= n + 1, s # {}
        PROVE  Differ(s)
    <3>1. PICK y \in s : y = Pick(s)
      BY <2>1 DEF Pick
    <3>2. PICK rest : rest = s \ {y}
      OBVIOUS
    <3>3. rest \in SUBSET S /\ Cardinality(rest) <= n
      BY <2>1, <3>2, Smaller
    <3>4. Differ(rest)
      BY <3>3
    <3>5. g[s] = f[y] + g[rest] /\ h[s] = more[y] + h[rest]
      BY <2>1, <3>1, <3>2 DEF Adds
    <3>6. more[y] = f[y] + (IF x = y THEN d ELSE 0) /\ f[y] \in Int
      BY <3>1
    <3>7. (x \in s <=> x = y \/ x \in rest) /\ ~(x = y /\ x \in rest)
      BY <3>1, <3>2
    <3> QED BY <3>4, <3>5, <3>6, <3>7
  <2>2. ASSUME NEW s \in SUBSET S, Cardinality(s) <= n + 1
        PROVE  Differ(s)
    <3> HIDE DEF Differ
    <3> QED BY <1>1, <2>1, <2>2
  <2>3. n + 1 \in Nat
    OBVIOUS
  <2> HIDE DEF Differ
  <2> QED BY <2>2, <2>3
<1>4. P = Nat
  <2> HIDE DEF P
  <2>1. P \in SUBSET Nat
    BY DEF P
  <2> QED BY <1>2, <1>3, <2>1, AllNumbers
<1>5. ASSUME NEW s \in SUBSET S PROVE Differ(s)
  <2>1. IsFiniteSet(s) /\ Cardinality(s) \in Nat
    BY FS_Subset, FS_CardinalityType
  <2> HIDE DEF Differ
  <2> QED BY <1>4, <2>1
<1> QED BY <1>5

\* There are finitely many states to sum the seconds of.
LEMMA FinitelyManyStates == IsFiniteSet(StatesOfRows)
<1>1. IsFiniteSet(States)
  BY StateHistoryAssumption, FS_Interval DEF States
<1> QED BY <1>1, FS_AddElement DEF StatesOfRows

\* What FoldFunction adds up.
LEMMA TotalIsSum ==
  ASSUME NEW f \in Seconds
  PROVE  \E g : Adds(g, f, StatesOfRows) /\ Total(f) = g[StatesOfRows]
<1> DEFINE Step(g) == [s \in SUBSET StatesOfRows |->
                          IF s = {} THEN 0 ELSE f[Pick(s)] + g[s \ {Pick(s)}]]
           iter == CHOOSE g : g = Step(g)
<1>1. PICK g \in [SUBSET StatesOfRows -> Int] : Adds(g, f, StatesOfRows)
  <2>1. \A x \in StatesOfRows : f[x] \in Int
    BY DEF Seconds
  <2> QED BY <2>1, FinitelyManyStates, SumsExist
<1>2. g = Step(g)
  BY <1>1 DEF Adds
<1>3. iter = Step(iter)
  BY <1>2
<1>4. DOMAIN f = StatesOfRows
  BY DEF Seconds
<1>5. Total(f) = iter[StatesOfRows]
  BY <1>4 DEF Total, FoldFunction, FoldFunctionOnSet, MapThenFoldSet, Pick
<1> HIDE DEF iter
<1>6. Adds(iter, f, StatesOfRows)
  BY <1>3 DEF Adds
<1> QED BY <1>5, <1>6

\* So many seconds more in one state are as many more in total.
LEMMA TotalOfPlus ==
  ASSUME NEW f \in Seconds, NEW x \in StatesOfRows, NEW d \in Int
  PROVE  /\ Plus(f, x, d) \in Seconds
         /\ Total(f) \in Int
         /\ Total(Plus(f, x, d)) = Total(f) + d
<1>1. PICK more : more = Plus(f, x, d)
  OBVIOUS
<1>2. /\ more \in Seconds
      /\ \A y \in StatesOfRows :
             f[y] \in Int /\ more[y] = f[y] + (IF x = y THEN d ELSE 0)
  BY <1>1 DEF Plus, Seconds
<1>3. PICK g : Adds(g, f, StatesOfRows) /\ Total(f) = g[StatesOfRows]
  BY TotalIsSum
<1>4. PICK h : Adds(h, more, StatesOfRows) /\ Total(more) = h[StatesOfRows]
  BY <1>2, TotalIsSum
<1>5. \A s \in SUBSET StatesOfRows :
          g[s] \in Int /\ h[s] = g[s] + (IF x \in s THEN d ELSE 0)
  BY <1>2, <1>3, <1>4, FinitelyManyStates, SumsDiffer
<1> QED BY <1>1, <1>2, <1>3, <1>4, <1>5

\* No seconds at all.
LEMMA TotalOfNoSeconds == NoSeconds \in Seconds /\ Total(NoSeconds) = 0
<1>1. NoSeconds \in Seconds /\ \A x \in StatesOfRows : NoSeconds[x] = 0
  BY DEF NoSeconds, Seconds, StatesOfRows
<1>2. PICK h : Adds(h, NoSeconds, StatesOfRows) /\ Total(NoSeconds) = h[StatesOfRows]
  BY <1>1, TotalIsSum
<1>3. PICK g : g = [s \in SUBSET StatesOfRows |-> 0]
  OBVIOUS
<1>4. Adds(g, NoSeconds, StatesOfRows)
  <2> SUFFICES ASSUME NEW s \in SUBSET StatesOfRows, s # {}
               PROVE  0 = NoSeconds[Pick(s)] + 0
    BY <1>3 DEF Adds
  <2>1. Pick(s) \in s
    BY DEF Pick
  <2> QED BY <1>1, <2>1
<1>5. PICK x \in StatesOfRows : TRUE
  BY DEF StatesOfRows
<1>6. \A y \in StatesOfRows :
          /\ NoSeconds[y] \in Int
          /\ NoSeconds[y] = NoSeconds[y] + (IF x = y THEN 0 ELSE 0)
  BY <1>1
<1>7. \A s \in SUBSET StatesOfRows :
          g[s] \in Int /\ h[s] = g[s] + (IF x \in s THEN 0 ELSE 0)
  BY <1>2, <1>4, <1>6, FinitelyManyStates, SumsDiffer
<1> QED BY <1>1, <1>2, <1>3, <1>7

(***************************************************************************)
(* Seconds are added in any order, and at once or one after the other.     *)
(***************************************************************************)
LEMMA PlusIs ==
  ASSUME NEW f \in Seconds, NEW x \in StatesOfRows, NEW d \in Int
  PROVE  /\ Plus(f, x, d) \in Seconds
         /\ Plus(f, x, d) = [y \in StatesOfRows |-> IF y = x THEN f[y] + d ELSE f[y]]
<1>1. PICK n \in Int : n = f[x] + d
  BY DEF Seconds
<1>2. Plus(f, x, d) = [f EXCEPT ![x] = n]
  BY <1>1 DEF Plus
<1>3. [f EXCEPT ![x] = n] = [y \in StatesOfRows |-> IF y = x THEN n ELSE f[y]]
  BY DEF Seconds
<1>4. [f EXCEPT ![x] = n] \in Seconds
  BY DEF Seconds
<1>5. \A y \in StatesOfRows :
          (IF y = x THEN n ELSE f[y]) = (IF y = x THEN f[y] + d ELSE f[y])
  BY <1>1
<1> QED BY <1>2, <1>3, <1>4, <1>5

\* To add no seconds changes nothing.
LEMMA PlusNothing ==
  ASSUME NEW f \in Seconds, NEW x \in StatesOfRows
  PROVE  Plus(f, x, 0) = f
<1>1. Plus(f, x, 0) = [y \in StatesOfRows |-> IF y = x THEN f[y] + 0 ELSE f[y]]
  BY PlusIs
<1> QED BY <1>1 DEF Seconds

\* Seconds added to a state one after the other are added at once.
LEMMA PlusTwice ==
  ASSUME NEW f \in Seconds, NEW x \in StatesOfRows, NEW a \in Int, NEW b \in Int,
         NEW c \in Int, c = a + b
  PROVE  Plus(Plus(f, x, a), x, b) = Plus(f, x, c)
<1>1. PICK g \in Seconds : g = Plus(f, x, a)
  BY PlusIs
<1>2. g = [y \in StatesOfRows |-> IF y = x THEN f[y] + a ELSE f[y]]
  BY <1>1, PlusIs
<1>3. Plus(g, x, b) = [y \in StatesOfRows |-> IF y = x THEN g[y] + b ELSE g[y]]
  BY PlusIs
<1>4. Plus(f, x, c) = [y \in StatesOfRows |-> IF y = x THEN f[y] + c ELSE f[y]]
  BY PlusIs
<1>5. \A y \in StatesOfRows :
          (IF y = x THEN g[y] + b ELSE g[y]) = (IF y = x THEN f[y] + c ELSE f[y])
  BY <1>2 DEF Seconds
<1>6. Plus(g, x, b) = Plus(f, x, c)
  BY <1>3, <1>4, <1>5
<1> QED BY <1>1, <1>6

(***************************************************************************)
(* More in each state.                                                     *)
(***************************************************************************)

\* Whoever has as much in every state has at least as much.
LEMMA MatchesAtLeast ==
  ASSUME NEW f \in Seconds, NEW g \in Seconds, NEW excepted, Matches(f, g, excepted)
  PROVE  AtLeast(f, g)
<1>1. \A x \in StatesOfRows : f[x] \in Int
  BY DEF Seconds
<1> QED BY <1>1 DEF Matches, AtLeast

\* At least as much is enough for what is excepted.
LEMMA MatchesExcepted ==
  ASSUME NEW f \in Seconds, NEW g \in Seconds, NEW excepted, AtLeast(f, g), excepted
  PROVE  Matches(f, g, excepted)
  BY DEF Matches

\* What is at least what is at least g.
LEMMA AtLeastTwice ==
  ASSUME NEW f \in Seconds, NEW g \in Seconds, NEW h \in Seconds,
         AtLeast(f, g), AtLeast(g, h)
  PROVE  AtLeast(f, h)
<1>1. \A x \in StatesOfRows : f[x] \in Int /\ g[x] \in Int /\ h[x] \in Int
  BY DEF Seconds
<1> QED BY <1>1 DEF AtLeast

\* Some more seconds are at least as many.
LEMMA PlusAtLeast ==
  ASSUME NEW f \in Seconds, NEW g \in Seconds, AtLeast(f, g),
         NEW x \in StatesOfRows, NEW a \in Int, NEW b \in Int, a >= b
  PROVE  AtLeast(Plus(f, x, a), Plus(g, x, b))
<1>1. Plus(f, x, a) = [y \in StatesOfRows |-> IF y = x THEN f[y] + a ELSE f[y]]
      /\ Plus(g, x, b) = [y \in StatesOfRows |-> IF y = x THEN g[y] + b ELSE g[y]]
  BY PlusIs
<1>2. \A y \in StatesOfRows : f[y] \in Int /\ g[y] \in Int /\ f[y] >= g[y]
  BY DEF Seconds, AtLeast
<1>3. \A y \in StatesOfRows :
          (IF y = x THEN f[y] + a ELSE f[y]) >= (IF y = x THEN g[y] + b ELSE g[y])
  BY <1>2
<1> QED BY <1>1, <1>3 DEF AtLeast

\* Every function is at least itself.
LEMMA AtLeastItself ==
  ASSUME NEW f \in Seconds
  PROVE  AtLeast(f, f)
<1>1. \A x \in StatesOfRows : f[x] \in Int
  BY DEF Seconds
<1> QED BY <1>1 DEF AtLeast

\* The same seconds more on both sides, for what is excepted as before.
LEMMA MatchesPlus ==
  ASSUME NEW f \in Seconds, NEW g \in Seconds, NEW x \in StatesOfRows, NEW d \in Int,
         NEW excepted, Matches(f, g, excepted)
  PROVE  Matches(Plus(f, x, d), Plus(g, x, d), excepted)
<1>1. CASE excepted
  <2>1. AtLeast(f, g)
    BY <1>1 DEF Matches
  <2>2. AtLeast(Plus(f, x, d), Plus(g, x, d))
    BY <2>1, PlusAtLeast
  <2> QED BY <1>1, <2>2 DEF Matches
<1>2. CASE ~excepted
  BY <1>2 DEF Matches
<1> QED BY <1>1, <1>2

(***************************************************************************)
(* What is written.                                                        *)
(***************************************************************************)

\* What of a record the rows are made of.
RowTyped(r) ==
    /\ r.spent \in Seconds
    /\ r.state \in StatesOfRows
    /\ r.from \in Int /\ r.lastKnown \in Int
    /\ r.mayNoLongerExist \in BOOLEAN /\ r.hasVanished \in BOOLEAN
    /\ r.hasVanished => r.mayNoLongerExist

\* A record has the types that its rows need.
LEMMA RecordsAreTyped ==
  ASSUME NEW o, NEW r \in HostServiceState(o), r.hasVanished => r.mayNoLongerExist
  PROVE  RowTyped(r)
<1>1. r.from \in Int /\ r.lastKnown \in Int
  BY StateHistoryAssumption DEF HostServiceState
<1> QED BY <1>1 DEF HostServiceState, RowTyped, Seconds, StatesOfRows

\* As time passes, an object that keeps its state gets more of it.
LEMMA PresentLater ==
  ASSUME NEW r, RowTyped(r), NEW t \in Int, NEW d \in Int, NEW u \in Int, u = t + d
  PROVE  /\ Present(r, t) \in Seconds /\ Present(r, u) \in Seconds
         /\ Present(r, u) = Plus(Present(r, t), r.state, d)
<1>1. PICK spent \in Seconds, state \in StatesOfRows, from \in Int :
          spent = r.spent /\ state = r.state /\ from = r.from
  BY DEF RowTyped
<1>2. PICK a \in Int, b \in Int : a = t - from /\ b = u - from
  OBVIOUS
<1>3. b = a + d
  BY <1>2
<1>4. Present(r, t) = Plus(spent, state, a) /\ Present(r, u) = Plus(spent, state, b)
  BY <1>1, <1>2 DEF Present
<1> QED BY <1>1, <1>3, <1>4, PlusIs, PlusTwice

\* The same from one time to any other.
LEMMA PresentSince ==
  ASSUME NEW r, RowTyped(r), NEW t \in Int, NEW u \in Int
  PROVE  /\ Present(r, t) \in Seconds
         /\ Present(r, u) = Plus(Present(r, t), r.state, u - t)
<1>1. PICK d \in Int : d = u - t
  OBVIOUS
<1>2. u = t + d
  BY <1>1
<1> QED BY <1>1, <1>2, PresentLater

\* What an object that is unmonitored has of other states.
LastSeen(r) == IF Refused(r.lastKnown) THEN r.spent ELSE Present(r, r.lastKnown)

\* As time passes, an object that is not there is unmonitored for longer.
LEMMA AbsentLater ==
  ASSUME NEW r, RowTyped(r), NEW t \in Int, NEW d \in Int, NEW u \in Int, u = t + d
  PROVE  /\ LastSeen(r) \in Seconds
         /\ Absent(r, t) \in Seconds /\ Absent(r, u) \in Seconds
         /\ Absent(r, t) = Plus(LastSeen(r), Unmonitored, t - r.lastKnown)
         /\ Absent(r, u) = Plus(Absent(r, t), Unmonitored, d)
<1>1. PICK known \in Int : known = r.lastKnown
  BY DEF RowTyped
<1>2. PICK seen \in Seconds : seen = LastSeen(r)
  <2>1. r.spent \in Seconds
    BY DEF RowTyped
  <2>2. Present(r, known) \in Seconds
    <3>1. known = known + 0
      OBVIOUS
    <3> QED BY <3>1, PresentLater
  <2> QED BY <1>1, <2>1, <2>2 DEF LastSeen
<1>3. PICK a \in Int, b \in Int : a = t - known /\ b = u - known
  OBVIOUS
<1>4. b = a + d
  BY <1>3
<1>5. Absent(r, t) = Plus(seen, Unmonitored, a)
      /\ Absent(r, u) = Plus(seen, Unmonitored, b)
  BY <1>1, <1>2, <1>3 DEF Absent, LastSeen
<1>6. Unmonitored \in StatesOfRows
  BY DEF StatesOfRows
<1>7. Plus(seen, Unmonitored, a) \in Seconds /\ Plus(seen, Unmonitored, b) \in Seconds
  BY <1>6, PlusIs
<1>8. Plus(seen, Unmonitored, b) = Plus(Plus(seen, Unmonitored, a), Unmonitored, d)
  BY <1>4, <1>6, PlusTwice
<1>9. Absent(r, t) = Plus(LastSeen(r), Unmonitored, t - r.lastKnown)
  BY <1>1, <1>2, <1>3, <1>5
<1> QED BY <1>2, <1>5, <1>7, <1>8, <1>9

\* The same from when it was last known.
LEMMA AbsentSince ==
  ASSUME NEW r, RowTyped(r), NEW t \in Int
  PROVE  Absent(r, t) \in Seconds
<1>1. t = t + 0
  OBVIOUS
<1> QED BY <1>1, AbsentLater

\* As time passes more becomes due, of the state or of none.
LEMMA DueLater ==
  ASSUME NEW r, RowTyped(r), NEW t \in Int, NEW d \in Int, NEW u \in Int, u = t + d
  PROVE  /\ Due(r, t) \in Seconds
         /\ Due(r, u) = Plus(Due(r, t),
                             IF r.hasVanished THEN Unmonitored ELSE r.state, d)
<1>1. Present(r, t) \in Seconds /\ Present(r, u) = Plus(Present(r, t), r.state, d)
  BY PresentLater
<1>2. Absent(r, t) \in Seconds /\ Absent(r, u) = Plus(Absent(r, t), Unmonitored, d)
  BY AbsentLater
<1>3. CASE r.hasVanished
  BY <1>2, <1>3 DEF Due
<1>4. CASE ~r.hasVanished
  BY <1>1, <1>4 DEF Due
<1> QED BY <1>3, <1>4

\* An object whose rows already say that it is unmonitored gets what it gets in
\* any case, and the seconds before the frame on top.
LEMMA AbsentUnmonitored ==
  ASSUME NEW r, RowTyped(r), NEW t \in Int, r.state = Unmonitored, since \in Int,
         Refused(r.lastKnown) => r.from >= since
  PROVE  Matches(Absent(r, t), Present(r, t), Refused(r.lastKnown))
<1>1. PICK spent \in Seconds, known \in Int, from \in Int :
          spent = r.spent /\ known = r.lastKnown /\ from = r.from
  BY DEF RowTyped
<1>2. Unmonitored \in StatesOfRows
  BY DEF StatesOfRows
<1>3. PICK a \in Int, b \in Int : a = t - known /\ b = t - from
  OBVIOUS
<1>4. CASE Refused(known)
  <2>1. Absent(r, t) = Plus(spent, Unmonitored, a)
        /\ Present(r, t) = Plus(spent, Unmonitored, b)
    BY <1>1, <1>3, <1>4 DEF Absent, Present
  <2>2. a >= b
    BY <1>1, <1>3, <1>4 DEF Refused
  <2> QED BY <1>1, <1>2, <1>4, <2>1, <2>2, AtLeastItself, PlusAtLeast DEF Matches
<1>5. CASE ~Refused(known)
  <2>1. Absent(r, t) = Plus(Present(r, known), Unmonitored, a)
    BY <1>1, <1>3, <1>5 DEF Absent
  <2>2. Present(r, t) = Plus(Present(r, known), Unmonitored, a)
    <3>1. PICK c \in Int : c = known - from
      OBVIOUS
    <3>2. b = c + a
      BY <1>3, <3>1
    <3>3. Present(r, known) = Plus(spent, Unmonitored, c)
          /\ Present(r, t) = Plus(spent, Unmonitored, b)
      BY <1>1, <1>3, <3>1 DEF Present
    <3> QED BY <1>2, <3>2, <3>3, PlusTwice
  <2> QED BY <1>1, <1>5, <2>1, <2>2 DEF Matches
<1> QED BY <1>1, <1>4, <1>5

\* q has one row more than r, until then, unless rows are not written yet or it
\* is refused.
Written(q, r, until, only) ==
    IF only THEN q.spent = r.spent /\ q.from = r.from
    ELSE /\ q.spent = IF Refused(until) THEN r.spent ELSE Present(r, until)
         /\ q.from = until

\* Nothing is written.
Kept(q, r) == q.spent = r.spent /\ q.from = r.from /\ q.state = r.state

\* To process a record writes its rows up to a time, and nothing else.
LEMMA ProcessWrites ==
  ASSUME NEW o, NEW r \in HostServiceState(o), NEW until \in 0 .. MaxTime,
         NEW only \in BOOLEAN
  PROVE  /\ Written(Process(r, until, only), r, until, only)
         /\ Process(r, until, only).lastKnown = r.lastKnown
<1>1. CASE only
  BY <1>1 DEF Process, Written
<1>2. CASE ~only
  <2>1. r.spent \in Seconds /\ r.state \in StatesOfRows
        /\ r.from \in Int /\ until \in Int /\ until - r.from \in Int
    BY StateHistoryAssumption DEF HostServiceState, Seconds, StatesOfRows
  <2>2. r.spent[r.state] \in Int
    BY <2>1 DEF Seconds
  <2>3. r.spent[r.state] + until - r.from = r.spent[r.state] + (until - r.from)
    BY <2>1, <2>2
  <2>4. PICK spent :
            spent = [r.spent EXCEPT ![r.state] =
                        IF Refused(until) THEN @ ELSE @ + until - r.from]
    OBVIOUS
  <2>5. spent = IF Refused(until) THEN r.spent ELSE Present(r, until)
    <3>1. CASE Refused(until)
      BY <2>1, <2>4, <3>1 DEF Seconds
    <3>2. CASE ~Refused(until)
      <4>1. spent = [r.spent EXCEPT ![r.state] = r.spent[r.state] + until - r.from]
        BY <2>4, <3>2
      <4> QED BY <2>3, <3>2, <4>1 DEF Present, Plus
    <3> QED BY <3>1, <3>2
  <2>6. Process(r, until, only) = [r EXCEPT !.spent = spent, !.from = until]
    BY <1>2, <2>4 DEF Process
  <2> HIDE DEF HostServiceState
  <2>7. Process(r, until, only).spent = spent /\ Process(r, until, only).from = until
        /\ Process(r, until, only).lastKnown = r.lastKnown
    BY <2>6 DEF HostServiceState
  <2> QED BY <1>2, <2>5, <2>7 DEF Written
<1> QED BY <1>1, <1>2

\* The record of an object that is back.
LEMMA ReviveWrites ==
  ASSUME TypeOK, NEW o \in Objects, NEW r \in HostServiceState(o),
         NEW only \in BOOLEAN
  PROVE  LET back == Revive(o, r, only)
         IN /\ ~r.hasVanished => back = r
            /\ r.hasVanished => /\ Written(back, r, r.lastKnown, only)
                                /\ back.state = Unmonitored
<1>1. CASE ~r.hasVanished
  BY <1>1 DEF Revive
<1>2. CASE r.hasVanished
  <2>1. r.lastKnown \in 0 .. MaxTime
    BY DEF HostServiceState
  <2>2. PICK q : q = Process(r, r.lastKnown, only)
    OBVIOUS
  <2>3. q \in HostServiceState(o) /\ Written(q, r, r.lastKnown, only)
    BY <2>1, <2>2, ProcessSound, ProcessWrites
  <2>4. Revive(o, r, only) =
            [q EXCEPT !.mayNoLongerExist = FALSE, !.hasVanished = FALSE,
                      !.state = Unmonitored, !.inDowntime = 0, !.flapping = 0,
                      !.inPeriod = PeriodsNow(o)]
    BY <1>2, <2>2 DEF Revive
  <2>5. /\ Revive(o, r, only).spent = q.spent
        /\ Revive(o, r, only).from = q.from
        /\ Revive(o, r, only).state = Unmonitored
    BY <2>3, <2>4 DEF HostServiceState
  <2> QED BY <1>2, <2>3, <2>5 DEF Written
<1> QED BY <1>1, <1>2

\* The entry reports the state of o itself, not that of its host.
TellsState(o, e) ==
    e.kind \in {"alert", "initial"} /\ (e.object \in Hosts => o \in Hosts)

\* An entry of o or its host writes a row if it changes something.
LEMMA UpdateWrites ==
  ASSUME TypeOK, NEW o \in Objects, NEW r \in HostServiceState(o),
         r.inPeriod = PeriodsNow(o), NEW only \in BOOLEAN,
         NEW e \in Entries, e.kind \in Kinds, e.object \in Objects
  PROVE  LET q == Update(o, r, e, only)
             back == Revive(o, r, only)
         IN /\ Kept(q, back)
               \/ Written(q, back, e.time, only)
            /\ q.state = IF TellsState(o, e) THEN e.value ELSE back.state
            /\ ~q.mayNoLongerExist
<1>1. PICK revived \in HostServiceState(o) :
          revived = Revive(o, r, only)
  BY ReviveSound
<1>2. PICK back : back = [revived EXCEPT !.mayNoLongerExist = FALSE]
  OBVIOUS
<1>3. /\ back \in HostServiceState(o)
      /\ Kept(back, revived) /\ ~back.mayNoLongerExist
  BY <1>2 DEF HostServiceState, Kept
<1>4. e.time \in 0 .. MaxTime
  BY DEF Entries
<1>5. PICK row : row = Process(back, e.time, only)
  OBVIOUS
<1>6. /\ row \in HostServiceState(o)
      /\ Written(row, back, e.time, only)
      /\ row.state = back.state /\ ~row.mayNoLongerExist
  BY <1>3, <1>4, <1>5, ProcessSound, ProcessWrites DEF SameFlags
<1>7. Written(row, revived, e.time, only) /\ row.state = revived.state
  BY <1>3, <1>6 DEF Written, Kept, Present
<1>8. PICK q : q = Update(o, r, e, only)
  OBVIOUS
<1> DEFINE Says == IF TellsState(o, e) THEN e.value ELSE revived.state
<1>9. \/ q = back /\ back.state = Says
      \/ /\ q.spent = row.spent /\ q.from = row.from
         /\ q.state = Says /\ ~q.mayNoLongerExist
  <2>1. CASE e.kind = "flapping"
    <3>1. q = IF back.flapping = e.value THEN back
              ELSE [row EXCEPT !.flapping = e.value]
      BY <1>1, <1>2, <1>5, <1>8, <2>1 DEF Update, Flapping
    <3> QED BY <1>3, <1>6, <1>7, <2>1, <3>1
            DEF HostServiceState, TellsState, Kept
  <2>2. CASE e.kind = "downtime" /\ e.object \in Hosts
    <3>0. PICK inDowntime :
              inDowntime = IF o \in Hosts THEN e.value ELSE row.inDowntime
      OBVIOUS
    <3>1. q = IF back.inHostDowntime = e.value THEN back
              ELSE [row EXCEPT !.inHostDowntime = e.value, !.inDowntime = inDowntime]
      BY <1>1, <1>2, <1>5, <1>8, <2>2, <3>0 DEF Update, HostDowntime
    <3> QED BY <1>3, <1>6, <1>7, <2>2, <3>1
            DEF HostServiceState, TellsState, Kept
  <2>3. CASE e.kind = "downtime" /\ e.object \notin Hosts
    <3>1. q = IF back.inDowntime = e.value THEN back
              ELSE [row EXCEPT !.inDowntime = e.value]
      BY <1>1, <1>2, <1>5, <1>8, <2>3 DEF Update, ServiceDowntime
    <3> QED BY <1>3, <1>6, <1>7, <2>3, <3>1
            DEF HostServiceState, TellsState, Kept
  <2>4. CASE e.kind \in {"alert", "initial"} /\ e.object \in Hosts
    <3>1. PICK down : down = (e.value > 0)
      OBVIOUS
    <3>2. q = IF o \in Hosts
              THEN IF back.state = e.value THEN back
                   ELSE [row EXCEPT !.state = e.value, !.hostDown = down]
              ELSE IF back.hostDown = down THEN back
                   ELSE [row EXCEPT !.hostDown = down]
      BY <1>1, <1>2, <1>5, <1>8, <2>4, <3>1 DEF Update, HostState
    <3>3. Says = IF o \in Hosts THEN e.value ELSE revived.state
      BY <2>4 DEF TellsState
    <3> HIDE DEF Says
    <3>4. CASE o \in Hosts /\ back.state # e.value
      <4>1. q = [row EXCEPT !.state = e.value, !.hostDown = down]
        BY <3>2, <3>4
      <4> QED BY <1>6, <3>3, <3>4, <4>1 DEF HostServiceState
    <3>5. CASE o \notin Hosts /\ back.hostDown # down
      <4>1. q = [row EXCEPT !.hostDown = down]
        BY <3>2, <3>5
      <4> QED BY <1>6, <1>7, <3>3, <3>5, <4>1 DEF HostServiceState
    <3> QED BY <1>3, <3>2, <3>3, <3>4, <3>5 DEF Kept
  <2>5. CASE e.kind \in {"alert", "initial"} /\ e.object \notin Hosts
    <3>1. q = IF back.state = e.value THEN back
              ELSE [row EXCEPT !.state = e.value]
      BY <1>1, <1>2, <1>5, <1>8, <2>5 DEF Update, ServiceState
    <3> QED BY <1>3, <1>6, <1>7, <2>5, <3>1
            DEF HostServiceState, TellsState, Kept
  <2> QED BY <2>1, <2>2, <2>3, <2>4, <2>5 DEF Kinds
<1>10. Kept(q, revived) \/ Written(q, revived, e.time, only)
  BY <1>3, <1>7, <1>9 DEF Kept, Written
<1>11. q.state = Says /\ ~q.mayNoLongerExist
  BY <1>3, <1>9
<1> QED BY <1>1, <1>8, <1>10, <1>11

\* A transition of a period of o writes a row and leaves the state alone.
LEMMA TransitionWrites ==
  ASSUME NEW o \in Objects, NEW r \in HostServiceState(o),
         NEW only \in BOOLEAN, NEW e, e.time \in 0 .. MaxTime
  PROVE  LET q == Transition(o, r, e, only)
         IN \/ q = r
            \/ /\ Written(q, r, e.time, only)
               /\ q.lastKnown = r.lastKnown /\ q.state = r.state
               /\ q.mayNoLongerExist = r.mayNoLongerExist
               /\ q.hasVanished = r.hasVanished
<1>1. PICK row : row = Process(r, e.time, only)
  OBVIOUS
<1>2. /\ row \in HostServiceState(o) /\ SameFlags(row, r)
      /\ Written(row, r, e.time, only) /\ row.lastKnown = r.lastKnown
  BY <1>1, ProcessSound, ProcessWrites
<1>3. \/ Transition(o, r, e, only) = r
      \/ Transition(o, r, e, only) = [row EXCEPT !.inPeriod[e.object] = e.value]
  BY <1>1 DEF Transition
<1>4. PICK inPeriod : inPeriod = [row.inPeriod EXCEPT ![e.object] = e.value]
  OBVIOUS
<1>5. CASE Transition(o, r, e, only) = [row EXCEPT !.inPeriod = inPeriod]
  BY <1>2, <1>5 DEF HostServiceState, SameFlags, Written
<1> QED BY <1>3, <1>4, <1>5

(***************************************************************************)
(* What rows and records add up to.                                        *)
(***************************************************************************)

\* What has been written keeps its types.
LEMMA WrittenTyped ==
  ASSUME NEW r, RowTyped(r), NEW until \in Int, NEW only \in BOOLEAN,
         NEW q, Written(q, r, until, only)
  PROVE  q.spent \in Seconds /\ q.from \in Int
<1>1. Present(r, until) \in Seconds
  <2>1. until = until + 0
    OBVIOUS
  <2> QED BY <2>1, PresentLater
<1> QED BY <1>1 DEF Written, RowTyped

\* The rows of an object still lie one behind the other after a further one,
\* unless it is refused and takes seconds of the frame with it.
LEMMA WrittenLaid ==
  ASSUME NEW r, RowTyped(r), NEW until \in Int, NEW only \in BOOLEAN,
         NEW q, Written(q, r, until, only), NEW t \in Int, since \in Int,
         Total(r.spent) >= r.from - since, r.from <= t,
         ~only => until <= t /\ (Refused(until) => r.from >= since)
  PROVE  Total(q.spent) >= q.from - since /\ q.from <= t
<1>1. PICK spent \in Seconds, state \in StatesOfRows, from \in Int :
          spent = r.spent /\ state = r.state /\ from = r.from
  BY DEF RowTyped
<1>2. PICK d \in Int : d = until - from
  OBVIOUS
<1>3. Total(Plus(spent, state, d)) = Total(spent) + d /\ Total(spent) \in Int
  BY TotalOfPlus
<1>4. Present(r, until) = Plus(spent, state, d)
  BY <1>1, <1>2 DEF Present
<1>5. CASE only
  BY <1>5 DEF Written
<1>6. CASE ~only /\ Refused(until)
  <2>1. q.spent = spent /\ q.from = until
    BY <1>1, <1>6 DEF Written
  <2>2. from >= since /\ until < since
    BY <1>1, <1>6 DEF Refused
  <2> QED BY <1>1, <1>3, <1>6, <2>1, <2>2
<1>7. CASE ~only /\ ~Refused(until)
  <2>1. q.spent = Plus(spent, state, d) /\ q.from = until
    BY <1>4, <1>7 DEF Written
  <2> QED BY <1>1, <1>2, <1>3, <1>7, <2>1
<1> QED BY <1>5, <1>6, <1>7

\* A row more does not change what an object gets that keeps its state.
LEMMA WrittenPresent ==
  ASSUME NEW r, RowTyped(r), NEW until \in Int, NEW t \in Int,
         NEW q, Written(q, r, until, FALSE), ~Refused(until), q.state = r.state
  PROVE  Present(q, t) = Present(r, t)
<1>1. PICK d \in Int : d = t - until
  OBVIOUS
<1>2. t = until + d
  BY <1>1
<1>3. Present(r, t) = Plus(Present(r, until), r.state, d)
  BY <1>2, PresentLater
<1> QED BY <1>1, <1>3 DEF Written, Present

(***************************************************************************)
(* What is meant, as time passes.                                          *)
(***************************************************************************)

\* The seconds of the time frame from the last entry until time.
Elapsed(time) == IF time < since THEN 0 ELSE time - Clock

\* m after d more seconds.
Later(n, m, d) ==
    /\ n.is = m.is /\ n.doubtful = m.doubtful /\ n.early = m.early
    /\ n.restart = m.restart
    /\ n.pending = IF m.doubtful THEN m.pending + d ELSE m.pending
    /\ n.counted = IF m.doubtful THEN m.counted ELSE Plus(m.counted, m.is, d)

\* The observer is as much later as time has passed.
LEMMA AgedIsLater ==
  ASSUME NEW m \in Meant, NEW time \in Int, NEW d \in Int, d = Elapsed(time)
  PROVE  /\ Aged(m, time) \in Meant
         /\ Later(Aged(m, time), m, d) /\ Aged(m, time).gone = m.gone
<1>1. /\ m.is \in StatesOfRows /\ m.counted \in Seconds /\ m.pending \in Int
      /\ m.counted[m.is] \in Int
  BY DEF Meant, Seconds
<1>2. CASE m.doubtful
  <2>1. Aged(m, time) = [m EXCEPT !.pending = @ + d]
    BY <1>2 DEF Aged, Elapsed, Clock
  <2>2. PICK p \in Int : p = m.pending + d
    BY <1>1
  <2>3. Aged(m, time) = [m EXCEPT !.pending = p]
    BY <2>1, <2>2
  <2> QED BY <1>2, <2>2, <2>3 DEF Meant, Later
<1>3. CASE ~m.doubtful
  <2>1. Aged(m, time) = [m EXCEPT !.counted[m.is] = @ + d]
    BY <1>3 DEF Aged, Elapsed, Clock
  <2>2. PICK c \in Seconds : c = Plus(m.counted, m.is, d)
    BY <1>1, PlusIs
  <2>3. Aged(m, time) = [m EXCEPT !.counted = c]
    BY <2>1, <2>2 DEF Plus
  <2> HIDE DEF Seconds
  <2> QED BY <1>3, <2>2, <2>3 DEF Meant, Later
<1> QED BY <1>2, <1>3

\* All seconds that have passed are meant for something.
LEMMA CompleteLater ==
  ASSUME NEW m \in Meant, NEW n, NEW d \in Int, Later(n, m, d), NEW t \in Int,
         NEW u \in Int, u = t + d, since \in Int, Complete(m, t)
  PROVE  Complete(n, u)
<1>1. PICK counted \in Seconds, is \in StatesOfRows, pending \in Int :
          counted = m.counted /\ is = m.is /\ pending = m.pending
  BY DEF Meant
<1>2. Total(Plus(counted, is, d)) = Total(counted) + d /\ Total(counted) \in Int
  BY TotalOfPlus
<1>3. m.doubtful \in BOOLEAN
  BY DEF Meant
<1> QED BY <1>1, <1>2, <1>3 DEF Complete, Later

\* An object is unmonitored at once when it turns out to be missing: it gets no
\* less than is meant, and no more unless it was missing before the frame.
LEMMA AbsentWhenGone ==
  ASSUME NEW r, RowTyped(r), NEW m \in Meant, NEW u \in Int, since \in Int,
         Refused(r.lastKnown) => r.from >= since, m.restart = r.lastKnown,
         Matches(Present(r, Begin(r)), m.counted, m.early)
  PROVE  Matches(Absent(r, u), Plus(m.counted, Unmonitored, u - Begin(r)),
                 m.early \/ m.restart < since)
<1>1. PICK spent \in Seconds, state \in StatesOfRows, known \in Int, from \in Int,
           counted \in Seconds :
          /\ spent = r.spent /\ state = r.state /\ known = r.lastKnown
          /\ from = r.from /\ counted = m.counted
  BY DEF RowTyped, Meant
<1>2. Unmonitored \in StatesOfRows
  BY DEF StatesOfRows
<1>3. CASE ~Refused(known)
  <2>1. PICK d \in Int : d = u - known
    OBVIOUS
  <2>2. Begin(r) = known /\ ~(m.restart < since)
    BY <1>1, <1>3 DEF Begin, Refused
  <2>3. Absent(r, u) = Plus(Present(r, known), Unmonitored, d)
    BY <1>1, <1>3, <2>1 DEF Absent
  <2>4. Present(r, known) \in Seconds
    <3>1. known = known + 0
      OBVIOUS
    <3> QED BY <3>1, PresentLater
  <2>5. Matches(Present(r, known), counted, m.early)
    BY <1>1, <2>2
  <2>6. Matches(Plus(Present(r, known), Unmonitored, d),
                Plus(counted, Unmonitored, d), m.early)
    BY <1>2, <2>4, <2>5, MatchesPlus
  <2> QED BY <1>1, <2>1, <2>2, <2>3, <2>6 DEF Matches
<1>4. CASE Refused(known)
  <2>1. PICK a \in Int, b \in Int, c \in Int :
            a = u - known /\ b = u - since /\ c = since - from
    OBVIOUS
  <2>2. Begin(r) = since /\ m.restart < since /\ from >= since /\ a >= b /\ 0 >= c
    BY <1>1, <1>4, <2>1 DEF Begin, Refused
  <2>3. Absent(r, u) = Plus(spent, Unmonitored, a)
    BY <1>1, <1>4, <2>1 DEF Absent
  <2>4. Present(r, since) = Plus(spent, state, c)
    BY <1>1, <2>1 DEF Present
  <2>5. Plus(spent, state, c) \in Seconds /\ Plus(spent, state, 0) = spent
    BY PlusIs, PlusNothing
  <2>6. AtLeast(spent, Plus(spent, state, c))
    BY <2>2, <2>5, AtLeastItself, PlusAtLeast
  <2>7. AtLeast(Plus(spent, state, c), counted)
    BY <1>1, <2>2, <2>4, <2>5, MatchesAtLeast
  <2>8. AtLeast(spent, counted)
    BY <2>5, <2>6, <2>7, AtLeastTwice
  <2>9. AtLeast(Plus(spent, Unmonitored, a), Plus(counted, Unmonitored, b))
    BY <1>2, <2>2, <2>8, PlusAtLeast
  <2> QED BY <1>1, <2>1, <2>2, <2>3, <2>9 DEF Matches
<1> QED BY <1>3, <1>4

\* Record and meaning still agree d seconds later, also if it is then that what
\* has not been among the initial states turns out to have vanished.
LEMMA AgreesLater ==
  ASSUME NEW r, RowTyped(r), NEW m \in Meant, since \in Int,
         NEW t \in Int, NEW d \in Int, NEW u \in Int, u = t + d,
         r.mayNoLongerExist /\ Refused(r.lastKnown) => r.from >= since,
         NEW initial \in BOOLEAN, Agrees(r, m, t, initial),
         NEW ends \in BOOLEAN,
         NEW n, Later(n, m, d), n.gone = (m.gone \/ (ends /\ m.doubtful)),
         NEW q, Kept(q, r), q.lastKnown = r.lastKnown,
         q.mayNoLongerExist = r.mayNoLongerExist,
         q.hasVanished = (r.hasVanished \/ (ends /\ r.mayNoLongerExist))
  PROVE  Agrees(q, n, u, initial /\ ~ends)
<1>1. Unmonitored \in StatesOfRows
  BY DEF StatesOfRows
<1>2. /\ Due(r, t) \in Seconds
      /\ Due(r, u) = Plus(Due(r, t),
                          IF r.hasVanished THEN Unmonitored ELSE r.state, d)
  BY DueLater
<1>3. \A v : Present(q, v) = Present(r, v) /\ Absent(q, v) = Absent(r, v)
  BY DEF Present, Absent, Kept
<1>4. Begin(q) = Begin(r) /\ Begin(r) \in Int
  BY DEF Begin, RowTyped
<1>5. /\ m.is \in StatesOfRows /\ m.counted \in Seconds /\ m.pending \in Int
      /\ m.doubtful \in BOOLEAN /\ m.gone \in BOOLEAN /\ m.restart \in Int
  BY DEF Meant
<1>6. CASE ~m.doubtful
  <2>1. /\ ~r.mayNoLongerExist /\ m.is = r.state /\ m.pending = 0 /\ ~m.gone
        /\ ~r.hasVanished /\ Matches(Due(r, t), m.counted, m.early)
    <3>1. m.early \in BOOLEAN
      BY DEF Meant
    <3> QED BY <1>6, <3>1 DEF Agrees, Claimed, Excepted, RowTyped
  <2>2. n.counted = Plus(m.counted, m.is, d) /\ n.early = m.early
    BY <1>6 DEF Later
  <2>3. Due(r, u) = Plus(Due(r, t), m.is, d)
    BY <1>2, <2>1
  <2>4. Matches(Due(r, u), n.counted, n.early)
    BY <1>2, <1>5, <2>1, <2>2, <2>3, MatchesPlus
  <2>5. ~n.doubtful /\ n.is = q.state /\ n.pending = 0 /\ ~n.gone
        /\ ~q.mayNoLongerExist /\ ~q.hasVanished
    BY <1>6, <2>1 DEF Later, Kept
  <2>6. Due(q, u) = Due(r, u) /\ Claimed(n) = n.counted /\ Excepted(n) = n.early
    <3>1. n.early \in BOOLEAN
      BY <2>2 DEF Meant
    <3> QED BY <1>3, <2>1, <2>5, <3>1 DEF Due, Claimed, Excepted
  <2> QED BY <2>4, <2>5, <2>6 DEF Agrees
<1>7. ASSUME m.doubtful, ~m.gone
      PROVE  Agrees(q, n, u, initial /\ ~ends)
  <2>1. n.doubtful /\ n.is = m.is /\ n.counted = m.counted /\ n.early = m.early
        /\ n.pending = m.pending + d /\ n.restart = m.restart
    BY <1>7 DEF Later
  <2>2. /\ r.mayNoLongerExist /\ ~r.hasVanished /\ m.is = r.state /\ initial
        /\ m.restart = r.lastKnown
        /\ m.pending = t - Begin(r)
        /\ Matches(Present(r, Begin(r)), m.counted, m.early)
    BY <1>7 DEF Agrees
  <2>3. n.pending = u - Begin(r)
    BY <1>4, <2>1, <2>2
  <2>4. CASE ~ends
    <3>1. ~n.gone /\ ~q.hasVanished /\ q.mayNoLongerExist
      BY <1>7, <2>2, <2>4
    <3>2. n.is = q.state /\ n.restart = q.lastKnown /\ n.pending = u - Begin(q)
      BY <1>4, <2>1, <2>2, <2>3 DEF Kept
    <3>3. Matches(Present(q, Begin(q)), n.counted, n.early)
      BY <1>3, <1>4, <2>1, <2>2
    <3> QED BY <2>1, <2>2, <2>4, <3>1, <3>2, <3>3 DEF Agrees
  <2>5. CASE ends
    <3>1. n.gone /\ q.hasVanished
      BY <1>7, <2>2, <2>5
    <3>2. Matches(Absent(r, u), Plus(m.counted, Unmonitored, u - Begin(r)),
                  m.early \/ m.restart < since)
      BY <2>2, AbsentWhenGone
    <3>3. Due(q, u) = Absent(r, u)
      BY <1>3, <3>1 DEF Due
    <3>4. Claimed(n) = Plus(m.counted, Unmonitored, u - Begin(r))
      BY <2>1, <2>3 DEF Claimed
    <3>5. Excepted(n) = (m.early \/ m.restart < since)
      BY <2>1, <3>1 DEF Excepted
    <3>6. Refused(q.lastKnown) => n.restart < since
      BY <2>1, <2>2 DEF Refused
    <3>7. Matches(Due(q, u), Claimed(n), Excepted(n))
      BY <3>2, <3>3, <3>4, <3>5
    <3> QED BY <2>1, <3>1, <3>6, <3>7 DEF Agrees
  <2> QED BY <2>4, <2>5
<1>8. ASSUME m.doubtful, m.gone
      PROVE  Agrees(q, n, u, initial /\ ~ends)
  <2>1. n.doubtful /\ n.is = m.is /\ n.counted = m.counted /\ n.early = m.early
        /\ n.pending = m.pending + d /\ n.restart = m.restart /\ n.gone
    BY <1>8 DEF Later
  <2>2. /\ r.hasVanished \/ r.state = Unmonitored
        /\ r.mayNoLongerExist /\ Refused(r.lastKnown) => m.restart < since
        /\ Matches(Due(r, t), Claimed(m), Excepted(m))
    BY <1>8 DEF Agrees
  <2>3. PICK claimed \in Seconds : claimed = Claimed(m)
    BY <1>1, <1>5, <1>8, PlusIs DEF Claimed
  <2>4. Claimed(n) = Plus(claimed, Unmonitored, d)
    <3>1. Claimed(n) = Plus(m.counted, Unmonitored, n.pending)
          /\ claimed = Plus(m.counted, Unmonitored, m.pending)
      BY <1>8, <2>1, <2>3 DEF Claimed
    <3>2. n.pending \in Int
      BY <1>5, <2>1
    <3> QED BY <1>1, <1>5, <2>1, <3>1, <3>2, PlusTwice
  <2>5. Excepted(n) = Excepted(m)
    BY <1>8, <2>1 DEF Excepted
  <2>6. Matches(Due(r, u), Claimed(n), Excepted(n))
    <3>1. Due(r, u) = Plus(Due(r, t), Unmonitored, d)
      BY <1>2, <2>2
    <3> QED BY <1>1, <1>2, <2>2, <2>3, <2>4, <2>5, <3>1, MatchesPlus
  <2>7. Matches(Due(q, u), Claimed(n), Excepted(n))
    <3>1. CASE q.hasVanished = r.hasVanished
      BY <1>3, <2>6, <3>1 DEF Due
    <3>2. CASE q.hasVanished # r.hasVanished
      <4>1. ~r.hasVanished /\ q.hasVanished /\ r.mayNoLongerExist
            /\ r.state = Unmonitored
        BY <2>2, <3>2 DEF RowTyped
      <4>2. Due(q, u) = Absent(r, u) /\ Due(r, u) = Present(r, u)
        BY <1>3, <4>1 DEF Due
      <4>3. Matches(Absent(r, u), Present(r, u), Refused(r.lastKnown))
        BY <4>1, AbsentUnmonitored
      <4>4. CASE ~Refused(r.lastKnown)
        BY <2>6, <4>2, <4>3, <4>4 DEF Matches
      <4>5. CASE Refused(r.lastKnown)
        <5>1. Excepted(n)
          BY <1>8, <2>2, <2>5, <4>1, <4>5 DEF Excepted
        <5>2. Absent(r, u) \in Seconds /\ Present(r, u) \in Seconds
              /\ Claimed(n) \in Seconds
          BY <1>1, <2>3, <2>4, PlusIs, PresentLater, AbsentLater
        <5>3. AtLeast(Absent(r, u), Present(r, u))
          BY <4>3, <4>5 DEF Matches
        <5>4. AtLeast(Present(r, u), Claimed(n))
          BY <2>6, <4>2, <5>2, MatchesAtLeast
        <5>5. AtLeast(Absent(r, u), Claimed(n))
          BY <5>2, <5>3, <5>4, AtLeastTwice
        <5> QED BY <4>2, <5>1, <5>5 DEF Matches
      <4> QED BY <4>4, <4>5
    <3> QED BY <3>1, <3>2
  <2>8. q.hasVanished \/ q.state = Unmonitored
    BY <2>2 DEF Kept
  <2>9. q.mayNoLongerExist /\ Refused(q.lastKnown) => n.restart < since
    BY <2>1, <2>2
  <2> QED BY <2>1, <2>7, <2>8, <2>9 DEF Agrees
<1> QED BY <1>5, <1>6, <1>7, <1>8

(***************************************************************************)
(* The head of the loop.                                                   *)
(***************************************************************************)

\* The clock never goes back, and stands still until the time frame begins.
LEMMA ReadClock ==
  ASSUME IInv, ReadingInv, NEW e \in Entries, Read(e)
  PROVE  /\ Clock \in Int /\ Clock' \in Int /\ Elapsed(e.time) \in Int
         /\ e.time \in Int /\ e.time \in 0 .. MaxTime
         /\ Clock' = Clock + Elapsed(e.time)
         /\ Clock <= Clock' /\ e.time <= Clock'
         /\ since' = since /\ since \in Int
         /\ pc = "reading" /\ pc' = "reading"
         /\ onlyUpdate' = Only(e) /\ Only(e) \in BOOLEAN
         /\ Only(e) => onlyUpdate /\ Clock' = since /\ Clock = since
                       /\ e.time < since
         /\ ~Only(e) => Clock' = e.time /\ e.time >= since /\ now' >= since
<1>1. e.time \in 0 .. MaxTime /\ now \in 0 .. MaxTime /\ since \in 0 .. MaxTime
      /\ onlyUpdate \in BOOLEAN
  BY DEF IInv, TypeOK, Entries
<1>2. e.time \in Int /\ now \in Int /\ since \in Int
  BY <1>1, StateHistoryAssumption
<1>3. /\ pc = "reading" /\ pc' = "reading" /\ since' = since /\ now' = e.time
      /\ e.time >= now /\ onlyUpdate' = Only(e)
  BY DEF Read, Only
<1>4. Only(e) = (onlyUpdate /\ ~(e.time >= since)) /\ Only(e) \in BOOLEAN
  BY <1>1 DEF Only, Reached
<1>5. onlyUpdate \/ now >= since
  BY <1>3 DEF ReadingInv
<1>6. Clock' = IF e.time < since THEN since ELSE e.time
  BY <1>3 DEF Clock
<1>7. Clock \in Int /\ Clock' \in Int /\ Elapsed(e.time) \in Int
      /\ Clock' = Clock + Elapsed(e.time)
      /\ Clock <= Clock' /\ e.time <= Clock'
  BY <1>2, <1>3, <1>6 DEF Clock, Elapsed
<1>8. Only(e) => onlyUpdate /\ Clock' = since /\ Clock = since /\ e.time < since
  <2>1. Only(e) => onlyUpdate /\ ~(e.time >= since)
    BY DEF Only, Reached
  <2>2. ~(e.time >= since) => e.time < since
    BY <1>2
  <2>3. onlyUpdate => Clock = since
    BY <1>3 DEF ReadingInv
  <2> QED BY <1>6, <2>1, <2>2, <2>3
<1>9. ~Only(e) => Clock' = e.time /\ e.time >= since /\ now' >= since
  BY <1>1, <1>2, <1>3, <1>4, <1>5, <1>6
<1> QED BY <1>1, <1>2, <1>3, <1>4, <1>7, <1>8, <1>9

\* What is known of record and meaning of an object when the entry itself is
\* looked at, at this time of the clock.
Settles(o, r, m, e, time) ==
    /\ o \in Objects
    /\ r \in HostServiceState(o) /\ RowTyped(r) /\ Laid(r, time)
    /\ r.inPeriod = PeriodsNow(o)
    /\ m \in Meant /\ Complete(m, time)
    /\ Only(e) => BeforeFrame(r, m)
    /\ Agrees(r, m, time, inInitialStates /\ ~PhaseEnds(e))

\* What an entry does to a record before its own change agrees with the observer.
LEMMA PreparedSettles ==
  ASSUME IInv, ReadingInv, NEW e \in Entries, Read(e), NEW o \in DOMAIN info
  PROVE  Settles(o, Prepared(e)[o], PreparedMeant(e)[o], e, Clock')
<1>1. PICK r : r = info[o]
  OBVIOUS
<1>2. PICK m \in Meant : m = meant[o]
  BY ReadClock DEF ReadingInv
<1>3. /\ r \in HostServiceState(o) /\ (r.hasVanished => r.mayNoLongerExist)
      /\ r.inPeriod = PeriodsNow(o)
  BY <1>1 DEF IInv, TypeOK, PeriodsFollowed
<1>4. RowTyped(r)
  BY <1>3, RecordsAreTyped
<1>5. PICK q : q = Prepared(e)[o]
  OBVIOUS
<1>6. /\ q \in HostServiceState(o) /\ (q.hasVanished => q.mayNoLongerExist)
      /\ q.inPeriod = r.inPeriod
  BY <1>1, <1>5, PreparedSound DEF IInv
<1>7. RowTyped(q)
  BY <1>6, RecordsAreTyped
<1>8. /\ onlyUpdate => BeforeFrame(r, m)
      /\ Laid(r, Clock) /\ Complete(m, Clock)
      /\ Agrees(r, m, Clock, inInitialStates)
  BY <1>1, <1>2, ReadClock DEF ReadingInv
<1>9. PICK ends \in BOOLEAN : ends = PhaseEnds(e)
  BY DEF PhaseEnds, IInv, TypeOK
<1>10. /\ Kept(q, r) /\ q.lastKnown = r.lastKnown
       /\ q.mayNoLongerExist = r.mayNoLongerExist
       /\ q.hasVanished = (r.hasVanished \/ (ends /\ r.mayNoLongerExist))
  <2>1. PICK from : from = IF onlyUpdate /\ Reached(e) THEN since ELSE r.from
    OBVIOUS
  <2>2. from = r.from
    BY <1>8, <2>1 DEF BeforeFrame
  <2>3. PICK gone : gone = (r.hasVanished \/ (ends /\ r.mayNoLongerExist))
    OBVIOUS
  <2>4. q = [r EXCEPT !.from = from, !.hasVanished = gone]
    BY <1>1, <1>5, <1>9, <2>1, <2>3 DEF Prepared
  <2> QED BY <1>3, <2>2, <2>3, <2>4 DEF HostServiceState, Kept
<1>11. PICK t \in Int, d \in Int, u \in Int :
           t = Clock /\ d = Elapsed(e.time) /\ u = Clock' /\ u = t + d /\ t <= u
  BY ReadClock
<1>12. PICK aged \in Meant : aged = Aged(m, e.time)
  BY ReadClock, AgedIsLater
<1>13. Later(aged, m, d) /\ aged.gone = m.gone
  BY <1>11, <1>12, ReadClock, AgedIsLater
<1>14. PICK n : n = PreparedMeant(e)[o]
  OBVIOUS
<1>15. PICK gone \in BOOLEAN : gone = (m.gone \/ (ends /\ m.doubtful))
  BY DEF Meant
<1>16. n = [aged EXCEPT !.gone = gone]
  BY <1>2, <1>9, <1>12, <1>13, <1>14, <1>15 DEF PreparedMeant, IInv, TypeOK
<1>17. n \in Meant /\ Later(n, m, d) /\ n.gone = gone
  BY <1>13, <1>16 DEF Meant, Later
<1>18. since \in Int
  BY ReadClock
<1>19. Laid(q, u)
  BY <1>4, <1>8, <1>10, <1>11 DEF Laid, Kept, RowTyped
<1>20. Agrees(q, n, u, inInitialStates /\ ~ends)
  <2>1. inInitialStates \in BOOLEAN
    BY DEF IInv, TypeOK
  <2>2. r.mayNoLongerExist /\ Refused(r.lastKnown) => r.from >= since
    BY <1>8 DEF Laid
  <2>3. Agrees(r, m, t, inInitialStates)
    BY <1>8, <1>11
  <2>4. n.gone = (m.gone \/ (ends /\ m.doubtful))
    BY <1>15, <1>17
  <2> QED BY <1>4, <1>10, <1>11, <1>17, <1>18, <2>1, <2>2, <2>3, <2>4, AgreesLater
<1>21. Complete(n, u)
  <2>1. Complete(m, t)
    BY <1>8, <1>11
  <2> QED BY <1>11, <1>17, <1>18, <2>1, CompleteLater
<1>22. Only(e) => BeforeFrame(q, n)
  <2> SUFFICES ASSUME Only(e) PROVE BeforeFrame(q, n)
    OBVIOUS
  <2>1. BeforeFrame(r, m) /\ d = 0
    BY <1>8, <1>11, ReadClock
  <2>2. m.doubtful \in BOOLEAN /\ m.is \in StatesOfRows
    BY DEF Meant
  <2>3. Plus(NoSeconds, m.is, 0) = NoSeconds
    BY <2>2, TotalOfNoSeconds, PlusNothing
  <2> QED BY <1>10, <1>17, <2>1, <2>2, <2>3 DEF BeforeFrame, Kept, Later
<1>23. o \in Objects
  BY DEF IInv, TypeOK, Objects
<1> QED BY <1>3, <1>5, <1>6, <1>7, <1>9, <1>11, <1>14, <1>17, <1>19, <1>20, <1>21,
           <1>22, <1>23 DEF Settles

(***************************************************************************)
(* What an entry does to a record and what it means.                       *)
(***************************************************************************)

\* What the records and their meaning are like after an entry.
Accounted(r, m, time, only, initial) ==
    /\ m \in Meant
    /\ Laid(r, time) /\ Complete(m, time)
    /\ only => BeforeFrame(r, m)
    /\ Agrees(r, m, time, initial)

\* The initial states that may follow do not matter to what is not in doubt,
\* nor to what is known to have been missing.
LEMMA AgreesWithoutDoubt ==
  ASSUME NEW r, NEW m \in Meant, NEW t, NEW initial,
         ~r.mayNoLongerExist, ~r.hasVanished,
         ~m.doubtful => m.is = r.state /\ m.pending = 0 /\ ~m.gone,
         m.doubtful => m.gone /\ r.state = Unmonitored,
         Matches(Present(r, t), Claimed(m), Excepted(m))
  PROVE  Agrees(r, m, t, initial)
<1>1. m.doubtful \in BOOLEAN
  BY DEF Meant
<1> QED BY <1>1 DEF Agrees, Due

\* However an entry changes a record, its rows follow each other.
LEMMA UpdateLaid ==
  ASSUME TypeOK, NEW o, NEW r, NEW m, NEW t \in Int, NEW e \in Entries,
         Settles(o, r, m, e, t), e.kind \in Kinds, e.object \in Objects,
         Only(e) \in BOOLEAN, since \in Int,
         ~Only(e) => t = e.time /\ e.time >= since
  PROVE  LET q == Update(o, r, e, Only(e))
         IN /\ Laid(q, t)
            /\ Only(e) => q.from = r.from /\ q.spent = r.spent
            /\ ~q.mayNoLongerExist /\ ~q.hasVanished
            /\ q.state \in StatesOfRows
            /\ q.state = IF TellsState(o, e) THEN e.value
                         ELSE IF r.hasVanished THEN Unmonitored ELSE r.state
<1>1. e.time \in Int
  BY StateHistoryAssumption DEF Entries
<1>2. o \in Objects /\ r \in HostServiceState(o) /\ RowTyped(r) /\ Laid(r, t)
      /\ r.inPeriod = PeriodsNow(o)
  BY DEF Settles
<1>3. PICK back : back = Revive(o, r, Only(e))
  OBVIOUS
<1>4. /\ ~r.hasVanished => back = r
      /\ r.hasVanished => /\ Written(back, r, r.lastKnown, Only(e))
                          /\ back.state = Unmonitored
  BY <1>2, <1>3, ReviveWrites
<1>5. PICK known \in Int : known = r.lastKnown
  BY <1>2 DEF RowTyped
<1>6. /\ Total(back.spent) >= back.from - since /\ back.from <= t
      /\ Only(e) => back.from = r.from /\ back.spent = r.spent
  <2>1. CASE ~r.hasVanished
    BY <1>2, <1>4, <2>1 DEF Laid
  <2>2. CASE r.hasVanished
    <3>1. Written(back, r, known, Only(e))
      BY <1>4, <1>5, <2>2
    <3>2. known <= t /\ (Refused(known) => r.from >= since)
      BY <1>2, <1>5, <2>2 DEF Laid, RowTyped
    <3>3. Total(r.spent) >= r.from - since /\ r.from <= t
      BY <1>2 DEF Laid
    <3>4. Total(back.spent) >= back.from - since /\ back.from <= t
      BY <1>2, <3>1, <3>2, <3>3, WrittenLaid
    <3> QED BY <3>1, <3>4 DEF Written
  <2> QED BY <2>1, <2>2
<1>7. back \in HostServiceState(o) /\ ~back.hasVanished
  BY <1>2, <1>3, ReviveSound
<1>8. RowTyped(back)
  BY <1>7, RecordsAreTyped
<1>9. PICK q : q = Update(o, r, e, Only(e))
  OBVIOUS
<1>10. /\ Kept(q, back) \/ Written(q, back, e.time, Only(e))
       /\ q.state = IF TellsState(o, e) THEN e.value ELSE back.state
       /\ ~q.mayNoLongerExist
  BY <1>2, <1>3, <1>9, UpdateWrites
<1>11. /\ Total(q.spent) >= q.from - since /\ q.from <= t
       /\ Only(e) => q.from = back.from /\ q.spent = back.spent
  <2>1. CASE Kept(q, back)
    BY <1>6, <2>1 DEF Kept
  <2>2. CASE Written(q, back, e.time, Only(e))
    <3>1. ~Only(e) => e.time <= t /\ ~Refused(e.time)
      BY <1>1 DEF Refused
    <3>2. Total(q.spent) >= q.from - since /\ q.from <= t
      BY <1>1, <1>6, <1>8, <2>2, <3>1, WrittenLaid
    <3> QED BY <2>2, <3>2 DEF Written
  <2> QED BY <1>10, <2>1, <2>2
<1>12. q \in HostServiceState(o) /\ ~q.hasVanished
  BY <1>2, <1>9, UpdateSound
<1>13. q.state \in StatesOfRows
  BY <1>12 DEF HostServiceState, StatesOfRows
<1>14. Laid(q, t)
  BY <1>10, <1>11 DEF Laid
<1>15. q.state = IF TellsState(o, e) THEN e.value
                 ELSE IF r.hasVanished THEN Unmonitored ELSE r.state
  BY <1>4, <1>10
<1> QED BY <1>6, <1>9, <1>10, <1>11, <1>12, <1>13, <1>14, <1>15

\* What is due to an object after an entry of the time frame: the seconds before
\* the entry are not touched by the state it reports.
LEMMA UpdateDue ==
  ASSUME TypeOK, NEW o, NEW r, NEW m, NEW t \in Int, NEW e \in Entries,
         Settles(o, r, m, e, t), e.kind \in Kinds, e.object \in Objects,
         ~Only(e), Only(e) \in BOOLEAN, since \in Int, t = e.time, e.time >= since
  PROVE  Present(Update(o, r, e, Only(e)), t) = Due(r, t)
<1>1. o \in Objects /\ r \in HostServiceState(o) /\ RowTyped(r)
      /\ r.inPeriod = PeriodsNow(o)
  BY DEF Settles
<1>2. PICK back : back = Revive(o, r, Only(e))
  OBVIOUS
<1>3. /\ ~r.hasVanished => back = r
      /\ r.hasVanished => /\ Written(back, r, r.lastKnown, Only(e))
                          /\ back.state = Unmonitored
  BY <1>1, <1>2, ReviveWrites
<1>4. back \in HostServiceState(o) /\ ~back.hasVanished
  BY <1>1, <1>2, ReviveSound
<1>5. RowTyped(back)
  BY <1>4, RecordsAreTyped
<1>6. PICK q : q = Update(o, r, e, Only(e))
  OBVIOUS
<1>7. Kept(q, back) \/ Written(q, back, t, Only(e))
  BY <1>1, <1>2, <1>6, UpdateWrites
<1>8. q.state \in StatesOfRows
  BY <1>6, UpdateLaid
<1>9. Present(q, t) = Present(back, t)
  <2>1. CASE Kept(q, back)
    BY <2>1 DEF Kept, Present
  <2>2. CASE Written(q, back, t, Only(e))
    <3>1. q.spent = Present(back, t) /\ q.from = t
      BY <2>2 DEF Written, Refused
    <3>2. q.spent \in Seconds
      BY <1>5, <2>2, WrittenTyped
    <3>3. t - q.from = 0
      BY <3>1
    <3>4. Plus(q.spent, q.state, 0) = q.spent
      BY <1>8, <3>2, PlusNothing
    <3> QED BY <3>1, <3>3, <3>4 DEF Present
  <2> QED BY <1>7, <2>1, <2>2
<1>10. Present(back, t) = Due(r, t)
  <2>1. CASE ~r.hasVanished
    BY <1>3, <2>1 DEF Due
  <2>2. CASE r.hasVanished
    BY <1>3, <2>2 DEF Due, Absent, Present, Written
  <2> QED BY <2>1, <2>2
<1> QED BY <1>6, <1>9, <1>10

\* Before the time frame an object gets nothing.
LEMMA NothingBeforeFrame ==
  ASSUME NEW q, q.spent = NoSeconds, q.from = since, q.state \in StatesOfRows,
         since \in Int
  PROVE  Present(q, since) = NoSeconds
<1>1. since - since = 0
  OBVIOUS
<1> QED BY <1>1, TotalOfNoSeconds, PlusNothing DEF Present

\* What is meant by an entry of an object.
Heard(m, e) ==
    LET settled == Settled(m, m.gone, Only(e))
    IN IF e.kind \in {"alert", "initial"} THEN [settled EXCEPT !.is = e.value]
                                          ELSE settled

\* What is meant once a doubt is settled: nothing is left in doubt, and what was
\* excepted stays so.
LEMMA SettledSound ==
  ASSUME NEW m \in Meant, NEW gone \in BOOLEAN, NEW only \in BOOLEAN,
         NEW t \in Int, since \in Int, Complete(m, t)
  PROVE  LET n == Settled(m, gone, only)
             is == IF gone THEN Unmonitored ELSE m.is
         IN /\ n \in Meant /\ n.is = is /\ n.counted = Plus(m.counted, is, m.pending)
            /\ n.pending = 0 /\ ~n.doubtful /\ ~n.gone
            /\ n.early = (m.early \/ (gone /\ ~only /\ m.restart < since))
            /\ Complete(n, t)
<1>1. /\ m.is \in StatesOfRows /\ m.counted \in Seconds /\ m.pending \in Int
      /\ m.early \in BOOLEAN /\ Unmonitored \in StatesOfRows
  BY DEF Meant, StatesOfRows
<1>2. PICK is \in StatesOfRows : is = IF gone THEN Unmonitored ELSE m.is
  BY <1>1
<1>3. PICK counted \in Seconds : counted = Plus(m.counted, is, m.pending)
  BY <1>1, PlusIs
<1>4. PICK early \in BOOLEAN : early = (m.early \/ (gone /\ ~only /\ m.restart < since))
  BY <1>1
<1>5. PICK none \in Int : none = 0
  OBVIOUS
<1>6. PICK n : n = Settled(m, gone, only)
  OBVIOUS
<1>7. n = [m EXCEPT !.is = is, !.counted = counted, !.pending = none,
                    !.early = early, !.doubtful = FALSE, !.gone = FALSE]
  BY <1>2, <1>3, <1>4, <1>5, <1>6 DEF Settled, Plus
<1>8. n \in Meant
  BY <1>7 DEF Meant
<1>9. n.is = is /\ n.counted = counted /\ n.pending = 0
  BY <1>5, <1>7 DEF Meant
<1>10. ~n.doubtful /\ ~n.gone /\ n.early = early
  BY <1>7 DEF Meant
<1>11. Total(counted) = Total(m.counted) + m.pending
  BY <1>1, <1>3, TotalOfPlus
<1>12. Complete(n, t)
  <2>1. Total(m.counted) \in Int
    BY <1>1, TotalOfPlus
  <2> QED BY <1>1, <1>9, <1>11, <2>1 DEF Complete
<1> QED BY <1>2, <1>3, <1>4, <1>6, <1>8, <1>9, <1>10, <1>12

\* The object an entry is about is heard of: its doubt is settled, in favour of
\* its last state or, if it was not among the initial states, of none.
LEMMA HeardOf ==
  ASSUME TypeOK, NEW o, NEW r, NEW m, NEW t \in Int, NEW e \in Entries,
         Settles(o, r, m, e, t), e.kind \in Kinds, e.object = o,
         Only(e) \in BOOLEAN, since \in Int,
         Only(e) => t = since, ~Only(e) => t = e.time /\ e.time >= since,
         NEW initial
  PROVE  Accounted(Update(o, r, e, Only(e)), Heard(m, e), t, Only(e), initial)
<1>1. PICK q : q = Update(o, r, e, Only(e))
  OBVIOUS
<1>0. PICK n : n = Heard(m, e)
  OBVIOUS
<1>2. /\ o \in Objects /\ RowTyped(r) /\ m \in Meant /\ Complete(m, t)
      /\ m.is \in StatesOfRows /\ m.counted \in Seconds /\ m.pending \in Int
      /\ m.gone \in BOOLEAN /\ m.doubtful \in BOOLEAN /\ m.early \in BOOLEAN
      /\ Unmonitored \in StatesOfRows
      /\ Agrees(r, m, t, inInitialStates /\ ~PhaseEnds(e))
  BY DEF Settles, Meant, StatesOfRows
<1>3. /\ Laid(q, t) /\ (Only(e) => q.from = r.from /\ q.spent = r.spent)
      /\ ~q.mayNoLongerExist /\ ~q.hasVanished /\ q.state \in StatesOfRows
      /\ q.state = IF TellsState(o, e) THEN e.value
                   ELSE IF r.hasVanished THEN Unmonitored ELSE r.state
  BY <1>1, <1>2, UpdateLaid
<1>4. PICK is \in StatesOfRows : is = IF m.gone THEN Unmonitored ELSE m.is
  BY <1>2
<1>5. PICK settled : settled = Settled(m, m.gone, Only(e))
  OBVIOUS
<1>6. /\ settled \in Meant /\ settled.is = is
      /\ settled.counted = Plus(m.counted, is, m.pending)
      /\ settled.pending = 0 /\ ~settled.doubtful /\ ~settled.gone
      /\ settled.early = (m.early \/ (m.gone /\ ~Only(e) /\ m.restart < since))
      /\ Complete(settled, t)
  BY <1>2, <1>4, <1>5, SettledSound
<1>7. TellsState(o, e) <=> e.kind \in {"alert", "initial"}
  BY DEF TellsState
<1>8. e.kind \in {"alert", "initial"} => e.value \in StatesOfRows
  BY <1>2, StateHistoryAssumption DEF Entries, StatesOfRows, States, Objects
<1>9. PICK says \in StatesOfRows : says = IF TellsState(o, e) THEN e.value ELSE is
  BY <1>7, <1>8
<1>10. n = [settled EXCEPT !.is = says]
  <2>1. CASE TellsState(o, e)
    BY <1>0, <1>5, <1>7, <1>9, <2>1 DEF Heard
  <2>2. CASE ~TellsState(o, e)
    BY <1>0, <1>5, <1>6, <1>7, <1>9, <2>2 DEF Heard, Meant
  <2> QED BY <2>1, <2>2
<1>11. /\ n \in Meant /\ n.is = says /\ n.counted = settled.counted /\ n.pending = 0
       /\ ~n.doubtful /\ ~n.gone /\ n.early = settled.early
       /\ Complete(n, t)
  <2>1. n \in Meant /\ n.is = says
    BY <1>6, <1>10 DEF Meant
  <2>2. /\ n.counted = settled.counted /\ n.pending = settled.pending
        /\ n.doubtful = settled.doubtful /\ n.gone = settled.gone
        /\ n.early = settled.early
    BY <1>6, <1>10 DEF Meant
  <2> QED BY <1>6, <2>1, <2>2 DEF Complete
<1>12. q.state = says
  <2>1. ~TellsState(o, e) => is = IF r.hasVanished THEN Unmonitored ELSE r.state
    BY <1>2, <1>4 DEF Agrees, RowTyped
  <2> QED BY <1>3, <1>9, <2>1
<1>13. Claimed(n) = n.counted /\ Excepted(n) = n.early
  <2>1. n.early \in BOOLEAN
    BY <1>11 DEF Meant
  <2> QED BY <1>11, <2>1 DEF Claimed, Excepted
<1>14. CASE Only(e)
  <2>1. BeforeFrame(r, m) /\ t = since
    BY <1>14 DEF Settles
  <2>2. q.from = since /\ q.spent = NoSeconds
    BY <1>3, <1>14, <2>1 DEF BeforeFrame
  <2>3. Present(q, t) = NoSeconds
    BY <1>3, <2>1, <2>2, NothingBeforeFrame
  <2>4. n.counted = NoSeconds
    <3>1. Plus(NoSeconds, is, 0) = NoSeconds
      BY TotalOfNoSeconds, PlusNothing
    <3> QED BY <1>6, <1>11, <2>1, <3>1 DEF BeforeFrame
  <2>5. ~n.early
    BY <1>6, <1>11, <1>14, <2>1 DEF BeforeFrame
  <2>6. BeforeFrame(q, n)
    BY <1>11, <2>2, <2>4, <2>5 DEF BeforeFrame
  <2>7. Matches(Present(q, t), Claimed(n), Excepted(n))
    BY <1>13, <2>3, <2>4, <2>5 DEF Matches
  <2>8. Agrees(q, n, t, initial)
    BY <1>3, <1>11, <1>12, <2>7, AgreesWithoutDoubt
  <2> QED BY <1>0, <1>1, <1>3, <1>11, <2>6, <2>8 DEF Accounted
<1>15. CASE ~Only(e)
  <2>1. Present(q, t) = Due(r, t)
    BY <1>1, <1>2, <1>15, UpdateDue
  <2>2. n.counted = Plus(m.counted, is, m.pending)
        /\ n.early = (m.early \/ (m.gone /\ m.restart < since))
    BY <1>6, <1>11, <1>15
  <2>3. Matches(Due(r, t), n.counted, n.early)
    <3>1. CASE ~m.doubtful
      <4>1. /\ m.pending = 0 /\ ~m.gone
            /\ Matches(Due(r, t), m.counted, Excepted(m))
        BY <1>2, <3>1 DEF Agrees, Claimed
      <4>2. n.counted = m.counted
        BY <1>2, <2>2, <4>1, PlusNothing
      <4> QED BY <2>2, <4>1, <4>2 DEF Excepted
    <3>2. CASE m.doubtful /\ ~m.gone
      <4>1. /\ ~r.hasVanished /\ m.is = r.state
            /\ m.pending = t - Begin(r)
            /\ Matches(Present(r, Begin(r)), m.counted, m.early)
        BY <1>2, <3>2 DEF Agrees
      <4>2. PICK begin \in Int : begin = Begin(r)
        BY <1>2 DEF Begin, RowTyped
      <4>3. PICK d \in Int : d = t - begin
        OBVIOUS
      <4>4. Present(r, begin) \in Seconds
            /\ Present(r, t) = Plus(Present(r, begin), r.state, d)
        BY <1>2, <4>3, PresentSince
      <4>5. Matches(Plus(Present(r, begin), m.is, d), Plus(m.counted, m.is, d),
                    m.early)
        BY <1>2, <4>1, <4>2, <4>4, MatchesPlus
      <4>6. is = m.is /\ n.early = m.early /\ m.pending = d
        BY <1>2, <1>4, <2>2, <3>2, <4>1, <4>2, <4>3
      <4> QED BY <2>2, <4>1, <4>4, <4>5, <4>6 DEF Due
    <3>3. CASE m.doubtful /\ m.gone
      <4>1. Matches(Due(r, t), Plus(m.counted, Unmonitored, m.pending), Excepted(m))
        BY <1>2, <3>3 DEF Agrees, Claimed
      <4> QED BY <1>4, <2>2, <3>3, <4>1 DEF Excepted
    <3> QED BY <1>2, <3>1, <3>2, <3>3
  <2>4. Agrees(q, n, t, initial)
    BY <1>3, <1>11, <1>12, <1>13, <2>1, <2>3, AgreesWithoutDoubt
  <2> QED BY <1>0, <1>1, <1>3, <1>11, <1>15, <2>4 DEF Accounted
<1> QED BY <1>14, <1>15

\* A service told by its host has not been heard of itself: what is meant stays
\* as it is.
LEMMA ToldByHost ==
  ASSUME TypeOK, NEW o, NEW r, NEW m, NEW t \in Int, NEW e \in Entries,
         Settles(o, r, m, e, t), e.kind \in Kinds \ {"initial"},
         e.object \in Hosts, o \notin Hosts,
         Only(e) \in BOOLEAN, since \in Int,
         Only(e) => t = since, ~Only(e) => t = e.time /\ e.time >= since,
         NEW initial
  PROVE  Accounted(Update(o, r, e, Only(e)), m, t, Only(e), initial)
<1>1. PICK q : q = Update(o, r, e, Only(e))
  OBVIOUS
<1>2. /\ e.object \in Objects /\ RowTyped(r) /\ m \in Meant /\ Complete(m, t)
      /\ m.doubtful \in BOOLEAN /\ m.gone \in BOOLEAN
      /\ ~TellsState(o, e) /\ Unmonitored \in StatesOfRows
      /\ Agrees(r, m, t, inInitialStates /\ ~PhaseEnds(e))
  BY DEF Settles, Meant, Objects, TellsState, StatesOfRows
<1>3. /\ Laid(q, t) /\ (Only(e) => q.from = r.from /\ q.spent = r.spent)
      /\ ~q.mayNoLongerExist /\ ~q.hasVanished /\ q.state \in StatesOfRows
      /\ q.state = IF r.hasVanished THEN Unmonitored ELSE r.state
  BY <1>1, <1>2, UpdateLaid
<1>4. Only(e) => BeforeFrame(q, m)
  BY <1>3 DEF Settles, BeforeFrame
<1>5. ~(inInitialStates /\ ~PhaseEnds(e))
  BY DEF PhaseEnds
<1>6. /\ ~m.doubtful => m.is = q.state /\ m.pending = 0 /\ ~m.gone
      /\ m.doubtful => m.gone /\ q.state = Unmonitored
      /\ Matches(Due(r, t), Claimed(m), Excepted(m))
  BY <1>2, <1>3, <1>5 DEF Agrees, RowTyped
<1>7. Matches(Present(q, t), Claimed(m), Excepted(m))
  <2>1. CASE Only(e)
    <3>1. BeforeFrame(q, m) /\ t = since
      BY <1>4, <2>1
    <3>2. Present(q, t) = NoSeconds
      BY <1>3, <3>1, NothingBeforeFrame DEF BeforeFrame
    <3>3. Claimed(m) = NoSeconds
      <4>1. Plus(NoSeconds, Unmonitored, 0) = NoSeconds
        BY <1>2, TotalOfNoSeconds, PlusNothing
      <4> QED BY <3>1, <4>1 DEF BeforeFrame, Claimed
    <3>4. AtLeast(NoSeconds, NoSeconds)
      BY TotalOfNoSeconds, AtLeastItself
    <3> QED BY <3>2, <3>3, <3>4 DEF Matches
  <2>2. CASE ~Only(e)
    <3>1. Present(q, t) = Due(r, t)
      BY <1>1, <1>2, <2>2, UpdateDue
    <3> QED BY <1>6, <3>1
  <2> QED BY <2>1, <2>2
<1>8. Agrees(q, m, t, initial)
  BY <1>2, <1>3, <1>6, <1>7, AgreesWithoutDoubt
<1> QED BY <1>1, <1>2, <1>3, <1>4, <1>8 DEF Accounted

(***************************************************************************)
(* The invariants, action by action.                                       *)
(***************************************************************************)

\* It is enough to account for every record.
LEMMA AllAccounted ==
  ASSUME IInv, ReadingInv, NEW e \in Entries, Read(e),
         \A o \in DOMAIN info' :
             Accounted(info'[o], meant'[o], Clock', Only(e), inInitialStates')
  PROVE  ReadingInv'
<1>1. since' = since /\ onlyUpdate' = Only(e)
      /\ (Only(e) => Clock' = since') /\ (~Only(e) => now' >= since')
  BY ReadClock
<1>2. ASSUME NEW o \in DOMAIN info'
      PROVE  /\ meant'[o] \in Meant
             /\ Laid(info[o], Clock)'
             /\ Complete(meant[o], Clock)'
             /\ onlyUpdate' => BeforeFrame(info[o], meant[o])'
             /\ Agrees(info[o], meant[o], Clock, inInitialStates)'
  <2>1. Accounted(info'[o], meant'[o], Clock', Only(e), inInitialStates')
    OBVIOUS
  <2>2. meant'[o] \in Meant
    BY <2>1 DEF Accounted
  <2>3. Laid(info[o], Clock)'
    BY <1>1, <2>1 DEF Accounted, Laid, Refused
  <2>4. Complete(meant[o], Clock)'
    BY <1>1, <2>1 DEF Accounted, Complete
  <2>5. onlyUpdate' => BeforeFrame(info[o], meant[o])'
    BY <1>1, <2>1 DEF Accounted, BeforeFrame
  <2>6. Agrees(info[o], meant[o], Clock, inInitialStates)'
    BY <1>1, <2>1 DEF Accounted, Agrees, Due, Absent, Begin, Refused, Excepted
  <2> QED BY <2>2, <2>3, <2>4, <2>5, <2>6
<1> QED BY <1>1, <1>2 DEF ReadingInv

\* What the head of the loop leaves need not be touched.
LEMMA SettledAccounts ==
  ASSUME NEW e \in Entries, Read(e), NEW o, NEW r, NEW m,
         Settles(o, r, m, e, Clock')
  PROVE  Accounted(r, m, Clock', Only(e), inInitialStates')
<1>1. inInitialStates /\ ~PhaseEnds(e) => inInitialStates'
  BY DEF Read
<1>2. Agrees(r, m, Clock', inInitialStates')
  BY <1>1 DEF Settles, Agrees
<1> QED BY <1>2 DEF Settles, Accounted

\* An entry that is not looked at changes no account.
LEMMA IgnoreEntryAccounts ==
  ASSUME IInv, ReadingInv, NEW e \in Entries, IgnoreEntry(e)
  PROVE  ReadingInv'
<1>1. Read(e) /\ info' = Prepared(e) /\ meant' = PreparedMeant(e)
      /\ DOMAIN info' = DOMAIN info
  BY PreparedSound DEF IgnoreEntry, IInv
<1>2. ASSUME NEW o \in DOMAIN info'
      PROVE  Accounted(info'[o], meant'[o], Clock', Only(e), inInitialStates')
  BY <1>1, <1>2, PreparedSettles, SettledAccounts
<1> QED BY <1>1, <1>2, AllAccounted

\* A row that ends now does not change what is due to an object, but for one that
\* was missing before the frame and gets even more.
LEMMA WrittenDue ==
  ASSUME NEW r, RowTyped(r), NEW t \in Int, r.from <= t,
         NEW q, Written(q, r, t, FALSE), ~Refused(t),
         q.state = r.state, q.lastKnown = r.lastKnown, q.hasVanished = r.hasVanished
  PROVE  Matches(Due(q, t), Due(r, t), r.hasVanished /\ Refused(r.lastKnown))
<1>1. PICK spent \in Seconds, state \in StatesOfRows, known \in Int, from \in Int :
          spent = r.spent /\ state = r.state /\ known = r.lastKnown /\ from = r.from
  BY DEF RowTyped
<1>2. CASE ~r.hasVanished
  <2>1. Present(q, t) = Present(r, t)
    BY WrittenPresent
  <2> QED BY <1>2, <2>1 DEF Due, Matches
<1>3. CASE r.hasVanished /\ ~Refused(known)
  <2>1. Present(q, known) = Present(r, known)
    BY WrittenPresent
  <2> QED BY <1>1, <1>3, <2>1 DEF Due, Absent, Matches
<1>4. CASE r.hasVanished /\ Refused(known)
  <2>1. PICK d \in Int, a \in Int : d = t - from /\ a = t - known
    OBVIOUS
  <2>2. d >= 0
    BY <1>1, <2>1
  <2>3. q.spent = Plus(spent, state, d)
    BY <1>1, <2>1 DEF Written, Present
  <2>4. Plus(spent, state, d) \in Seconds /\ Plus(spent, state, 0) = spent
    BY PlusIs, PlusNothing
  <2>5. AtLeast(Plus(spent, state, d), spent)
    BY <2>2, <2>4, AtLeastItself, PlusAtLeast
  <2>6. Unmonitored \in StatesOfRows
    BY DEF StatesOfRows
  <2>7. AtLeast(Plus(Plus(spent, state, d), Unmonitored, a), Plus(spent, Unmonitored, a))
    BY <2>4, <2>5, <2>6, PlusAtLeast
  <2>8. Due(q, t) = Plus(Plus(spent, state, d), Unmonitored, a)
        /\ Due(r, t) = Plus(spent, Unmonitored, a)
    BY <1>1, <1>4, <2>1, <2>3 DEF Due, Absent
  <2> QED BY <1>1, <1>4, <2>7, <2>8 DEF Matches
<1> QED BY <1>1, <1>2, <1>3, <1>4 DEF RowTyped

\* A transition may write a row, but reports no state.
LEMMA TimeperiodTransitionAccounts ==
  ASSUME IInv, ReadingInv, NEW e \in Entries, TimeperiodTransition(e)
  PROVE  ReadingInv'
<1>1. Read(e) /\ e.kind = "timeperiod" /\ DOMAIN info' = DOMAIN info
      /\ meant' = PreparedMeant(e)
  BY DEF TimeperiodTransition
<1>2. ASSUME NEW o \in DOMAIN info
      PROVE  Accounted(info'[o], meant'[o], Clock', Only(e), inInitialStates')
  <2>1. PICK r : r = Prepared(e)[o]
    OBVIOUS
  <2>2. PICK m : m = PreparedMeant(e)[o]
    OBVIOUS
  <2>3. Settles(o, r, m, e, Clock')
    BY <1>1, <2>1, <2>2, PreparedSettles
  <2>4. PICK q : q = Transition(o, r, e, Only(e))
    OBVIOUS
  <2>5. info'[o] = q /\ meant'[o] = m
    BY <1>1, <2>1, <2>2, <2>4 DEF TimeperiodTransition, Only
  <2>6. \/ q = r
        \/ /\ Written(q, r, e.time, Only(e))
           /\ q.lastKnown = r.lastKnown /\ q.state = r.state
           /\ q.mayNoLongerExist = r.mayNoLongerExist
           /\ q.hasVanished = r.hasVanished
    BY <1>1, <2>3, <2>4, ReadClock, TransitionWrites DEF Settles
  <2>7. CASE q = r
    BY <1>1, <2>3, <2>5, <2>7, SettledAccounts
  <2>8. CASE q # r
    <3>1. PICK t \in Int : t = Clock'
      BY <1>1, ReadClock
    <3>2. /\ e.time \in Int /\ since \in Int /\ Only(e) \in BOOLEAN /\ e.time <= t
          /\ ~Only(e) => t = e.time /\ ~Refused(e.time)
      BY <1>1, <3>1, ReadClock DEF Refused
    <3>3. /\ RowTyped(r) /\ m \in Meant /\ Laid(r, t) /\ Complete(m, t)
          /\ Only(e) => BeforeFrame(r, m)
          /\ Agrees(r, m, t, inInitialStates /\ ~PhaseEnds(e))
      BY <2>3, <3>1 DEF Settles
    <3>4. Laid(q, t)
      <4>1. Total(r.spent) >= r.from - since /\ r.from <= t
        BY <3>3 DEF Laid
      <4>2. Total(q.spent) >= q.from - since /\ q.from <= t
        BY <2>6, <2>8, <3>2, <3>3, <4>1, WrittenLaid
      <4>3. Refused(r.lastKnown) /\ r.mayNoLongerExist => q.from >= since
        <5>1. CASE Only(e)
          <6>1. q.from = r.from
            BY <2>6, <2>8, <5>1 DEF Written
          <6> QED BY <3>3, <6>1 DEF Laid
        <5>2. CASE ~Only(e)
          <6>1. q.from = e.time
            BY <2>6, <2>8, <5>2 DEF Written
          <6> QED BY <3>2, <5>2, <6>1 DEF Refused
        <5> QED BY <5>1, <5>2
      <4> QED BY <2>6, <2>8, <3>3, <4>2, <4>3 DEF Laid
    <3>5. Only(e) => BeforeFrame(q, m)
      BY <2>6, <2>8, <3>3 DEF BeforeFrame, Written
    <3>6. ~(inInitialStates /\ ~PhaseEnds(e)) /\ m.doubtful \in BOOLEAN
          /\ m.gone \in BOOLEAN
      BY <1>1, <3>3 DEF PhaseEnds, Meant
    <3>7. ~m.doubtful \/ m.gone
      BY <3>3, <3>6 DEF Agrees
    <3>8. Matches(Due(r, t), Claimed(m), Excepted(m))
      BY <3>3, <3>7 DEF Agrees
    <3>9. Matches(Due(q, t), Claimed(m), Excepted(m))
      <4>1. CASE Only(e)
        <5>1. Due(q, t) = Due(r, t)
          BY <2>6, <2>8, <4>1 DEF Written, Due, Absent, Present
        <5> QED BY <3>8, <5>1
      <4>2. CASE ~Only(e)
        <5>1. Written(q, r, t, FALSE) /\ ~Refused(t) /\ r.from <= t
          BY <2>6, <2>8, <3>2, <3>3, <4>2 DEF Written, Laid
        <5>2. q.state = r.state /\ q.lastKnown = r.lastKnown
              /\ q.hasVanished = r.hasVanished
          BY <2>6, <2>8
        <5>3. Matches(Due(q, t), Due(r, t), r.hasVanished /\ Refused(r.lastKnown))
          BY <3>3, <5>1, <5>2, WrittenDue
        <5>4. CASE ~(r.hasVanished /\ Refused(r.lastKnown))
          BY <3>8, <5>3, <5>4 DEF Matches
        <5>5. CASE r.hasVanished /\ Refused(r.lastKnown)
          <6>1. m.doubtful /\ m.gone /\ r.mayNoLongerExist
            BY <3>3, <3>6, <3>7, <5>5 DEF Agrees, RowTyped
          <6>2. Excepted(m)
            BY <3>3, <5>5, <6>1 DEF Agrees, Excepted
          <6>3. m.counted \in Seconds /\ m.pending \in Int
                /\ Unmonitored \in StatesOfRows
            BY <3>3 DEF Meant, StatesOfRows
          <6>4. Claimed(m) \in Seconds
            BY <6>3, PlusIs DEF Claimed
          <6>5. RowTyped(q)
            BY <2>6, <2>8, <3>2, <3>3, WrittenTyped DEF RowTyped
          <6>6. Due(q, t) \in Seconds /\ Due(r, t) \in Seconds
            BY <3>3, <6>5, PresentSince, AbsentSince DEF Due
          <6>7. AtLeast(Due(q, t), Due(r, t)) /\ AtLeast(Due(r, t), Claimed(m))
            BY <3>8, <5>3, <5>5, <6>4, <6>6, MatchesAtLeast
          <6>8. AtLeast(Due(q, t), Claimed(m))
            BY <6>4, <6>6, <6>7, AtLeastTwice
          <6> QED BY <6>2, <6>8 DEF Matches
        <5> QED BY <5>4, <5>5
      <4> QED BY <3>2, <4>1, <4>2
    <3>10. Agrees(q, m, t, inInitialStates')
      BY <2>6, <2>8, <3>3, <3>6, <3>7, <3>9 DEF Agrees
    <3> QED BY <2>5, <3>1, <3>3, <3>4, <3>5, <3>10 DEF Accounted
  <2> QED BY <2>7, <2>8
<1> QED BY <1>1, <1>2, AllAccounted

\* A restart puts in doubt what has not vanished; what has, stays vanished.
LEMMA LogInitialStatesAccounts ==
  ASSUME IInv, ReadingInv, NEW e \in Entries, LogInitialStates(e)
  PROVE  ReadingInv'
<1>1. Read(e) /\ e.kind = "log_initial_states" /\ DOMAIN info' = DOMAIN info
      /\ inInitialStates' = TRUE
  BY DEF LogInitialStates, Read
<1>2. ASSUME NEW o \in DOMAIN info
      PROVE  Accounted(info'[o], meant'[o], Clock', Only(e), TRUE)
  <2>1. PICK r : r = Prepared(e)[o]
    OBVIOUS
  <2>2. PICK m : m = PreparedMeant(e)[o]
    OBVIOUS
  <2>3. PICK t \in Int : t = Clock'
    BY <1>1, ReadClock
  <2>4. /\ e.time \in Int /\ since \in Int /\ Only(e) \in BOOLEAN /\ e.time <= t
        /\ Only(e) => e.time < since /\ t = since
        /\ ~Only(e) => t = e.time /\ ~Refused(e.time)
    BY <1>1, <2>3, ReadClock DEF Refused
  <2>5. Settles(o, r, m, e, t)
    BY <1>1, <2>1, <2>2, <2>3, PreparedSettles
  <2>6. /\ r \in HostServiceState(o) /\ RowTyped(r) /\ m \in Meant
        /\ Laid(r, t) /\ Complete(m, t) /\ (Only(e) => BeforeFrame(r, m))
        /\ m.doubtful \in BOOLEAN /\ m.gone \in BOOLEAN
    BY <2>5 DEF Settles, Meant
  <2>7. Agrees(r, m, t, FALSE)
    <3>1. ~(inInitialStates /\ ~PhaseEnds(e))
      BY <1>1 DEF PhaseEnds
    <3> QED BY <2>5, <3>1 DEF Settles, Agrees
  <2>8. PICK q : q = IF r.hasVanished THEN r
                     ELSE [r EXCEPT !.lastKnown = e.time, !.mayNoLongerExist = TRUE]
    OBVIOUS
  <2>9. PICK n : n = IF m.gone THEN m
                     ELSE [m EXCEPT !.doubtful = TRUE, !.restart = e.time]
    OBVIOUS
  <2>10. info'[o] = q /\ meant'[o] = n
    BY <2>1, <2>2, <2>8, <2>9 DEF LogInitialStates, IInv, TypeOK
  <2>11. /\ Kept(q, r) /\ q.hasVanished = r.hasVanished
         /\ ~r.hasVanished => q.lastKnown = e.time /\ q.mayNoLongerExist
         /\ r.hasVanished => q = r
    BY <2>6, <2>8 DEF HostServiceState, Kept
  <2>12. /\ n \in Meant /\ n.is = m.is /\ n.pending = m.pending
         /\ n.counted = m.counted /\ n.gone = m.gone /\ n.early = m.early
         /\ m.gone => n = m
         /\ ~m.gone => n.doubtful /\ n.restart = e.time
    BY <2>4, <2>6, <2>9 DEF Meant
  <2>13. \A v : Present(q, v) = Present(r, v)
    BY <2>11 DEF Present, Kept
  <2>14. Refused(e.time) => Only(e)
    BY <2>4
  <2>15. Laid(q, t)
    <3>1. CASE r.hasVanished
      BY <2>6, <2>11, <3>1
    <3>2. CASE ~r.hasVanished
      <4>1. Refused(e.time) => r.from >= since
        BY <2>4, <2>6, <2>14 DEF BeforeFrame
      <4> QED BY <2>4, <2>6, <2>11, <3>2, <4>1 DEF Laid, Kept
    <3> QED BY <3>1, <3>2
  <2>16. Complete(n, t)
    BY <2>6, <2>12 DEF Complete
  <2>17. Only(e) => BeforeFrame(q, n)
    BY <2>4, <2>6, <2>11, <2>12 DEF BeforeFrame, Kept
  <2>18. CASE m.gone
    <3>1. m.doubtful /\ (r.hasVanished \/ r.state = Unmonitored)
          /\ Matches(Due(r, t), Claimed(m), Excepted(m))
      BY <2>6, <2>7, <2>18 DEF Agrees
    <3>2. Due(q, t) = Due(r, t)
      BY <2>11, <2>13 DEF Due
    <3>3. n = m
      BY <2>12, <2>18
    <3>4. q.mayNoLongerExist /\ Refused(q.lastKnown) => n.restart < since
      <4>1. CASE r.hasVanished
        BY <2>7, <2>11, <2>18, <3>1, <3>3, <4>1 DEF Agrees
      <4>2. CASE ~r.hasVanished
        BY <2>6, <2>11, <2>14, <3>1, <3>3, <4>2 DEF BeforeFrame
      <4> QED BY <4>1, <4>2
    <3>5. q.hasVanished \/ q.state = Unmonitored
      BY <2>11, <3>1 DEF Kept
    <3>6. Agrees(q, n, t, TRUE)
      BY <2>18, <3>1, <3>2, <3>3, <3>4, <3>5 DEF Agrees
    <3> QED BY <2>3, <2>10, <2>12, <2>15, <2>16, <2>17, <3>6 DEF Accounted
  <2>19. CASE ~m.gone
    <3>1. ~m.doubtful
      BY <2>6, <2>7, <2>19 DEF Agrees
    <3>2. /\ ~r.mayNoLongerExist /\ ~r.hasVanished
          /\ m.is = r.state /\ m.pending = 0
          /\ Matches(Present(r, t), m.counted, m.early)
      <4>1. m.early \in BOOLEAN
        BY <2>6 DEF Meant
      <4> QED BY <2>6, <2>7, <2>19, <3>1, <4>1
              DEF Agrees, Claimed, Excepted, Due, RowTyped
    <3>3. q.lastKnown = e.time /\ q.mayNoLongerExist /\ ~q.hasVanished
          /\ q.state = r.state
      BY <2>11, <3>2 DEF Kept
    <3>4. Begin(q) = t
      BY <2>4, <3>3 DEF Begin, Refused
    <3>5. n.pending = t - Begin(q)
      BY <2>12, <3>2, <3>4
    <3>6. Matches(Present(q, Begin(q)), n.counted, n.early)
      BY <2>12, <2>13, <3>2, <3>4
    <3>7. n.doubtful /\ ~n.gone /\ n.is = q.state /\ n.restart = q.lastKnown
      BY <2>12, <2>19, <3>2, <3>3
    <3>8. Agrees(q, n, t, TRUE)
      BY <3>3, <3>5, <3>6, <3>7 DEF Agrees
    <3> QED BY <2>3, <2>10, <2>12, <2>15, <2>16, <2>17, <3>8 DEF Accounted
  <2> QED BY <2>6, <2>18, <2>19
<1> QED BY <1>1, <1>2, AllAccounted

\* The record of an object that is met for the first time.
LEMMA NewSettles ==
  ASSUME IInv, ReadingInv, NEW e \in Entries, Read(e), e.object \in Objects
  PROVE  Settles(e.object, NewState(e.object, e.time, Only(e)),
                 FirstMeant(e.time, Only(e)), e, Clock')
<1>1. PICK o \in Objects : o = e.object
  OBVIOUS
<1>2. PICK only \in BOOLEAN : only = Only(e)
  BY ReadClock
<1>3. PICK time \in 0 .. MaxTime : time = e.time
  BY ReadClock
<1>4. PICK r : r = NewState(o, time, only)
  OBVIOUS
<1>5. PICK m : m = FirstMeant(time, only)
  OBVIOUS
<1>6. PICK is : is = IF ~only /\ time - since > Grace THEN Unmonitored ELSE 0
  OBVIOUS
<1>7. /\ r \in HostServiceState(o) /\ ~r.hasVanished
      /\ r.inPeriod = PeriodsNow(o)
  BY <1>4, NewStateSound DEF IInv
<1>8. /\ r.state = is /\ r.from = since /\ ~r.mayNoLongerExist
      /\ r.spent = NoSeconds
  BY <1>4, <1>6 DEF NewState
<1>9. RowTyped(r)
  BY <1>7, RecordsAreTyped
<1>10. is \in StatesOfRows
  BY <1>8, <1>9 DEF RowTyped
<1>11. time \in Int /\ since \in Int
  BY <1>3, ReadClock
<1>12. NoSeconds \in Seconds /\ NoSeconds[is] = 0
  BY <1>10, TotalOfNoSeconds DEF NoSeconds, StatesOfRows
<1>13. PICK counted \in Seconds :
           counted = IF only THEN NoSeconds ELSE Plus(NoSeconds, is, time - since)
  <2>1. time - since \in Int
    BY <1>11
  <2> QED BY <1>10, <1>12, <2>1, PlusIs
<1>14. counted = IF only THEN NoSeconds
                 ELSE [NoSeconds EXCEPT ![is] = time - since]
  <2>1. NoSeconds[is] + (time - since) = time - since
    BY <1>11, <1>12
  <2> QED BY <1>13, <2>1 DEF Plus
<1>15. m = [is |-> is, doubtful |-> FALSE, gone |-> FALSE, restart |-> 0,
            early |-> FALSE, pending |-> 0, counted |-> counted]
  BY <1>5, <1>6, <1>14 DEF FirstMeant
<1>16. m \in Meant /\ ~m.doubtful /\ ~m.gone /\ ~m.early /\ m.pending = 0
       /\ m.is = is /\ m.counted = counted
  BY <1>10, <1>15 DEF Meant
<1>17. PICK t \in Int :
           /\ t = Clock' /\ (only => t = since)
           /\ ~only => t = time /\ time >= since
  BY <1>2, <1>3, ReadClock
<1>18. Laid(r, t)
  <2>1. Total(r.spent) = 0
    BY <1>8, TotalOfNoSeconds
  <2>2. since <= t
    BY <1>2, <1>11, <1>17
  <2> QED BY <1>8, <1>11, <2>1, <2>2 DEF Laid
<1>19. Present(r, t) = counted /\ Complete(m, t)
  <2>1. Present(r, t) = Plus(NoSeconds, is, t - since)
    BY <1>8 DEF Present
  <2>2. Total(NoSeconds) = 0
    BY TotalOfNoSeconds
  <2>3. CASE only
    <3>1. t - since = 0
      BY <1>11, <1>17, <2>3
    <3>2. counted = NoSeconds
      BY <1>13, <2>3
    <3>3. Present(r, t) = counted
      BY <1>10, <1>12, <2>1, <3>1, <3>2, PlusNothing
    <3> QED BY <1>16, <2>2, <3>1, <3>2, <3>3 DEF Complete
  <2>4. CASE ~only
    <3>1. PICK d \in Int : d = time - since /\ t = time
      BY <1>11, <1>17, <2>4
    <3>2. counted = Plus(NoSeconds, is, d)
      BY <1>13, <2>4, <3>1
    <3>3. Total(counted) = d
      BY <1>10, <1>12, <2>2, <3>2, TotalOfPlus
    <3> QED BY <1>11, <1>16, <2>1, <3>1, <3>2, <3>3 DEF Complete
  <2> QED BY <2>3, <2>4
<1>20. Agrees(r, m, t, inInitialStates /\ ~PhaseEnds(e))
  <2>1. Claimed(m) = counted /\ ~Excepted(m)
    BY <1>16 DEF Claimed, Excepted
  <2>2. Due(r, t) = counted
    BY <1>7, <1>19 DEF Due
  <2> QED BY <1>8, <1>16, <2>1, <2>2 DEF Agrees, Matches
<1>21. only => BeforeFrame(r, m)
  BY <1>8, <1>13, <1>16 DEF BeforeFrame
<1> QED BY <1>1, <1>2, <1>3, <1>4, <1>5, <1>7, <1>9, <1>16, <1>17, <1>18, <1>19,
           <1>20, <1>21 DEF Settles

\* An entry of a host or service settles the doubt about this object, writes
\* rows of the services of a host, and leaves all others as they are.
LEMMA ObjectEntryAccounts ==
  ASSUME IInv, ReadingInv, NEW e \in Entries, ObjectEntry(e)
  PROVE  ReadingInv'
<1>1. Read(e)
  BY DEF ObjectEntry
<1>2. /\ e.kind \in Kinds /\ e.object \in Objects
      /\ DOMAIN info' = DOMAIN info \cup {e.object}
      /\ TypeOK
  BY ObjectEntryRecords DEF IInv
<1>3. PICK t \in Int : t = Clock'
  BY <1>1, ReadClock
<1>4. since \in Int /\ Only(e) \in BOOLEAN
      /\ (Only(e) => t = since) /\ (~Only(e) => t = e.time /\ e.time >= since)
  BY <1>1, <1>3, ReadClock
<1>5. meant' = [x \in DOMAIN info \cup {e.object} |->
                   IF x # e.object THEN PreparedMeant(e)[x]
                   ELSE Heard(IF e.object \notin DOMAIN info
                              THEN FirstMeant(e.time, Only(e))
                              ELSE PreparedMeant(e)[e.object], e)]
  BY <1>2 DEF ObjectEntry, Heard, Only, TypeOK
<1>6. Accounted(info'[e.object], meant'[e.object], t, Only(e), inInitialStates')
  <2>1. PICK r : r = RecordOf(e)
    OBVIOUS
  <2>2. PICK m : m = IF e.object \notin DOMAIN info
                     THEN FirstMeant(e.time, Only(e))
                     ELSE PreparedMeant(e)[e.object]
    OBVIOUS
  <2>3. Settles(e.object, r, m, e, t)
    <3>1. CASE e.object \in DOMAIN info
      BY <1>1, <1>3, <2>1, <2>2, <3>1, PreparedSettles DEF RecordOf
    <3>2. CASE e.object \notin DOMAIN info
      BY <1>1, <1>2, <1>3, <2>1, <2>2, <3>2, NewSettles DEF RecordOf
    <3> QED BY <3>1, <3>2
  <2>4. info'[e.object] = Update(e.object, r, e, Only(e))
    BY <2>1, ObjectEntryRecords
  <2>5. meant'[e.object] = Heard(m, e)
    BY <1>5, <2>2
  <2>6. Accounted(Update(e.object, r, e, Only(e)), Heard(m, e), t, Only(e),
                  inInitialStates')
    BY <1>2, <1>4, <2>3, HeardOf
  <2> QED BY <2>4, <2>5, <2>6
<1>7. ASSUME NEW x \in Told(e), x # e.object
      PROVE  Accounted(info'[x], meant'[x], t, Only(e), inInitialStates')
  <2>1. /\ x \in DOMAIN info /\ x \notin Hosts
        /\ e.object \in Hosts /\ e.kind \in Kinds \ {"initial"}
    BY <1>2, StateHistoryAssumption DEF Told, Propagates
  <2>2. PICK r, m : r = Prepared(e)[x] /\ m = PreparedMeant(e)[x]
    OBVIOUS
  <2>3. Settles(x, r, m, e, t)
    BY <1>1, <1>3, <2>1, <2>2, PreparedSettles
  <2>4. info'[x] = Update(x, r, e, Only(e)) /\ meant'[x] = m
    BY <1>5, <1>7, <2>1, <2>2, ObjectEntryRecords
  <2>5. Accounted(Update(x, r, e, Only(e)), m, t, Only(e), inInitialStates')
    BY <1>2, <1>4, <2>1, <2>3, ToldByHost
  <2> QED BY <2>4, <2>5
<1>8. ASSUME NEW x \in DOMAIN info \ (Told(e) \cup {e.object})
      PROVE  Accounted(info'[x], meant'[x], t, Only(e), inInitialStates')
  <2>1. info'[x] = Prepared(e)[x] /\ meant'[x] = PreparedMeant(e)[x]
    BY <1>5, <1>8, ObjectEntryRecords
  <2> QED BY <1>1, <1>3, <1>8, <2>1, PreparedSettles, SettledAccounts
<1>9. \A o \in DOMAIN info' :
          Accounted(info'[o], meant'[o], Clock', Only(e), inInitialStates')
  BY <1>2, <1>3, <1>6, <1>7, <1>8
<1> QED BY <1>1, <1>9, AllAccounted

\* The final report writes what is due at the end of the time frame to an object
\* whose doubt is settled.
LEMMA FinishWrites ==
  ASSUME NEW o \in Objects, NEW r \in HostServiceState(o), RowTyped(r),
         NEW t \in Int, NEW end \in 0 .. MaxTime, end = Until - 1, t <= end,
         since \in Int, since <= end, Laid(r, t)
  PROVE  LET q == FinalRow(r)
         IN /\ q.spent = IF r.mayNoLongerExist THEN Absent(r, end)
                                               ELSE Present(r, end)
            /\ Total(q.spent) >= end - since
<1>1. PICK q : q = FinalRow(r)
  OBVIOUS
<1>2. end \in Int /\ ~Refused(end) /\ end <= end
  BY StateHistoryAssumption DEF Refused
<1>3. Total(r.spent) >= r.from - since /\ r.from <= end
  BY <1>2 DEF Laid, RowTyped
<1>4. CASE ~r.mayNoLongerExist
  <2>1. q = Process(r, end, FALSE)
    BY <1>1, <1>4 DEF FinalRow
  <2>2. Written(q, r, end, FALSE)
    BY <2>1, ProcessWrites
  <2>3. Total(q.spent) >= q.from - since /\ q.from <= end
    BY <1>2, <1>3, <2>2, WrittenLaid
  <2> QED BY <1>1, <1>2, <1>4, <2>2, <2>3 DEF Written
<1>5. CASE r.mayNoLongerExist
  <2>1. PICK last : last = Process(r, r.lastKnown, FALSE)
    OBVIOUS
  <2>2. PICK known \in 0 .. MaxTime : known = r.lastKnown
    BY DEF HostServiceState
  <2>3. /\ last \in HostServiceState(o) /\ SameFlags(last, r)
        /\ Written(last, r, known, FALSE)
    BY <2>1, <2>2, ProcessSound, ProcessWrites
  <2>4. PICK absent : absent = [last EXCEPT !.state = Unmonitored]
    OBVIOUS
  <2>5. /\ absent \in HostServiceState(o) /\ absent.state = Unmonitored
        /\ absent.hasVanished => absent.mayNoLongerExist
        /\ absent.spent = last.spent /\ absent.from = last.from
    BY <2>3, <2>4 DEF HostServiceState, SameFlags, RowTyped
  <2>6. RowTyped(absent)
    BY <2>5, RecordsAreTyped
  <2>7. q = Process(absent, end, FALSE)
    BY <1>1, <1>5, <2>1, <2>4 DEF FinalRow
  <2>8. Written(q, absent, end, FALSE)
    BY <2>5, <2>7, ProcessWrites
  <2>9. known \in Int /\ known <= end /\ (Refused(known) => r.from >= since)
    BY <1>2, <1>5, <2>2 DEF Laid, RowTyped
  <2>10. Total(last.spent) >= last.from - since /\ last.from <= end
    BY <1>2, <1>3, <2>3, <2>9, WrittenLaid
  <2>11. Total(absent.spent) >= absent.from - since /\ absent.from <= end
    BY <2>5, <2>10
  <2>12. Total(q.spent) >= q.from - since /\ q.from <= end
    BY <1>2, <2>6, <2>8, <2>11, WrittenLaid
  <2>13. last.spent = LastSeen(r) /\ last.from = known
    BY <2>2, <2>3 DEF Written, LastSeen
  <2>14. q.spent = Plus(last.spent, Unmonitored, end - known) /\ q.from = end
    BY <1>2, <2>5, <2>8, <2>13 DEF Written, Present
  <2>15. q.spent = Absent(r, end)
    BY <2>2, <2>13, <2>14 DEF Absent, LastSeen
  <2> QED BY <1>1, <1>5, <2>12, <2>14, <2>15
<1> QED BY <1>4, <1>5 DEF RowTyped

\* The final report leaves every second where it is meant to be.
LEMMA FinishAccounts ==
  ASSUME IInv, ReadingInv, Finish
  PROVE  DurationsSumUp' /\ SpentAsMeant'
<1>1. /\ pc = "reading" /\ DOMAIN info' = DOMAIN info
      /\ since' = since /\ now' = now
  BY DEF Finish
<1>2. PICK end \in Int : end = Until - 1
  BY StateHistoryAssumption DEF Until
<1>3. /\ end \in 0 .. MaxTime /\ since \in Int /\ now \in Int
      /\ since <= end /\ now <= end
  BY <1>2, StateHistoryAssumption DEF Until, IInv, TypeOK
<1>4. PICK t \in Int, d \in Int :
          t = Clock /\ d = Elapsed(end) /\ end = t + d /\ t <= end
  BY <1>3 DEF Clock, Elapsed
<1>5. ASSUME NEW o \in DOMAIN info
      PROVE  /\ info'[o].spent \in Seconds /\ meant'[o].counted \in Seconds
             /\ Total(info'[o].spent) >= end - since
             /\ Total(meant'[o].counted) = end - since
             /\ Matches(info'[o].spent, meant'[o].counted, meant'[o].early)
             /\ meant'[o].early \in BOOLEAN
  <2>1. PICK r, m : r = info[o] /\ m = meant[o]
    OBVIOUS
  <2>2. /\ r \in HostServiceState(o) /\ (r.hasVanished => r.mayNoLongerExist)
        /\ m \in Meant /\ Laid(r, t) /\ Complete(m, t)
        /\ Agrees(r, m, t, inInitialStates) /\ o \in Objects
    BY <1>1, <1>4, <2>1 DEF IInv, TypeOK, ReadingInv, Objects
  <2>3. RowTyped(r)
    BY <2>2, RecordsAreTyped
  <2>4. PICK q : q = info'[o]
    OBVIOUS
  <2>5. q = FinalRow(r)
    BY <2>1, <2>4 DEF Finish
  <2>6. /\ q.spent = IF r.mayNoLongerExist THEN Absent(r, end) ELSE Present(r, end)
        /\ Total(q.spent) >= end - since
    BY <1>2, <1>3, <1>4, <2>2, <2>3, <2>5, FinishWrites
  <2>7. q.spent \in Seconds
    BY <2>3, <2>6, PresentSince, AbsentSince
  <2>8. PICK aged \in Meant : aged = Aged(m, end)
    BY <1>4, <2>2, AgedIsLater
  <2>9. Later(aged, m, d) /\ aged.gone = m.gone
    BY <1>4, <2>2, <2>8, AgedIsLater
  <2>10. Complete(aged, end)
    BY <1>3, <1>4, <2>2, <2>9, CompleteLater
  <2>11. PICK n : n = meant'[o]
    OBVIOUS
  <2>12. n = Settled(aged, aged.doubtful, FALSE)
    BY <1>2, <2>1, <2>8, <2>11 DEF Finish, IInv, TypeOK
  <2>13. aged.doubtful \in BOOLEAN /\ aged.is \in StatesOfRows
         /\ aged.counted \in Seconds /\ aged.pending \in Int
    BY DEF Meant
  <2>14. PICK is : is = IF aged.doubtful THEN Unmonitored ELSE aged.is
    OBVIOUS
  <2>15. /\ n \in Meant /\ n.counted = Plus(aged.counted, is, aged.pending)
         /\ n.pending = 0
         /\ n.early = (aged.early \/ (aged.doubtful /\ aged.restart < since))
         /\ Complete(n, end)
    BY <1>3, <2>10, <2>12, <2>13, <2>14, SettledSound
  <2>16. n.counted \in Seconds /\ n.early \in BOOLEAN
    BY <2>15 DEF Meant
  <2>17. Total(n.counted) = end - since
    <3>1. is \in StatesOfRows /\ Total(n.counted) \in Int
      BY <2>13, <2>14, <2>16, TotalOfPlus DEF StatesOfRows
    <3> QED BY <2>15, <3>1 DEF Complete
  \* The end of the report is the end of the initial states.
  <2>18. PICK ends \in BOOLEAN : ends = TRUE
    OBVIOUS
  <2>19. PICK vanished \in BOOLEAN :
             vanished = (r.hasVanished \/ (ends /\ r.mayNoLongerExist))
    BY <2>3 DEF RowTyped
  <2>20. PICK final : final = [r EXCEPT !.hasVanished = vanished]
    OBVIOUS
  <2>21. /\ Kept(final, r) /\ final.lastKnown = r.lastKnown
         /\ final.mayNoLongerExist = r.mayNoLongerExist
         /\ final.hasVanished = (r.hasVanished \/ (ends /\ r.mayNoLongerExist))
    BY <2>2, <2>19, <2>20 DEF HostServiceState, Kept
  <2>22. PICK gone \in BOOLEAN : gone = (m.gone \/ (ends /\ m.doubtful))
    BY <2>2 DEF Meant
  <2>23. PICK last : last = [aged EXCEPT !.gone = gone]
    OBVIOUS
  <2>24. /\ last.is = aged.is /\ last.doubtful = aged.doubtful
         /\ last.early = aged.early /\ last.restart = aged.restart
         /\ last.pending = aged.pending /\ last.counted = aged.counted
         /\ last.gone = (m.gone \/ (ends /\ m.doubtful))
    BY <2>22, <2>23 DEF Meant
  <2>25. Later(last, m, d)
    BY <2>9, <2>24 DEF Later
  <2>26. Agrees(final, last, end, inInitialStates /\ ~ends)
    <3>1. inInitialStates \in BOOLEAN
      BY DEF IInv, TypeOK
    <3>2. r.mayNoLongerExist /\ Refused(r.lastKnown) => r.from >= since
      BY <2>2 DEF Laid
    <3> QED BY <1>3, <1>4, <2>2, <2>3, <2>21, <2>24, <2>25, <3>1, <3>2, AgreesLater
  <2>27. /\ ~last.doubtful => last.pending = 0 /\ ~last.gone
         /\ last.doubtful => last.gone
         /\ Matches(Due(final, end), Claimed(last), Excepted(last))
    BY <2>13, <2>18, <2>24, <2>26 DEF Agrees
  <2>28. q.spent = Due(final, end)
    BY <2>3, <2>6, <2>18, <2>21 DEF Due, Absent, Present, Kept, RowTyped
  <2>29. Claimed(last) = n.counted
    <3>1. CASE aged.doubtful
      BY <2>14, <2>15, <2>24, <3>1 DEF Claimed
    <3>2. CASE ~aged.doubtful
      BY <2>13, <2>14, <2>15, <2>24, <2>27, <3>2, PlusNothing DEF Claimed
    <3> QED BY <2>13, <3>1, <3>2
  <2>30. Excepted(last) = n.early
    BY <2>13, <2>15, <2>24, <2>27 DEF Excepted
  <2> QED BY <2>4, <2>6, <2>7, <2>11, <2>16, <2>17, <2>27, <2>28, <2>29, <2>30
<1>6. DurationsSumUp'
  <2>1. ASSUME NEW o \in DOMAIN info', ~meant'[o].early
        PROVE  Total(info'[o].spent) = end - since
    <3>1. info'[o].spent = meant'[o].counted
      BY <1>1, <1>5, <2>1 DEF Matches
    <3> QED BY <1>1, <1>5, <3>1
  <2> QED BY <1>1, <1>2, <1>5, <2>1 DEF DurationsSumUp
<1>7. SpentAsMeant'
  <2>1. ASSUME NEW o \in DOMAIN info', NEW x \in StatesOfRows
        PROVE  /\ info'[o].spent[x] >= meant'[o].counted[x]
               /\ ~meant'[o].early => info'[o].spent[x] = meant'[o].counted[x]
    <3>1. AtLeast(info'[o].spent, meant'[o].counted)
      BY <1>1, <1>5, MatchesAtLeast
    <3> QED BY <1>1, <1>5, <3>1 DEF AtLeast, Matches
  <2> QED BY <2>1 DEF SpentAsMeant, StatesOfRows
<1> QED BY <1>6, <1>7

\* The inductive invariant of the seconds, on top of IInv.
SecondsInv == ReadingInv /\ DurationsSumUp /\ SpentAsMeant

\* Before the first entry no second is spent.
LEMMA InitSeconds == Init => SecondsInv
  BY DEF Init, SecondsInv, ReadingInv, DurationsSumUp, SpentAsMeant

\* Every entry, and the end of the report, keeps the accounts of the seconds.
LEMMA NextSeconds == IInv /\ SecondsInv /\ [Next]_vars => SecondsInv'
<1> SUFFICES ASSUME IInv, SecondsInv, [Next]_vars PROVE SecondsInv'
  OBVIOUS
<1>1. ReadingInv
  BY DEF SecondsInv
<1>2. ASSUME ReadingInv', pc' = "reading"
      PROVE  SecondsInv'
  BY <1>2 DEF SecondsInv, DurationsSumUp, SpentAsMeant
<1>3. ASSUME NEW from \in 0 .. MaxTime, NEW services \in SUBSET Services,
             StartQuery(from, services)
      PROVE  SecondsInv'
  <2>1. /\ pc' = "reading" /\ info' = << >> /\ DOMAIN info' = {}
        /\ onlyUpdate' /\ now' = 0 /\ since' = from
    BY <1>3 DEF StartQuery
  <2>2. 0 < from \/ 0 = from
    BY StateHistoryAssumption
  <2>3. Clock' = since'
    BY <2>1, <2>2 DEF Clock
  <2>4. ReadingInv'
    BY <2>1, <2>3 DEF ReadingInv
  <2> QED BY <1>2, <2>1, <2>4
<1>4. ASSUME NEW e \in Entries, IgnoreEntry(e) PROVE SecondsInv'
  <2>1. pc' = "reading"
    BY <1>4 DEF IgnoreEntry, Read
  <2> QED BY <1>1, <1>2, <1>4, <2>1, IgnoreEntryAccounts
<1>5. ASSUME NEW e \in Entries, ObjectEntry(e) PROVE SecondsInv'
  <2>1. pc' = "reading"
    BY <1>5 DEF ObjectEntry, Read
  <2> QED BY <1>1, <1>2, <1>5, <2>1, ObjectEntryAccounts
<1>6. ASSUME NEW e \in Entries, TimeperiodTransition(e) PROVE SecondsInv'
  <2>1. pc' = "reading"
    BY <1>6 DEF TimeperiodTransition, Read
  <2> QED BY <1>1, <1>2, <1>6, <2>1, TimeperiodTransitionAccounts
<1>7. ASSUME NEW e \in Entries, LogInitialStates(e) PROVE SecondsInv'
  <2>1. pc' = "reading"
    BY <1>7 DEF LogInitialStates, Read
  <2> QED BY <1>1, <1>2, <1>7, <2>1, LogInitialStatesAccounts
<1>8. CASE Finish
  <2>1. pc' = "done"
    BY <1>8 DEF Finish
  <2>2. DurationsSumUp' /\ SpentAsMeant'
    BY <1>1, <1>8, FinishAccounts
  <2> QED BY <2>1, <2>2 DEF SecondsInv, ReadingInv
<1>9. CASE Abort
  BY <1>9 DEF Abort, SecondsInv, ReadingInv, DurationsSumUp, SpentAsMeant
<1>10. CASE UNCHANGED vars
  <2>1. /\ pc' = pc /\ since' = since /\ now' = now /\ onlyUpdate' = onlyUpdate
        /\ info' = info /\ meant' = meant /\ inInitialStates' = inInitialStates
    BY <1>10 DEF vars
  <2>2. Clock' = Clock
    BY <2>1 DEF Clock
  <2>3. ReadingInv'
    BY <1>1, <2>1, <2>2 DEF ReadingInv, BeforeFrame, Laid, Complete, Agrees, Due,
                            Absent, Begin, Refused, Excepted
  <2>4. DurationsSumUp' /\ SpentAsMeant'
    BY <2>1 DEF SecondsInv, DurationsSumUp, SpentAsMeant
  <2> QED BY <2>3, <2>4 DEF SecondsInv
<1> QED BY <1>3, <1>4, <1>5, <1>6, <1>7, <1>8, <1>9, <1>10 DEF Next

\* The inductive invariant of the seconds.
LEMMA SecondsInvariance == Spec => []SecondsInv
  BY Invariance, InitSeconds, NextSeconds, PTL DEF Spec

\* The rows of a finished report cover its time frame, for every object, every
\* log and every time frame: the durations that pass the filter of the query sum
\* up to the frame, so that the duration_part columns sum up to 1.  They sum up
\* to no less for any object, and to more only for one that is found to be
\* missing since a restart before the frame.
THEOREM RowsCoverTheFrame == Spec => []DurationsSumUp
<1>1. SecondsInv => DurationsSumUp
  BY DEF SecondsInv
<1> QED BY SecondsInvariance, <1>1, PTL

\* And every one of these seconds belongs to the state reported last, or to
\* UNMONITORED from a restart on after which the object was missing.  An object
\* that was missing since a restart before the time frame, and only such an
\* object, may get more of a state, but no less.
THEOREM SecondsAreSpentAsMeant == Spec => []SpentAsMeant
<1>1. SecondsInv => SpentAsMeant
  BY DEF SecondsInv
<1> QED BY SecondsInvariance, <1>1, PTL
================================================================================
