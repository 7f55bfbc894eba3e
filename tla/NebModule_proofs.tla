-------------------------- MODULE NebModule_proofs --------------------------
(***************************************************************************)
(* Proofs about NebModule, for any set of waiting queries, of downtimes    *)
(* and comments, and of timeperiods.                                       *)
(***************************************************************************)
EXTENDS NebModule, Sequences, TLAPS

Changes == [registry : Registries, type : ChangeTypes, id : 0 .. End - 1]
Walks == [registry : Registries, at : Nat, answered : SUBSET Nat,
          lasting : SUBSET Nat, ever : SUBSET Nat]
PeriodStates == {"in", "out", Unknown}

RegistriesTyped ==
    /\ listed \in [Registries -> SUBSET (0 .. End - 1)]
    /\ entries \in [Registries -> SUBSET (0 .. End - 1)]
    /\ change \in {NoChange} \cup Changes
    /\ walk \in [Waiters -> {NoWalk, Lost} \cup Walks]

PeriodsTyped ==
    /\ inside \subseteq Periods
    /\ cache \in [Periods -> PeriodStates]
    /\ recent \in BOOLEAN
    /\ logged \in [Periods -> PeriodStates]
    /\ flipped \subseteq Periods

------------------------------------------------------------------------------
\* The steps that touch the periods, their cache or the phase; all others leave
\* them alone.
LEMMA PeriodsFrame ==
  ASSUME Next
  PROVE  \/ NebmoduleInit
         \/ ProcessStart
         \/ ProcessEventLoopStart
         \/ BrokerEvent
         \/ MinutePasses
         \/ \E p \in Periods : PeriodFlips(p)
         \/ TerminateThreads
         \/ NebmoduleDeinit
         \/ UNCHANGED <<phase, periodVars>>
<1>1. ASSUME NEW r \in Registries, BeginChange(r) PROVE UNCHANGED <<phase, periodVars>>
  BY <1>1 DEF BeginChange
<1>2. ASSUME EndChange PROVE UNCHANGED <<phase, periodVars>>
  BY <1>2 DEF EndChange
<1>3. ASSUME BrokerCheck \/ BrokerLog \/ BrokerCommand \/ BrokerState \/ BrokerProgram
      PROVE  UNCHANGED <<phase, periodVars>>
  BY <1>3 DEF BrokerCheck, BrokerLog, BrokerCommand, BrokerState, BrokerProgram, Notifies
<1>4. ASSUME Notify PROVE UNCHANGED <<phase, periodVars>>
  BY <1>4 DEF Notify
<1>5. ASSUME NEW w \in Waiters, Call(w) \/ Wait(w) PROVE UNCHANGED <<phase, periodVars>>
  BY <1>5 DEF Call, Wait
<1>6. ASSUME NEW w \in Waiters, BeginWalk(w) \/ WalkOn(w) \/ EndWalk(w)
      PROVE  UNCHANGED <<phase, periodVars>>
  BY <1>6 DEF BeginWalk, WalkOn, EndWalk
<1> QED BY <1>1, <1>2, <1>3, <1>4, <1>5, <1>6 DEF Next

\* What queries and the log are told follows the clock once it is known; it is
\* known from the first update on, which precedes the threads.
PeriodsInv ==
    /\ PeriodsTyped
    /\ phase \in {"running", "stopping"} \/ recent =>
           \A p \in Periods : cache[p] # Unknown
    /\ \A p \in Periods :
           cache[p] # Unknown =>
               /\ p \notin flipped => cache[p] = IsIn(p)
               /\ logged[p] \in {cache[p], IsIn(p)}

\* In the beginning no state of a period is known, told or cached.
LEMMA PeriodsInit == Init => PeriodsInv
BY DEF Init, PeriodsInv, PeriodsTyped, PeriodStates, Unknown

\* Every step of the callbacks and threads keeps what is known of the periods.
LEMMA PeriodsNext == PeriodsInv /\ [Next]_vars => PeriodsInv'
<1> SUFFICES ASSUME PeriodsInv, [Next]_vars PROVE PeriodsInv'
  OBVIOUS
<1> USE DEF PeriodsInv, PeriodsTyped, PeriodStates, Unknown, IsIn
<1>1. CASE NebmoduleInit
  BY <1>1 DEF NebmoduleInit, periodVars
<1>2. CASE ProcessStart
  BY <1>2 DEF ProcessStart, periodVars
<1>3. ASSUME NEW cached \in [Periods -> PeriodStates],
             NEW told \in [Periods -> PeriodStates],
             recent => \A p \in Periods : cached[p] # Unknown,
             \A p \in Periods : cached[p] # Unknown =>
                 /\ p \notin flipped => cached[p] = IsIn(p)
                 /\ told[p] \in {cached[p], IsIn(p)},
             logged' = LoggedByUpdate(cached, told), Update(cached),
             UNCHANGED inside
      PROVE  PeriodsInv'
  <2>1. CASE recent
    BY <1>3, <2>1 DEF LoggedByUpdate, Update
  <2>2. CASE ~recent
    BY <1>3, <2>2 DEF LoggedByUpdate, Update
  <2> QED BY <2>1, <2>2
<1>4. CASE ProcessEventLoopStart
  BY <1>3, <1>4 DEF ProcessEventLoopStart
<1>5. CASE BrokerEvent
  <2> PICK rotation \in BOOLEAN :
        LET logsAll == rotation /\ phase = "running"
            cached == IF logsAll THEN WithCurrent(cache) ELSE cache
            told == IF logsAll THEN [p \in Periods |-> IsIn(p)] ELSE logged
        IN  logged' = LoggedByUpdate(cached, told) /\ Update(cached)
    BY <1>5 DEF BrokerEvent
  <2> phase' = phase /\ phase \in {"started", "running"} /\ UNCHANGED inside
    BY <1>5 DEF BrokerEvent
  <2>1. CASE rotation /\ phase = "running"
    <3>1. WithCurrent(cache) = cache
      BY <2>1 DEF WithCurrent
    <3> DEFINE told == [p \in Periods |-> IsIn(p)]
    <3>2. logged' = LoggedByUpdate(cache, told) /\ Update(cache)
      BY <2>1, <3>1
    <3>3. told \in [Periods -> PeriodStates] /\ \A p \in Periods : told[p] = IsIn(p)
      OBVIOUS
    <3> HIDE DEF told
    <3> QED BY <1>3, <2>1, <3>2, <3>3
  <2>2. CASE ~(rotation /\ phase = "running")
    BY <1>3, <2>2
  <2> QED BY <2>1, <2>2
<1>6. CASE MinutePasses
  BY <1>6 DEF MinutePasses
<1>7. ASSUME NEW p \in Periods, PeriodFlips(p) PROVE PeriodsInv'
  BY <1>7 DEF PeriodFlips
<1>8. CASE TerminateThreads
  BY <1>8 DEF TerminateThreads, periodVars
<1>9. CASE NebmoduleDeinit
  BY <1>9 DEF NebmoduleDeinit
<1>10. CASE UNCHANGED <<phase, periodVars>>
  BY <1>10 DEF periodVars
<1>11. CASE UNCHANGED vars
  BY <1>11 DEF vars, periodVars
<1> QED BY <1>1, <1>2, <1>4, <1>5, <1>6, <1>7, <1>8, <1>9, <1>10, <1>11, PeriodsFrame

\* From the start of the threads to their end queries find every period in the
\* cache, and cache and log tell the state at the last update.
THEOREM PeriodsAreTold == Spec => []PeriodsTold
<1>1. PeriodsInv => PeriodsTold
  BY DEF PeriodsInv, PeriodsTold
<1> QED BY <1>1, PeriodsInit, PeriodsNext, PTL DEF Spec
------------------------------------------------------------------------------
\* The changes of the registries that a callback makes.
LEMMA ChangesRegistry == RegistriesTyped /\ change # NoChange => change \in Changes
BY DEF RegistriesTyped

\* A change of a registry leaves ids of downtimes and comments in it.
LEMMA RegisterTyped ==
  ASSUME NEW keys \in SUBSET (0 .. End - 1), NEW type \in ChangeTypes,
         NEW id \in 0 .. End - 1
  PROVE  Register(keys, type, id) \in SUBSET (0 .. End - 1)
BY DEF Register, ChangeTypes

\* A change leaves a walk at a position that there is.
LEMMA DisturbedTyped ==
  ASSUME NEW k \in {NoWalk, Lost} \cup Walks, NEW r \in Registries,
         NEW type \in ChangeTypes, NEW id \in 0 .. End - 1
  PROVE  Disturbed(k, r, type, id) \in {NoWalk, Lost} \cup Walks
<1>1. CASE k.registry # r \/ type = "start"
  BY <1>1 DEF Disturbed
<1>2. CASE k.registry = r /\ type # "start" /\ k.at = id
  BY <1>2 DEF Disturbed
<1>3. CASE k.registry = r /\ type # "start" /\ k.at # id
  <2>1. k \in Walks
    BY <1>3 DEF NoWalk, Lost, Registries
  <2> DEFINE lasting == IF type = "delete" THEN k.lasting \ {id} ELSE k.lasting
             ever == IF type = "delete" THEN k.ever ELSE k.ever \cup {id}
  <2>2. Disturbed(k, r, type, id) = [k EXCEPT !.lasting = lasting, !.ever = ever]
    BY <1>3 DEF Disturbed
  <2>3. lasting \in SUBSET Nat /\ ever \in SUBSET Nat
    BY <2>1, NebModuleAssumption DEF Walks
  <2> HIDE DEF lasting, ever
  <2> QED BY <2>1, <2>2, <2>3 DEF Walks
<1> QED BY <1>1, <1>2, <1>3

\* The steps that touch the registries and the walks over them.
LEMMA RegistriesFrame ==
  ASSUME Next
  PROVE  \/ \E r \in Registries : BeginChange(r)
         \/ EndChange
         \/ \E w \in Waiters : BeginWalk(w) \/ WalkOn(w) \/ EndWalk(w)
         \/ NebmoduleDeinit
         \/ /\ UNCHANGED <<listed, entries, change, walk>>
            /\ phase = "stopped" => phase' = "stopped"
<1> DEFINE Untouched == /\ UNCHANGED <<listed, entries, change, walk>>
                        /\ phase = "stopped" => phase' = "stopped"
<1>1. ASSUME \/ NebmoduleInit
             \/ ProcessStart
             \/ ProcessEventLoopStart
             \/ BrokerEvent
             \/ MinutePasses
             \/ TerminateThreads
      PROVE  Untouched
  BY <1>1 DEF NebmoduleInit, ProcessStart, ProcessEventLoopStart, BrokerEvent,
              MinutePasses, TerminateThreads
<1>2. ASSUME NEW p \in Periods, PeriodFlips(p)
      PROVE  Untouched
  BY <1>2 DEF PeriodFlips
<1>3. ASSUME BrokerCheck \/ BrokerLog \/ BrokerCommand \/ BrokerState \/ BrokerProgram
      PROVE  Untouched
  BY <1>3 DEF BrokerCheck, BrokerLog, BrokerCommand, BrokerState, BrokerProgram, Notifies
<1>4. ASSUME Notify PROVE Untouched
  BY <1>4 DEF Notify
<1>5. ASSUME NEW w \in Waiters, Call(w) \/ Wait(w)
      PROVE  Untouched
  BY <1>5 DEF Call, Wait
<1> QED BY <1>1, <1>2, <1>3, <1>4, <1>5 DEF Next

\* A walk over a registry with these keys stands at an entry or at the end; all
\* that lasts is still there, and all that is there was listed during the walk.
SoundOver(k, keys) ==
    /\ k.at = End \/ k.at \in keys
    /\ k.lasting \subseteq keys
    /\ keys \subseteq k.ever
    /\ \A i \in k.lasting : i < k.at => i \in k.answered
    /\ k.answered \subseteq k.ever
    /\ \A i \in k.answered : i < k.at

\* A change of the registry keeps a walk sound or loses it.
LEMMA DisturbedSound ==
  ASSUME NEW k \in Walks, NEW keys \in SUBSET (0 .. End - 1),
         NEW type \in ChangeTypes, NEW id \in 0 .. End - 1,
         SoundOver(k, keys), Disturbed(k, k.registry, type, id) \in Walks
  PROVE  /\ SoundOver(Disturbed(k, k.registry, type, id), Register(keys, type, id))
         /\ Disturbed(k, k.registry, type, id).registry = k.registry
<1> DEFINE d == Disturbed(k, k.registry, type, id)
<1>1. CASE type = "start"
  BY <1>1 DEF Disturbed, Register
<1>2. CASE type # "start"
  <2>1. k.at # id
    BY <1>2 DEF Disturbed, Walks, Lost, Registries
  <2> DEFINE lasting == IF type = "delete" THEN k.lasting \ {id} ELSE k.lasting
             ever == IF type = "delete" THEN k.ever ELSE k.ever \cup {id}
  <2>2. d = [k EXCEPT !.lasting = lasting, !.ever = ever]
    BY <1>2, <2>1 DEF Disturbed
  <2> HIDE DEF lasting, ever, d
  <2>3. /\ d.at = k.at /\ d.answered = k.answered /\ d.registry = k.registry
        /\ d.lasting = lasting /\ d.ever = ever
    BY <2>2 DEF Walks
  <2>4. Register(keys, type, id) = IF type = "delete" THEN keys \ {id} ELSE keys \cup {id}
    BY <1>2 DEF Register, ChangeTypes
  <2>5. SoundOver(d, Register(keys, type, id))
    BY <2>1, <2>3, <2>4 DEF SoundOver, lasting, ever
  <2> QED BY <2>3, <2>5 DEF d
<1> QED BY <1>1, <1>2

\* A walk that moves on stays sound.
LEMMA MovedSound ==
  ASSUME NEW k \in Walks, NEW keys \in SUBSET (0 .. End - 1),
         NEW at \in keys \cup {End}, SoundOver(k, keys), k.at # End,
         ComesFirst(at, keys, k.at + 1)
  PROVE  SoundOver([k EXCEPT !.answered = @ \cup {k.at}, !.at = at], keys)
<1> DEFINE d == [k EXCEPT !.answered = @ \cup {k.at}, !.at = at]
<1>1. /\ d.at = at /\ d.answered = k.answered \cup {k.at}
      /\ d.lasting = k.lasting /\ d.ever = k.ever
  BY DEF Walks
<1>2. k.at \in keys /\ keys \subseteq Nat /\ at \in Nat /\ k.answered \subseteq Nat
  BY NebModuleAssumption DEF SoundOver, Walks
<1>3. k.at < at
  BY <1>2 DEF ComesFirst
<1>4. ASSUME NEW i \in k.lasting, i < at PROVE i \in k.answered \cup {k.at}
  <2>1. i \in keys /\ i \in Nat /\ k.at \in Nat
    BY <1>2 DEF SoundOver
  <2>2. ~(i >= k.at + 1)
    BY <1>2, <1>4, <2>1 DEF ComesFirst
  <2>3. i < k.at \/ i = k.at
    BY <2>1, <2>2
  <2> QED BY <2>3 DEF SoundOver
<1>5. ASSUME NEW i \in k.answered \cup {k.at} PROVE i < at
  <2>1. CASE i = k.at
    BY <1>3, <2>1
  <2>2. CASE i \in k.answered
    <3>1. i \in Nat /\ k.at \in Nat /\ i < k.at
      BY <1>2, <2>2 DEF SoundOver
    <3> QED BY <1>2, <1>3, <3>1
  <2> QED BY <2>1, <2>2
<1> HIDE DEF d
<1>6. SoundOver(d, keys)
  BY <1>1, <1>2, <1>4, <1>5 DEF SoundOver
<1> QED BY <1>6 DEF d

\* Outside of a change the registry has what Nagios lists.
ListedInv ==
    phase # "stopped" =>
        \A r \in Registries :
            listed[r] = IF change.registry = r
                        THEN Register(entries[r], change.type, change.id)
                        ELSE entries[r]

RegistriesInv ==
    /\ RegistriesTyped
    /\ ListedInv
    /\ \A w \in Waiters :
           walk[w] \in Walks => SoundOver(walk[w], entries[walk[w].registry])

\* In the beginning there is nothing to list and nobody who walks.
LEMMA RegistriesInit == Init => RegistriesInv
BY DEF Init, RegistriesInv, RegistriesTyped, ListedInv, Walks, Registries, NoWalk, NoChange

\* The marks of no walk and of a lost one are not walks.
LEMMA NotWalks == NoWalk \notin Walks /\ Lost \notin Walks /\ NoChange \notin Changes
BY DEF Walks, Changes, NoWalk, Lost, NoChange, Registries

\* Every step of a change and of a walk keeps the registries listed and the walks
\* sound.
LEMMA RegistriesNext == RegistriesInv /\ [Next]_vars => RegistriesInv'
<1> SUFFICES ASSUME RegistriesInv, [Next]_vars PROVE RegistriesInv'
  OBVIOUS
<1> USE DEF RegistriesInv, RegistriesTyped
<1>1. ASSUME NEW r \in Registries, BeginChange(r) PROVE RegistriesInv'
  <2>1. PICK type \in ChangeTypes, id \in Ids[r] :
          /\ change' = [registry |-> r, type |-> type, id |-> id]
          /\ listed' = [listed EXCEPT ![r] = Register(@, type, id)]
    BY <1>1 DEF BeginChange
  <2>2. id \in 0 .. End - 1
    BY NebModuleAssumption
  <2>3. UNCHANGED <<entries, walk, phase>> /\ change = NoChange /\ phase # "stopped"
    BY <1>1 DEF BeginChange, Calls
  <2>4. change' \in Changes
    BY <2>1, <2>2 DEF Changes
  <2>5. listed' \in [Registries -> SUBSET (0 .. End - 1)]
    BY <2>1, <2>2, RegisterTyped
  <2>6. \A q \in Registries : listed[q] = entries[q]
    BY <2>3 DEF ListedInv, NoChange, Registries
  <2>7. ListedInv'
    BY <2>1, <2>3, <2>6 DEF ListedInv
  <2> QED BY <2>3, <2>4, <2>5, <2>7
<1>2. CASE EndChange
  <2> DEFINE r == change.registry
             type == change.type
             id == change.id
  <2>1. /\ entries' = [entries EXCEPT ![r] = Register(@, type, id)]
        /\ walk' = [w \in Waiters |-> Disturbed(walk[w], r, type, id)]
        /\ change' = NoChange
        /\ UNCHANGED <<phase, listed>>
    BY <1>2 DEF EndChange
  <2>2. r \in Registries /\ type \in ChangeTypes /\ id \in 0 .. End - 1
    BY <1>2, ChangesRegistry DEF EndChange, Changes
  <2> HIDE DEF r, type, id
  <2>3. entries' \in [Registries -> SUBSET (0 .. End - 1)]
    BY <2>1, <2>2, RegisterTyped
  <2>4. walk' \in [Waiters -> {NoWalk, Lost} \cup Walks]
    BY <2>1, <2>2, DisturbedTyped
  <2>5. ListedInv'
    <3>1. ASSUME NEW q \in Registries, phase # "stopped" PROVE listed[q] = entries'[q]
      BY <2>1, <2>2, <3>1 DEF ListedInv, r, type, id
    <3>2. change'.registry \notin Registries
      BY <2>1 DEF NoChange, Registries
    <3> QED BY <2>1, <3>1, <3>2 DEF ListedInv
  <2>6. ASSUME NEW w \in Waiters, walk'[w] \in Walks
        PROVE  SoundOver(walk'[w], entries'[walk'[w].registry])
    <3>1. walk'[w] = Disturbed(walk[w], r, type, id)
      BY <2>1
    <3>2. walk[w] \in Walks
      <4>1. NoWalk.registry # r /\ Lost.registry # r
        BY <2>2 DEF NoWalk, Lost, Registries
      <4>2. walk[w] \in {NoWalk, Lost} => walk'[w] = walk[w]
        BY <3>1, <4>1 DEF Disturbed
      <4> QED BY <2>6, <4>2, NotWalks
    <3>3. walk[w].registry \in Registries /\ SoundOver(walk[w], entries[walk[w].registry])
      BY <3>2 DEF Walks
    <3>4. CASE walk[w].registry = r
      BY <2>1, <2>2, <2>6, <3>1, <3>2, <3>3, <3>4, DisturbedSound
    <3>5. CASE walk[w].registry # r
      <4>1. walk'[w] = walk[w]
        BY <3>1, <3>5 DEF Disturbed
      <4> QED BY <2>1, <3>3, <3>5, <4>1
    <3> QED BY <3>4, <3>5
  <2> QED BY <2>1, <2>3, <2>4, <2>5, <2>6
<1>3. ASSUME NEW w \in Waiters, BeginWalk(w) PROVE RegistriesInv'
  <2>1. PICK r \in Registries : \E at \in entries[r] \cup {End} :
          /\ ComesFirst(at, entries[r], 0)
          /\ walk' = [walk EXCEPT ![w] =
                IF change.registry = r THEN Lost
                ELSE [registry |-> r, at |-> at, answered |-> {},
                      lasting |-> listed[r], ever |-> listed[r]]]
    BY <1>3 DEF BeginWalk
  <2>2. PICK at \in entries[r] \cup {End} :
          /\ ComesFirst(at, entries[r], 0)
          /\ walk' = [walk EXCEPT ![w] =
                IF change.registry = r THEN Lost
                ELSE [registry |-> r, at |-> at, answered |-> {},
                      lasting |-> listed[r], ever |-> listed[r]]]
    BY <2>1
  <2>3. UNCHANGED <<phase, listed, entries, change>> /\ phase = "running"
    BY <1>3 DEF BeginWalk
  <2>4. ListedInv'
    BY <2>3 DEF ListedInv
  <2>5. CASE change.registry = r
    <3>1. walk' = [walk EXCEPT ![w] = Lost]
      BY <2>2, <2>5
    <3> QED BY <2>3, <2>4, <3>1, NotWalks
  <2>6. CASE change.registry # r
    <3> DEFINE k == [registry |-> r, at |-> at, answered |-> {},
                     lasting |-> listed[r], ever |-> listed[r]]
    <3>1. walk' = [walk EXCEPT ![w] = k]
      BY <2>2, <2>6
    <3>2. listed[r] = entries[r] /\ entries[r] \in SUBSET (0 .. End - 1)
      BY <2>3, <2>6 DEF ListedInv
    <3>3. k \in Walks /\ k.registry = r
      BY <3>2, NebModuleAssumption DEF Walks
    <3>4. SoundOver(k, entries[r])
      <4>1. \A i \in listed[r] : ~(i < at)
        BY <2>2, <3>2, NebModuleAssumption DEF ComesFirst
      <4> QED BY <3>2, <4>1 DEF SoundOver
    <3> HIDE DEF k
    <3> QED BY <2>3, <2>4, <3>1, <3>3, <3>4
  <2> QED BY <2>5, <2>6
<1>4. ASSUME NEW w \in Waiters, WalkOn(w) PROVE RegistriesInv'
  <2> DEFINE k == walk[w]
             keys == entries[k.registry]
  <2>1. k \in Walks /\ k.at # End
    BY <1>4 DEF WalkOn
  <2>2. PICK at \in keys \cup {End} :
          /\ ComesFirst(at, keys, k.at + 1)
          /\ walk' = [walk EXCEPT ![w] =
                IF change.registry = k.registry THEN Lost
                ELSE [k EXCEPT !.answered = @ \cup {k.at}, !.at = at]]
    BY <1>4 DEF WalkOn
  <2>3. UNCHANGED <<phase, listed, entries, change>>
    BY <1>4 DEF WalkOn
  <2>4. ListedInv'
    BY <2>3 DEF ListedInv
  <2>5. CASE change.registry = k.registry
    <3>1. walk' = [walk EXCEPT ![w] = Lost]
      BY <2>2, <2>5
    <3> QED BY <2>3, <2>4, <3>1, NotWalks
  <2>6. CASE change.registry # k.registry
    <3> DEFINE d == [k EXCEPT !.answered = @ \cup {k.at}, !.at = at]
    <3>1. walk' = [walk EXCEPT ![w] = d]
      BY <2>2, <2>6
    <3>2. keys \in SUBSET (0 .. End - 1) /\ SoundOver(k, keys)
      BY <2>1 DEF Walks
    <3>3. SoundOver(d, keys)
      BY <2>1, <2>2, <3>2, MovedSound
    <3>4. at \in Nat /\ k.at \in Nat
      BY <2>1, <3>2, NebModuleAssumption DEF Walks
    <3>5. d \in Walks /\ d.registry = k.registry
      BY <2>1, <3>4 DEF Walks
    <3> HIDE DEF d
    <3> QED BY <2>3, <2>4, <3>1, <3>3, <3>5
  <2> QED BY <2>5, <2>6
<1>5. ASSUME NEW w \in Waiters, EndWalk(w) PROVE RegistriesInv'
  BY <1>5, NotWalks DEF EndWalk, ListedInv
<1>6. CASE NebmoduleDeinit
  BY <1>6, NotWalks DEF NebmoduleDeinit, ListedInv
<1>7. CASE UNCHANGED <<listed, entries, change, walk>>
           /\ (phase = "stopped" => phase' = "stopped")
  BY <1>7 DEF ListedInv
<1>8. CASE UNCHANGED vars
  BY <1>8 DEF vars, ListedInv
<1> QED BY <1>1, <1>2, <1>3, <1>4, <1>5, <1>6, <1>7, <1>8, RegistriesFrame

\* A walk that is not lost has answered all that Nagios had all along before its
\* position, and nothing that Nagios did not have.
THEOREM WalksAreSound == Spec => []WalksSeeWhatLasts
<1>1. RegistriesInv => WalksSeeWhatLasts
  BY DEF RegistriesInv, RegistriesTyped, WalksSeeWhatLasts, SoundOver
<1> QED BY <1>1, RegistriesInit, RegistriesNext, PTL DEF Spec

------------------------------------------------------------------------------
\* The callbacks of the registries pass a kind of Triggers to notify_all.
LEMMA RegistryKinds == \A r \in Registries : <<r>> \in Triggers!Callbacks
BY DEF Registries, Triggers!Callbacks

\* What is no step of WaitTriggers leaves its variables alone.
LEMMA StepsImplement == RegistriesInv /\ [Next]_vars => [Triggers!Next]_(Triggers!vars)
<1> SUFFICES ASSUME RegistriesInv, [Next]_vars
             PROVE  Triggers!Next \/ UNCHANGED triggerVars
  BY DEF triggerVars, Triggers!vars, Triggers!waiterVars
<1>1. ASSUME \/ NebmoduleInit
             \/ ProcessStart
             \/ ProcessEventLoopStart
             \/ BrokerEvent
             \/ MinutePasses
             \/ TerminateThreads
             \/ NebmoduleDeinit
      PROVE  UNCHANGED triggerVars
  BY <1>1 DEF NebmoduleInit, ProcessStart, ProcessEventLoopStart, BrokerEvent,
              MinutePasses, TerminateThreads, NebmoduleDeinit
<1>2. ASSUME NEW p \in Periods, PeriodFlips(p) PROVE UNCHANGED triggerVars
  BY <1>2 DEF PeriodFlips
<1>3. ASSUME NEW r \in Registries, BeginChange(r) PROVE UNCHANGED triggerVars
  BY <1>3 DEF BeginChange
<1>4. ASSUME EndChange PROVE Triggers!Next
  <2>1. change.registry \in Registries
    BY <1>4, ChangesRegistry DEF EndChange, RegistriesInv, Changes
  <2>2. Triggers!Event(<<change.registry>>)
    BY <1>4 DEF EndChange
  <2> QED BY <2>1, <2>2, RegistryKinds DEF Triggers!Next
<1>5. ASSUME BrokerCheck \/ BrokerLog \/ BrokerCommand \/ BrokerState \/ BrokerProgram
      PROVE  Triggers!Next
  <2>1. \E kinds \in Triggers!Callbacks : Triggers!Event(kinds)
    BY <1>5 DEF BrokerCheck, BrokerLog, BrokerCommand, BrokerState, BrokerProgram,
                Notifies, Triggers!Callbacks
  <2> QED BY <2>1 DEF Triggers!Next
<1>6. ASSUME Notify PROVE Triggers!Next
  BY <1>6 DEF Notify, Triggers!Next
<1>7. ASSUME NEW w \in Waiters, Call(w) \/ Wait(w) PROVE Triggers!Next
  BY <1>7 DEF Call, Wait, Triggers!Next
<1>8. ASSUME NEW w \in Waiters, BeginWalk(w) \/ WalkOn(w) \/ EndWalk(w)
      PROVE  UNCHANGED triggerVars
  BY <1>8 DEF BeginWalk, WalkOn, EndWalk
<1>9. CASE UNCHANGED vars
  BY <1>9 DEF vars
<1> QED BY <1>1, <1>2, <1>3, <1>4, <1>5, <1>6, <1>7, <1>8, <1>9 DEF Next

\* The callbacks and waits are composed of steps of WaitTriggers, so that its
\* invariants hold here.
LEMMA CallbacksAreEvents == Spec => Triggers!Spec
<1>1. Init => Triggers!Init
  BY DEF Init
<1> QED BY <1>1, RegistriesInit, RegistriesNext, StepsImplement, PTL
        DEF Spec, Triggers!Spec

------------------------------------------------------------------------------
TriggersProofs == INSTANCE WaitTriggers_proofs

\* The types of the waiting queries, by the theorem about WaitTriggers.
LEMMA TriggersTyped == Spec => []Triggers!TypeOK
<1>1. Triggers!Init => TriggersProofs!Init
  BY DEF Triggers!Init, TriggersProofs!Init
<1>2. [Triggers!Next]_(Triggers!vars) => [TriggersProofs!Next]_(TriggersProofs!vars)
  BY DEF Triggers!Next, TriggersProofs!Next, Triggers!vars, TriggersProofs!vars,
         Triggers!waiterVars, TriggersProofs!waiterVars,
         Triggers!Call, TriggersProofs!Call, Triggers!Step, TriggersProofs!Step,
         Triggers!Lock, TriggersProofs!Lock, Triggers!Return, TriggersProofs!Return,
         Triggers!DecideToSleep, TriggersProofs!DecideToSleep,
         Triggers!Register, TriggersProofs!Register,
         Triggers!TimeOut, TriggersProofs!TimeOut,
         Triggers!Spurious, TriggersProofs!Spurious,
         Triggers!DeadlinePasses, TriggersProofs!DeadlinePasses,
         Triggers!Event, TriggersProofs!Event, Triggers!Notify, TriggersProofs!Notify,
         Triggers!ConditionsFor, TriggersProofs!ConditionsFor,
         Triggers!Listens, TriggersProofs!Listens,
         Triggers!Callbacks, TriggersProofs!Callbacks
<1>3. TriggersProofs!Spec => []TriggersProofs!TypeOK
  <2>1. TriggersProofs!TriggersAssumption
    BY NebModuleAssumption
       DEF TriggersProofs!TriggersAssumption, TriggersProofs!Kinds, Triggers!Kinds
  <2> QED BY <2>1, TriggersProofs!TypeCorrect, PTL
<1>4. TriggersProofs!TypeOK => Triggers!TypeOK
  BY DEF Triggers!TypeOK, TriggersProofs!TypeOK, Triggers!PcStates,
         TriggersProofs!PcStates, Triggers!Kinds, TriggersProofs!Kinds
<1> QED BY <1>1, <1>2, <1>3, <1>4, CallbacksAreEvents, PTL
        DEF Triggers!Spec, TriggersProofs!Spec

\* The waits for downtimes.
ForDowntimes(w) == kind[w] \in {"all", "downtime"}

\* While the module lives the condition is what the registry says; between the
\* evaluation and the sleep a query whose condition is true will be notified or
\* has missed it; and no query waits any more when the module is gone.
WaitsInv ==
    /\ phase # "stopped" => \A w \in Waiters : cond[w] <=> entries["downtime"] # {}
    /\ phase = "stopped" => /\ entries["downtime"] = {}
                            /\ \A w \in Waiters : pc[w] = "idle"
    /\ phase \in {"stopping", "stopped"} => change = NoChange
    /\ \A w \in Waiters :
           pc[w] \in {"register", "asleep"} /\ ForDowntimes(w) /\ cond[w]
               => Triggers!InTodo(kind[w]) \/ missed[w]

\* In the beginning nobody waits.
LEMMA WaitsInit == Init => WaitsInv
BY DEF Init, WaitsInv, Triggers!Init, Registries

\* The steps that leave alone what WaitsInv speaks of.
LEMMA WaitsFrame ==
  ASSUME Next
  PROVE  \/ EndChange
         \/ BrokerCheck \/ BrokerLog \/ BrokerCommand \/ BrokerState \/ BrokerProgram
         \/ Notify
         \/ \E w \in Waiters : Call(w) \/ Wait(w)
         \/ NebmoduleDeinit
         \/ /\ UNCHANGED <<triggerVars, entries>>
            /\ phase = "stopped" <=> phase' = "stopped"
            /\ phase' \in {"stopping", "stopped"} =>
                   change' = change /\ (phase = phase' \/ change = NoChange)
<1> DEFINE Untouched ==
             /\ UNCHANGED <<triggerVars, entries>>
             /\ phase = "stopped" <=> phase' = "stopped"
             /\ phase' \in {"stopping", "stopped"} =>
                    change' = change /\ (phase = phase' \/ change = NoChange)
<1>1. ASSUME \/ NebmoduleInit
             \/ ProcessStart
             \/ ProcessEventLoopStart
             \/ BrokerEvent
             \/ MinutePasses
             \/ TerminateThreads
      PROVE  Untouched
  BY <1>1 DEF NebmoduleInit, ProcessStart, ProcessEventLoopStart, BrokerEvent,
              MinutePasses, TerminateThreads
<1>2. ASSUME NEW p \in Periods, PeriodFlips(p) PROVE Untouched
  BY <1>2 DEF PeriodFlips
<1>3. ASSUME NEW r \in Registries, BeginChange(r) PROVE Untouched
  BY <1>3 DEF BeginChange
<1>4. ASSUME NEW w \in Waiters, BeginWalk(w) \/ WalkOn(w) \/ EndWalk(w) PROVE Untouched
  BY <1>4 DEF BeginWalk, WalkOn, EndWalk
<1> QED BY <1>1, <1>2, <1>3, <1>4 DEF Next

\* A callback with one kind notifies those who wait for it or for all.
LEMMA OneKind ==
  ASSUME NEW r \in Registries
  PROVE  Triggers!ConditionsFor(<<r>>) = <<"all", r>>
<1>1. Len(<<r>>) = 1 /\ <<r>>[1] = r
  OBVIOUS
<1> QED BY <1>1 DEF Triggers!ConditionsFor

\* Every step keeps what is known of the queries that wait for downtimes.
LEMMA WaitsNext ==
  Triggers!TypeOK /\ RegistriesInv /\ WaitsInv /\ [Next]_vars => WaitsInv'
<1> SUFFICES ASSUME Triggers!TypeOK, RegistriesInv, WaitsInv, [Next]_vars
             PROVE  WaitsInv'
  OBVIOUS
<1> USE DEF WaitsInv, ForDowntimes
<1>1. CASE EndChange
  <2> DEFINE r == change.registry
  <2>1. /\ entries' = [entries EXCEPT ![r] = Register(@, change.type, change.id)]
        /\ cond' = [w \in Waiters |-> entries'["downtime"] # {}]
        /\ todo = <<>> /\ todo' = Triggers!ConditionsFor(<<r>>)
        /\ change # NoChange /\ change' = NoChange
        /\ UNCHANGED <<pc, kind, missed, phase>>
    BY <1>1 DEF EndChange, Triggers!Event, Triggers!waiterVars
  <2>2. r \in Registries
    BY <1>1, ChangesRegistry DEF EndChange, RegistriesInv, Changes
  <2>3. todo' = <<"all", r>>
    BY <2>1, <2>2, OneKind
  <2>4. phase # "stopped"
    BY <2>1
  <2>5. \A w \in Waiters : cond'[w] <=> entries'["downtime"] # {}
    BY <2>1
  <2> HIDE DEF r
  <2>6. ASSUME NEW w \in Waiters, pc'[w] \in {"register", "asleep"},
               ForDowntimes(w)', cond'[w]
        PROVE  Triggers!InTodo(kind[w])' \/ missed'[w]
    <3>1. CASE kind[w] = "all" \/ r = "downtime"
      <4>1. todo'[1] = "all" /\ todo'[2] = r /\ {1, 2} = DOMAIN todo'
        BY <2>3
      <4>2. kind[w] = "all" \/ kind[w] = r
        BY <2>1, <2>6, <3>1
      <4> QED BY <2>1, <4>1, <4>2 DEF Triggers!InTodo
    <3>2. CASE kind[w] # "all" /\ r # "downtime"
      <4>1. entries'["downtime"] = entries["downtime"]
        BY <2>1, <2>2, <3>2 DEF RegistriesInv, RegistriesTyped, Registries
      <4>2. cond[w]
        BY <2>4, <2>5, <2>6, <4>1
      <4>3. ~Triggers!InTodo(kind[w])
        BY <2>1 DEF Triggers!InTodo
      <4>4. pc[w] \in {"register", "asleep"} /\ ForDowntimes(w)
        BY <2>1, <2>6
      <4> QED BY <2>1, <4>2, <4>3, <4>4
    <3> QED BY <3>1, <3>2
  <2> QED BY <2>1, <2>4, <2>5, <2>6
<1>2. CASE BrokerCheck \/ BrokerLog \/ BrokerCommand \/ BrokerState \/ BrokerProgram
  <2>1. /\ todo = <<>> /\ cond' = cond
        /\ UNCHANGED <<pc, kind, missed, phase, change, entries>>
    BY <1>2 DEF BrokerCheck, BrokerLog, BrokerCommand, BrokerState, BrokerProgram,
                Notifies, Triggers!Event, Triggers!waiterVars
  <2>2. \A w \in Waiters : ~Triggers!InTodo(kind[w])
    BY <2>1 DEF Triggers!InTodo
  <2> QED BY <2>1, <2>2
<1>3. CASE Notify
  <2>1. /\ todo # <<>> /\ todo' = Tail(todo) /\ todo \in Seq(Triggers!Kinds)
        /\ UNCHANGED <<kind, cond, phase, change, entries>>
    BY <1>3 DEF Notify, Triggers!Notify, Triggers!TypeOK
  <2>2. \A w \in Waiters :
          pc'[w] = IF pc[w] = "asleep" /\ kind[w] = Head(todo) THEN "lock" ELSE pc[w]
    BY <1>3 DEF Notify, Triggers!Notify
  <2>3. ASSUME NEW w \in Waiters
        PROVE  missed'[w] <=> missed[w] \/ (pc[w] = "register" /\ kind[w] = Head(todo))
    BY <1>3, Zenon DEF Notify, Triggers!Notify
  <2>4. ASSUME NEW w \in Waiters, pc'[w] \in {"register", "asleep"},
               ForDowntimes(w)', cond'[w]
        PROVE  Triggers!InTodo(kind[w])' \/ missed'[w]
    <3>1. /\ pc[w] = pc'[w] /\ ~(pc[w] = "asleep" /\ kind[w] = Head(todo))
          /\ Triggers!InTodo(kind[w]) \/ missed[w]
      BY <2>1, <2>2, <2>4
    <3>2. CASE Triggers!InTodo(kind[w]) /\ kind[w] # Head(todo)
      <4>1. PICK i \in DOMAIN todo : todo[i] = kind[w]
        BY <3>2 DEF Triggers!InTodo
      <4>2. i \in 2 .. Len(todo)
        BY <2>1, <3>2, <4>1
      <4>3. i - 1 \in DOMAIN Tail(todo) /\ Tail(todo)[i - 1] = todo[i]
        BY <2>1, <4>2
      <4> QED BY <2>1, <4>1, <4>3 DEF Triggers!InTodo
    <3>3. CASE kind[w] = Head(todo)
      BY <2>3, <2>4, <3>1, <3>3
    <3> QED BY <2>3, <3>1, <3>2, <3>3
  <2>5. phase = "stopped" => \A w \in Waiters : pc'[w] = "idle"
    BY <2>2
  <2> QED BY <2>1, <2>4, <2>5
<1>4. ASSUME NEW w \in Waiters, Call(w) PROVE WaitsInv'
  BY <1>4 DEF Call, Triggers!Call, Triggers!TypeOK, Triggers!InTodo
<1>5. ASSUME NEW w \in Waiters, Wait(w) PROVE WaitsInv'
  <2>1. UNCHANGED <<kind, cond, todo, phase, change, entries>>
    BY <1>5 DEF Wait, Triggers!Step, Triggers!Lock, Triggers!Return,
                Triggers!DecideToSleep, Triggers!Register, Triggers!TimeOut,
                Triggers!Spurious, Triggers!DeadlinePasses
  <2>2. pc[w] # "idle" /\ phase # "stopped"
    BY <1>5 DEF Wait, Triggers!Step, Triggers!Lock, Triggers!Return,
                Triggers!DecideToSleep, Triggers!Register, Triggers!TimeOut,
                Triggers!Spurious, Triggers!DeadlinePasses
  <2>3. CASE Triggers!DecideToSleep(w)
    BY <2>1, <2>2, <2>3 DEF Triggers!DecideToSleep, Triggers!TypeOK, Triggers!InTodo
  <2>4. CASE Triggers!Register(w)
    BY <2>1, <2>2, <2>4 DEF Triggers!Register, Triggers!TypeOK, Triggers!InTodo
  <2>5. CASE Triggers!DeadlinePasses(w)
    BY <2>1, <2>2, <2>5 DEF Triggers!DeadlinePasses, Triggers!InTodo
  <2>6. CASE Triggers!Lock(w) \/ Triggers!Return(w) \/ Triggers!TimeOut(w)
               \/ Triggers!Spurious(w)
    BY <2>1, <2>2, <2>6 DEF Triggers!Lock, Triggers!Return, Triggers!TimeOut,
       Triggers!Spurious, Triggers!TypeOK, Triggers!InTodo
  <2> QED BY <1>5, <2>3, <2>4, <2>5, <2>6 DEF Wait, Triggers!Step
<1>6. CASE NebmoduleDeinit
  BY <1>6 DEF NebmoduleDeinit, triggerVars, Registries
<1>7. CASE /\ UNCHANGED <<triggerVars, entries>>
           /\ phase = "stopped" <=> phase' = "stopped"
           /\ phase' \in {"stopping", "stopped"} =>
                  change' = change /\ (phase = phase' \/ change = NoChange)
  BY <1>7 DEF triggerVars, Triggers!InTodo
<1>8. CASE UNCHANGED vars
  BY <1>8 DEF vars, triggerVars, Triggers!InTodo
<1> QED BY <1>1, <1>2, <1>3, <1>4, <1>5, <1>6, <1>7, <1>8, WaitsFrame

\* A query that waits for downtimes does not sleep on while there is one, unless
\* the notification came between its evaluation and its sleep.
THEOREM DowntimesWake == Spec => []DowntimeWakes
<1>1. WaitsInv => DowntimeWakes
  BY DEF WaitsInv, ForDowntimes, DowntimeWakes
<1> QED BY <1>1, WaitsInit, WaitsNext, RegistriesInit, RegistriesNext,
           TriggersTyped, PTL DEF Spec
==============================================================================
