------------------------------- MODULE LogIndex -------------------------------
(***************************************************************************)
(* The index of log files against the log rotation of Nagios: update and   *)
(* addToIndex of src/LogCache.cc, firstTimestampOf of src/Logfile.cc.      *)
(*                                                                         *)
(* update rebuilds the index only if the last rotation is later than the   *)
(* last rebuild.  Nagios gives the time of a rotation in whole seconds,    *)
(* the rebuild takes the time of the system clock.  The clock here ticks   *)
(* TicksPerSecond times a second.  A log is its number; it stands for its  *)
(* content and, once its first line is written, for the time stamp of that *)
(* line, by which the index knows it.                                      *)
(***************************************************************************)
EXTENDS Naturals

CONSTANTS TicksPerSecond, \* resolution of the system clock
          MaxTicks,       \* bound: ticks of the clock
          MaxLogs         \* bound: number of logs ever written

ASSUME LogIndexAssumption ==
    /\ TicksPerSecond \in Nat \ {0}
    /\ MaxTicks \in Nat
    /\ MaxLogs \in Nat

Logs == 1 .. MaxLogs
NoLog == 0

\* Names of files: nagios.log and one name in the archive for each log.
Watched == 0

VARIABLES now,          \* the system clock
          lastRotation, \* last_log_rotation of Nagios, as a tick
          rotation,     \* what Nagios has yet to do for this rotation
          current,      \* the log in nagios.log
          written,      \* does nagios.log have a complete first line?
          archive,      \* the logs in the archive
          index,        \* _logfiles: the path of each log that is indexed
          lastUpdate,   \* _last_index_update
          phase,        \* where the query is
          clean         \* ghost: the last rotation met no update, and began in a
                        \* later second than the last one

diskVars == <<lastRotation, rotation, current, written, archive>>
indexVars == <<now, diskVars, index, lastUpdate, phase, clean>>

SecondOf(t) == t \div TicksPerSecond

IndexInit ==
    /\ now = TicksPerSecond
    /\ lastRotation = 0
    /\ rotation = {}
    /\ current = 1
    /\ written = TRUE
    /\ archive = {}
    /\ index = [k \in {} |-> Watched]
    /\ lastUpdate = 0
    /\ phase = "idle"
    /\ clean = TRUE

Tick ==
    /\ now < MaxTicks
    /\ now' = now + 1
    /\ UNCHANGED <<diskVars, index, lastUpdate, phase, clean>>

------------------------------------------------------------------------------
\* Nagios rotates its log: it notes the time, renames nagios.log and begins a
\* new one, in an order that the module does not see.
Rotate ==
    /\ rotation = {} /\ current < MaxLogs
    /\ SecondOf(now) > SecondOf(lastRotation)
    /\ rotation' = {"note", "rename", "begin"}
    /\ clean' = /\ phase \notin {"addWatched", "addArchive"}
                /\ SecondOf(now) > SecondOf(lastUpdate)
    /\ UNCHANGED <<now, lastRotation, current, written, archive, index,
                   lastUpdate, phase>>

NoteRotation ==
    /\ "note" \in rotation
    /\ rotation' = rotation \ {"note"}
    /\ lastRotation' = SecondOf(now) * TicksPerSecond
    /\ UNCHANGED <<now, current, written, archive, index, lastUpdate, phase, clean>>

Rename ==
    /\ "rename" \in rotation
    /\ rotation' = rotation \ {"rename"}
    /\ archive' = archive \cup {current}
    /\ current' = current + 1
    /\ written' = FALSE
    /\ UNCHANGED <<now, lastRotation, index, lastUpdate, phase, clean>>

BeginLog ==
    /\ "begin" \in rotation /\ "rename" \notin rotation
    /\ rotation' = rotation \ {"begin"}
    /\ written' = TRUE
    /\ UNCHANGED <<now, lastRotation, current, archive, index, lastUpdate, phase, clean>>

------------------------------------------------------------------------------
Entry(log, path) == [k \in {log} |-> path]

\* addToIndex: a file whose time stamp is already there is ignored.
AddToIndex(found) ==
    [k \in DOMAIN index \cup DOMAIN found |->
        IF k \in DOMAIN index THEN index[k] ELSE found[k]]

\* A query calls update.
Call ==
    /\ phase \in {"idle", "using"}
    /\ phase' = "ready"
    /\ UNCHANGED <<now, diskVars, index, lastUpdate, clean>>

\* update finds that the index is not empty and not older than the rotation.
UpToDate ==
    /\ phase = "ready"
    /\ DOMAIN index # {} /\ lastRotation <= lastUpdate
    /\ phase' = "using"
    /\ UNCHANGED <<now, diskVars, index, lastUpdate, clean>>

\* Mutant of Rebuild: _logfiles.clear() is missing.
RebuildKeeping ==
    /\ phase = "ready"
    /\ DOMAIN index = {} \/ lastRotation > lastUpdate
    /\ lastUpdate' = now
    /\ phase' = "addWatched"
    /\ clean' = (clean /\ rotation = {})
    /\ UNCHANGED <<now, diskVars, index>>

\* update clears the index and notes the time.
Rebuild ==
    /\ phase = "ready"
    /\ DOMAIN index = {} \/ lastRotation > lastUpdate
    /\ index' = [k \in {} |-> Watched]
    /\ lastUpdate' = now
    /\ phase' = "addWatched"
    /\ clean' = (clean /\ rotation = {})
    /\ UNCHANGED <<now, diskVars>>

\* update looks at nagios.log; without a first line it is left out.
AddWatched ==
    /\ phase = "addWatched"
    /\ index' = IF written THEN AddToIndex(Entry(current, Watched)) ELSE index
    /\ phase' = "addArchive"
    /\ UNCHANGED <<now, diskVars, lastUpdate, clean>>

\* update looks at the files of the archive.
AddArchive ==
    /\ phase = "addArchive"
    /\ index' = AddToIndex([k \in archive |-> k])
    /\ phase' = "using"
    /\ UNCHANGED <<now, diskVars, lastUpdate, clean>>

IndexNext ==
    \/ Tick
    \/ Rotate
    \/ NoteRotation
    \/ Rename
    \/ BeginLog
    \/ Call
    \/ UpToDate
    \/ Rebuild
    \/ AddWatched
    \/ AddArchive

IndexSpec == IndexInit /\ [][IndexNext]_indexVars

------------------------------------------------------------------------------
\* The log that the query gets to read under a path of the index.
Content(path) == IF path = Watched THEN current ELSE path

OnDisk == archive \cup {current}

Complete ==
    /\ DOMAIN index = OnDisk
    /\ \A k \in DOMAIN index : Content(index[k]) = k

\* A query that has called update finds every log under the time stamp of its
\* own first line, if the last rotation met no update: whatever races there
\* were before, the next undisturbed rotation repairs the index.
IndexRepaired ==
    phase = "using" /\ clean /\ rotation = {} /\ lastRotation <= lastUpdate
        => Complete

\* LogCache.cc:72: "We need to find all relevant logfiles. This includes
\* directory, the current nagios.log and all files in the archive."
IndexComplete ==
    phase = "using" /\ rotation = {} /\ lastRotation <= lastUpdate => Complete
==============================================================================
