------------------------------- MODULE LogCache -------------------------------
(***************************************************************************)
(* The cache of log messages: src/LogCache.cc and src/Logfile.cc.          *)
(*                                                                         *)
(* Every log file of the index keeps the messages of the classes queries   *)
(* have asked for so far.  The newest file is the one Nagios appends to;   *)
(* it is read on from where the last query stopped.  Every message that is *)
(* loaded may trigger the eviction of other messages.  A query holds       *)
(* LogCache::_lock from its first to its last step, so queries do not      *)
(* interleave with each other, but they do with Nagios.  Each fgets and    *)
(* each candidate of the eviction is a step.                               *)
(*                                                                         *)
(* A line of a log file is its class, a cached message its line number and *)
(* class.  Rotation happens between two queries here.                      *)
(***************************************************************************)
EXTENDS Sequences, Naturals, FiniteSets

CONSTANTS Classes,       \* LogEntry::Class, without the invalid one
          NumFiles,      \* number of files in the index
          MaxCached,     \* _max_cached_messages
          CheckMemCycle, \* check_mem_cycle
          MaxLines,      \* maxLinesPerLogFile()
          MaxLen,        \* bound: lines of a file
          AppendWhen     \* the phases of a query in which Nagios writes

ASSUME LogCacheAssumption ==
    /\ IsFiniteSet(Classes) /\ Classes # {}
    /\ NumFiles \in Nat \ {0}
    /\ MaxCached \in Nat
    /\ CheckMemCycle \in Nat \ {0}
    /\ MaxLines \in Nat \ {0}
    /\ MaxLen \in Nat

\* From the oldest to the newest; the newest one is nagios.log.
Files == 1 .. NumFiles
Current == NumFiles

VARIABLES lines,          \* the contents of each file
          entries,        \* Logfile::_entries, as <<lineno, class>>
          classesRead,    \* Logfile::_logclasses_read
          lineno,         \* Logfile::_lineno
          readPos,        \* _read_pos of nagios.log: lines before the position
          numCached,      \* num_cached_log_messages
          numAtLastCheck, \* _num_at_last_check
          evicting,       \* what logLineHasBeenAdded may still flush or free
          pc,             \* the phase of the query
          classmask,      \* the classes the query asks for
          file,           \* the file the query works on
          reading,        \* missing_types of loadRange
          missing,        \* missing_types of load
          pos,            \* the position in the open FILE, in lines
          upto            \* ghost: the length of the file when load began

cacheVars == <<entries, classesRead, lineno, readPos>>
numVars == <<numCached, numAtLastCheck, evicting>>
queryVars == <<pc, classmask, file, reading, missing, pos, upto>>
vars == <<lines, cacheVars, numVars, queryVars>>

Contents == UNION {[1 .. n -> Classes] : n \in 1 .. MaxLen}

Init ==
    /\ lines \in [Files -> Contents]
    /\ entries = [f \in Files |-> {}]
    /\ classesRead = [f \in Files |-> {}]
    /\ lineno = [f \in Files |-> 0]
    /\ readPos = 0
    /\ numCached = 0
    /\ numAtLastCheck = 0
    /\ evicting = <<>>
    /\ pc = "idle"
    /\ classmask = {}
    /\ file = Current
    /\ reading = {}
    /\ missing = {}
    /\ pos = 0
    /\ upto = 0

------------------------------------------------------------------------------
\* Nagios appends a line to nagios.log.
AppendLine(c) ==
    /\ pc \in AppendWhen
    /\ Len(lines[Current]) < MaxLen
    /\ lines' = [lines EXCEPT ![Current] = Append(@, c)]
    /\ UNCHANGED <<cacheVars, numVars, queryVars>>

\* Mutant of UpdateIndex: num_cached_log_messages is not reset.
UpdateIndexKeepingCount ==
    /\ pc = "idle"
    /\ \E c \in Classes :
           lines' = [f \in Files |-> IF f = Current THEN <<c>> ELSE lines[f + 1]]
    /\ entries' = [f \in Files |-> {}]
    /\ classesRead' = [f \in Files |-> {}]
    /\ lineno' = [f \in Files |-> 0]
    /\ readPos' = 0
    /\ UNCHANGED <<numVars, queryVars>>

\* update: Nagios has rotated its log since the last query; the index is built
\* anew.  _num_at_last_check keeps its value.
UpdateIndex ==
    /\ pc = "idle"
    /\ \E c \in Classes :
           lines' = [f \in Files |-> IF f = Current THEN <<c>> ELSE lines[f + 1]]
    /\ entries' = [f \in Files |-> {}]
    /\ classesRead' = [f \in Files |-> {}]
    /\ lineno' = [f \in Files |-> 0]
    /\ readPos' = 0
    /\ numCached' = 0
    /\ UNCHANGED <<numAtLastCheck, evicting, queryVars>>

\* A query takes the lock; it asks for at least one class.
StartQuery(mask) ==
    /\ pc = "idle"
    /\ mask # {}
    /\ pc' = "ready"
    /\ classmask' = mask
    /\ UNCHANGED <<lines, cacheVars, numVars, file, reading, missing, pos, upto>>

EndQuery ==
    /\ pc \in {"ready", "loaded"}
    /\ pc' = "idle"
    /\ classmask' = {}
    /\ file' = Current
    /\ reading' = {}
    /\ missing' = {}
    /\ pos' = 0
    /\ upto' = 0
    /\ UNCHANGED <<lines, cacheVars, numVars>>

\* The file a query loads: any at first, then a neighbour of the last one.
Reachable(f) == pc = "ready" \/ f + 1 = file \/ f = file + 1

\* load finds nothing to do or cannot open the file.
LoadNothing(f) ==
    /\ pc \in {"ready", "loaded"} /\ Reachable(f)
    /\ pc' = "loaded"
    /\ file' = f
    /\ upto' = IF f # Current /\ classmask \subseteq classesRead[f]
               THEN Len(lines[f]) ELSE 0
    /\ UNCHANGED <<lines, cacheVars, numVars, classmask, reading, missing, pos>>

\* Mutant of LoadGrowth: the growth is read from the start of the file.
LoadGrowthFromStart ==
    /\ pc \in {"ready", "loaded"} /\ Reachable(Current)
    /\ classesRead[Current] # {}
    /\ pc' = "growth"
    /\ file' = Current
    /\ reading' = classesRead[Current]
    /\ missing' = classmask \ classesRead[Current]
    /\ pos' = 0
    /\ upto' = Len(lines[Current])
    /\ UNCHANGED <<lines, cacheVars, numVars, classmask>>

\* load of nagios.log: read on, for all classes already read.
LoadGrowth ==
    /\ pc \in {"ready", "loaded"} /\ Reachable(Current)
    /\ classesRead[Current] # {}
    /\ pc' = "growth"
    /\ file' = Current
    /\ reading' = classesRead[Current]
    /\ missing' = classmask \ classesRead[Current]
    /\ pos' = readPos
    /\ upto' = Len(lines[Current])
    /\ UNCHANGED <<lines, cacheVars, numVars, classmask>>

\* load of a file without growth to read: all of it, for the missing classes.
LoadMissing(f) ==
    /\ pc \in {"ready", "loaded"} /\ Reachable(f)
    /\ f = Current => classesRead[f] = {}
    /\ ~(classmask \subseteq classesRead[f])
    /\ pc' = "missing"
    /\ file' = f
    /\ reading' = classmask \ classesRead[f]
    /\ missing' = classmask \ classesRead[f]
    /\ pos' = 0
    /\ lineno' = [lineno EXCEPT ![f] = 0]
    /\ upto' = Len(lines[f])
    /\ UNCHANGED <<lines, entries, classesRead, readPos, numVars, classmask>>

------------------------------------------------------------------------------
Size(f) == Cardinality(entries[f])

\* Mutant of Candidates: step [3] is missing.
CandidatesNotNewer(f, mask) ==
    [i \in 1 .. f - 1 |-> [file |-> i, drop |-> Classes]]
    \o [i \in 1 .. NumFiles - f + 1 |-> [file |-> f + i - 1, drop |-> Classes \ mask]]

\* What logLineHasBeenAdded tries, in order, while the query with that mask
\* loads f: [1] flush the older files, [2] free the classes the query does not
\* ask for from f on, [3] flush the newer files.
Candidates(f, mask) ==
    [i \in 1 .. f - 1 |-> [file |-> i, drop |-> Classes]]
    \o [i \in 1 .. NumFiles - f + 1 |-> [file |-> f + i - 1, drop |-> Classes \ mask]]
    \o [i \in 1 .. NumFiles - f |-> [file |-> f + i, drop |-> Classes]]

\* logLineHasBeenAdded: is it time to check the memory?
CheckDue(n) == n > MaxCached /\ n >= numAtLastCheck + CheckMemCycle

\* processLogLine and logLineHasBeenAdded for a line of a class to be read.  A
\* line number that is there already is only reported.
Store(c) ==
    LET n == lineno[file] + 1 IN
    IF \E e \in entries[file] : e[1] = n
    THEN UNCHANGED <<entries, numCached, evicting>>
    ELSE /\ entries' = [entries EXCEPT ![file] = @ \cup {<<n, c>>}]
         /\ numCached' = numCached + 1
         /\ evicting' = IF CheckDue(numCached + 1) THEN Candidates(file, classmask)
                                                   ELSE <<>>

\* loadRange: more lines than maxLinesPerLogFile() are ignored.
WithinLimit(f) == lineno[f] < MaxLines

\* loadRange: fgets returns a line.
ReadLine ==
    /\ pc \in {"growth", "missing"}
    /\ evicting = <<>>
    /\ pos < Len(lines[file])
    /\ WithinLimit(file)
    /\ LET c == lines[file][pos + 1] IN
       IF c \in reading THEN Store(c)
       ELSE UNCHANGED <<entries, numCached, evicting>>
    /\ pos' = pos + 1
    /\ lineno' = [lineno EXCEPT ![file] = @ + 1]
    /\ UNCHANGED <<lines, classesRead, readPos, numAtLastCheck, pc, classmask,
                   file, reading, missing, upto>>

\* Mutant of Evict: freeMessages also drops what the query asks for.
EvictRequested ==
    /\ evicting # <<>>
    /\ LET e == Head(evicting)
           gone == entries[e.file]
           applies == Size(e.file) > 0
       IN  /\ entries' = [entries EXCEPT ![e.file] = @ \ gone]
           /\ classesRead' = [classesRead EXCEPT
                                 ![e.file] = IF applies THEN @ \ e.drop ELSE @]
           /\ numCached' = numCached - Cardinality(gone)
           /\ evicting' = IF applies /\ numCached' <= MaxCached
                          THEN <<>> ELSE Tail(evicting)
    /\ numAtLastCheck' = IF evicting' = <<>> THEN numCached' ELSE numAtLastCheck
    /\ UNCHANGED <<lines, lineno, readPos, queryVars>>

\* Mutant of Evict: freeMessages leaves _logclasses_read alone.
EvictUnnoticed ==
    /\ evicting # <<>>
    /\ LET e == Head(evicting)
           applies == /\ Size(e.file) > 0
                      /\ e.drop = Classes \/ classesRead[e.file] \cap e.drop # {}
           gone == {m \in entries[e.file] : applies /\ m[2] \in e.drop}
       IN  /\ entries' = [entries EXCEPT ![e.file] = @ \ gone]
           /\ numCached' = numCached - Cardinality(gone)
           /\ evicting' = IF applies /\ numCached' <= MaxCached
                          THEN <<>> ELSE Tail(evicting)
    /\ numAtLastCheck' = IF evicting' = <<>> THEN numCached' ELSE numAtLastCheck
    /\ UNCHANGED <<lines, classesRead, lineno, readPos, queryVars>>

\* logLineHasBeenAdded: the next candidate, Logfile::flush or freeMessages,
\* until the limit is met.
Evict ==
    /\ evicting # <<>>
    /\ LET e == Head(evicting)
           applies == /\ Size(e.file) > 0
                      /\ e.drop = Classes \/ classesRead[e.file] \cap e.drop # {}
           gone == {m \in entries[e.file] : applies /\ m[2] \in e.drop}
       IN  /\ entries' = [entries EXCEPT ![e.file] = @ \ gone]
           /\ classesRead' = [classesRead EXCEPT
                                 ![e.file] = IF applies THEN @ \ e.drop ELSE @]
           /\ numCached' = numCached - Cardinality(gone)
           /\ evicting' = IF applies /\ numCached' <= MaxCached
                          THEN <<>> ELSE Tail(evicting)
    /\ numAtLastCheck' = IF evicting' = <<>> THEN numCached' ELSE numAtLastCheck
    /\ UNCHANGED <<lines, lineno, readPos, queryVars>>

\* fgets returns NULL, or the line after the last one allowed, which is lost.
PassOver == /\ evicting = <<>>
            /\ pos = Len(lines[file]) \/ ~WithinLimit(file)
PosAfter == IF pos < Len(lines[file]) THEN pos + 1 ELSE pos

\* load after the growth has been read: now the missing classes, if any.
EndGrowth ==
    /\ pc = "growth" /\ PassOver
    /\ IF missing = {}
       THEN /\ pc' = "loaded"
            /\ pos' = PosAfter
            /\ UNCHANGED <<lineno, reading>>
       ELSE /\ pc' = "missing"
            /\ pos' = 0
            /\ lineno' = [lineno EXCEPT ![file] = 0]
            /\ reading' = missing
    /\ readPos' = PosAfter
    /\ UNCHANGED <<lines, entries, classesRead, numVars, classmask, file, missing,
                   upto>>

\* load after the missing classes have been read.
EndMissing ==
    /\ pc = "missing" /\ PassOver
    /\ pc' = "loaded"
    /\ classesRead' = [classesRead EXCEPT ![file] = @ \cup missing]
    /\ readPos' = IF file = Current THEN PosAfter ELSE readPos
    /\ UNCHANGED <<lines, entries, lineno, numVars, classmask, file, reading,
                   missing, pos, upto>>

Load(f) == LoadNothing(f) \/ LoadMissing(f)

Next ==
    \/ \E c \in Classes : AppendLine(c)
    \/ UpdateIndex
    \/ \E mask \in SUBSET Classes : StartQuery(mask)
    \/ EndQuery
    \/ \E f \in Files : Load(f)
    \/ LoadGrowth
    \/ ReadLine
    \/ Evict
    \/ EndGrowth
    \/ EndMissing

Spec == Init /\ [][Next]_vars

------------------------------------------------------------------------------
\* All messages in memory, each with the file it is from.
CachedMessages == UNION {{f} \X entries[f] : f \in Files}

\* num_cached_log_messages is the number of messages in memory, at every
\* moment: through duplicates, evictions and rebuilt indexes.
NumCachedExact == numCached = Cardinality(CachedMessages)

Smaller(a, b) == IF a < b THEN a ELSE b
Larger(a, b) == IF a > b THEN a ELSE b

\* The first lines of a log that are of some classes are all in the cache, with
\* the right line number, as far as the line limit allows.
Holds(cached, log, length, classes) ==
    \A n \in 1 .. Smaller(MaxLines, length) :
        log[n] \in classes => <<n, log[n]>> \in cached

\* How far a file has been read for the classes it has read.
ReadUpTo(f) == IF f = Current THEN readPos ELSE Len(lines[f])

\* A cached message is a line of its file, with the right number.
OnlyLines(cached, log) ==
    \A e \in cached : e[1] \in DOMAIN log /\ log[e[1]] = e[2]

\* A class marked as read in _logclasses_read is in the cache completely, as
\* far as the file has been read, with the right line number; a later query
\* for it will not look at these lines again.
CacheCoherent ==
    \A f \in Files :
        /\ OnlyLines(entries[f], lines[f])
        /\ Holds(entries[f], lines[f], ReadUpTo(f), classesRead[f])

\* When getEntriesFor returns, every line of a class the query asks for that
\* the file had when the call began is there, whatever was evicted meanwhile
\* (Logfile.cc:211: "make sure all messages are present").
LoadComplete ==
    pc = "loaded" => Holds(entries[file], lines[file], upto, classmask)

\* The cache outgrows its limit at most by what one query needs of one file
\* and by the messages loaded between two checks.
MemoryBounded ==
    numCached <= Larger(MaxCached, MaxLines) + CheckMemCycle

\* Memory is given back only when the limit is exceeded, and no message that
\* the query asks for leaves the file that is being loaded.
EvictionSparesQuery ==
    [][\A f \in Files : \A e \in entries[f] \ entries'[f] :
          pc # "idle" => /\ numCached > MaxCached
                         /\ ~(f = file /\ e[2] \in classmask)]_vars
==============================================================================
