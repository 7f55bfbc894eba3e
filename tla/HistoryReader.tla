---------------------------- MODULE HistoryReader ----------------------------
(***************************************************************************)
(* The entries of the log that an availability report reads: the choice of *)
(* the first log and of the entry to begin with in answerQuery of          *)
(* src/TableStateHistory.cc, and getNextLogentry.  StateHistory says what  *)
(* the report makes of them.                                               *)
(***************************************************************************)
EXTENDS TableLog

\* classmask_statehist
ClassmaskStatehist == {ClassNumber[class] : class \in {"alert", "program", "state", "text"}}

\* Mutant of FirstLog: a log that begins with the time frame is early enough.
FirstLogOfFrame(logs, since) ==
    Max({1} \cup {i \in DOMAIN logs : logs[i].first <= since})

\* "Now find the log where 'since' starts": back to one that begins before it.
FirstLog(logs, since) ==
    Max({1} \cup {i \in DOMAIN logs : logs[i].first < since})

\* The position of _it_entries in the first log, before the first call of
\* getNextLogentry: the last entry if it is older than the time frame.
InitialPosition(entries, isNewest, since) ==
    IF ~isNewest /\ Len(entries) > 1 /\ Last(entries).time < since
    THEN Len(entries) ELSE 1

\* getEntriesFor: the entries of each log that the cache holds.
EntriesFor(logs, classes) ==
    [i \in DOMAIN logs |->
        Those(logs[i].entries, {e \in Range(logs[i].entries) : e.class \in classes})]

\* getNextLogentry from log to log, until an entry is too young.  It moves on
\* before it returns, so the entry at the initial position is not read.
ReadEntries(logs, since, until, classes) ==
    LET entries == EntriesFor(logs, classes)
        first == FirstLog(logs, since)
        start == InitialPosition(entries[first], first = Len(logs), since)
        unread == SubSeq(entries[first], start + 1, Len(entries[first]))
                      \o FlattenSeq(SubSeq(entries, first + 1, Len(logs)))
        tooYoung == {i \in DOMAIN unread : unread[i].time >= until}
    IN  IF logs[first].first > until THEN <<>>
        ELSE SubSeq(unread, 1, Min({Len(unread)} \cup {i - 1 : i \in tooYoung}))

\* TableStateHistory::answerQuery: a query needs a start and a time frame.
ReportRead(logs, f, extra) ==
    LET since == Since(f)
        until == Until(f)
    IN  IF logs = <<>> \/ GreatestLowerBoundFor(f, "time") = None
           \/ until - since - 1 = 0
        THEN <<>>
        ELSE ReadEntries(logs, since, until, ClassmaskStatehist \cup extra)

------------------------------------------------------------------------------
\* A report reads the log without a gap up to the end of its time frame, and
\* everything in the frame: "check last entry. If it's younger than _since ->
\* use this logfile too" (TableStateHistory.cc:333).  What getNextLogentry
\* leaves out at the beginning can only be the first entry of a log.  Other
\* queries may have loaded more classes.
ReportReadsItsFrame ==
    /\ ~failed /\ GreatestLowerBoundFor(Filter, "time") # None
    /\ Until(Filter) - Since(Filter) > 1
    => \A logs \in AllLogs \ {<<>>}, extra \in {{}, Range(ClassNumber)} :
        LET entries == EntriesFor(logs, ClassmaskStatehist \cup extra)
            all == FlattenSeq(entries)
            read == ReportRead(logs, Filter, extra)
            expected == Those(all, {e \in Range(all) : e.time < Until(Filter)})
            left == SubSeq(expected, 1, Len(expected) - Len(read))
        IN  /\ IsSuffix(read, expected)
            /\ \A i \in DOMAIN left :
                left[i].time >= Since(Filter) =>
                    \E l \in DOMAIN logs : entries[l] # <<>> /\ left[i] = Head(entries[l])
==============================================================================
