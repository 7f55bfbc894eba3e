------------------------------ MODULE TableLog ------------------------------
(***************************************************************************)
(* Queries on the table log: src/TableLog.cc and the backward walk through *)
(* a file in src/Logfile.cc.  FilterStack builds the filter of the query;  *)
(* its bounds choose the files and classes that are looked at, from the    *)
(* newest file to the oldest.  The whole query runs under the lock of the  *)
(* log cache; what the cache holds of a file is in LogCache, which files   *)
(* it knows in LogIndex.                                                   *)
(***************************************************************************)
EXTENDS FilterStack, LogEntry

CONSTANTS Lines,      \* the lines of all logs
          Archives,   \* sequences of logs, the oldest first, of lines
          AllTexts,   \* an archive with a line for every text
          Now,        \* the time of the query
          KnownHosts,    \* the hosts that still exist
          KnownServices, \* the services that do: <<host, service>>
          Users,      \* the users of AuthUser: [hosts, services, authorization]
          NoUser,     \* AuthUser not given
          GroupsOf,   \* the groups of each host, for the columns of the host
          Limits      \* the values of the header Limit; NoLimit without one

NoLimit == -1

\* The bounds are optional ints.
ValueOr(optional, default) ==
    IF optional = None THEN default ELSE CHOOSE v \in optional : TRUE

Since(f) == ValueOr(GreatestLowerBoundFor(f, "time"), 0)

Until(f) == Wrap(ValueOr(LeastUpperBoundFor(f, "time"), Now) + 1)

ClassMask(f) == ValueOr(ValueSetFor(f, "class"), Range(ClassNumber))

\* Mutant of HostClasses: without the class of the alert handlers.
HostClassesNoHandlers == {"alert", "hs_notification", "passivecheck", "state"}

\* The classes that isAuthorized hides if the host does not exist.
HostClasses == {"alert", "hs_notification", "passivecheck", "alert_handlers", "state"}

ServiceOf(entry) == <<entry.name, entry.svc>>

\* Mutant of IsAuthorizedFor: contacts of the host see its services, strict or not.
IsAuthorizedForLoosely(user, entry) ==
    ServiceOf(entry) \in user.services \/ entry.name \in user.hosts

\* is_authorized_for: what a user is a contact of, himself or by escalation, and
\* the option service_authorization.  A user nobody knows is a contact of nothing.
IsAuthorizedFor(user, entry) ==
    IF ServiceOf(entry) \in KnownServices
    THEN \/ ServiceOf(entry) \in user.services
         \/ user.authorization = "loose" /\ entry.name \in user.hosts
    ELSE entry.name \in user.hosts

\* TableLog::isAuthorized
IsAuthorized(user, entry) ==
    IF entry.name \in KnownHosts THEN IsAuthorizedFor(user, entry)
    ELSE entry.class \notin {ClassNumber[class] : class \in HostClasses}

\* A row of the table joins the entry with its host, if there is one.
Row(entry) ==
    [time |-> entry.time, class |-> entry.class, name |-> entry.name,
     groups |-> IF entry.name \in KnownHosts THEN GroupsOf[entry.name] ELSE {}]

\* Query::processDataset: does the entry count for the answer?
Wanted(f, authUser, entry) ==
    /\ Accepts(f, Row(entry))
    /\ authUser # NoUser => IsAuthorized(authUser, entry)

\* The elements of a sequence that are in a set.
Those(s, S) == FlattenSeq([i \in DOMAIN s |-> IF s[i] \in S THEN <<s[i]>> ELSE <<>>])

Chosen(f, authUser, entries) ==
    Those(entries, {e \in Range(entries) : Wanted(f, authUser, e)})

\* The order of the keys of entries, which makeKey makes of time and line number.
Precedes(a, b) == a.time < b.time \/ (a.time = b.time /\ a.lineno < b.lineno)

\* An entry gets its place in _entries by its key.
Insert(entries, e) ==
    LET before == {x \in Range(entries) : Precedes(x, e)}
    IN  Those(entries, before) \o <<e>> \o Those(entries, Range(entries) \ before)

\* The entries of a log, if all classes are loaded; a line without a time stamp
\* has none.
Entries(log) ==
    LET entries[n \in 0 .. Len(log)] ==
            IF n = 0 THEN <<>>
            ELSE IF log[n].stamped THEN Insert(entries[n - 1], Entry(log[n], n))
            ELSE entries[n - 1]
    IN  entries[Len(log)]

\* The logs of an archive as the index of the cache knows them: by the time stamp
\* of the first line.
Logs(archive) ==
    [i \in DOMAIN archive |->
        [first |-> archive[i][1].time, entries |-> Entries(archive[i])]]

\* Mutant of AnswerFile: the walk through the file begins with the oldest entry.
AnswerFileForwards(log, f, authUser, loaded, answer) ==
    LET held == {e \in Range(log.entries) :
                    e.class \in loaded /\ e.time \in Since(f) .. Until(f)}
    IN  [rows |-> answer.rows \o Chosen(f, authUser, Those(log.entries, held)),
         more |-> \A e \in held : e.time > Since(f)]

\* Logfile::answerQueryReverse: from the last entry not after until down to one
\* before since.  The cache may hold classes that the query has not asked for.
AnswerFile(log, f, authUser, loaded, answer) ==
    LET held == {e \in Range(log.entries) : e.class \in loaded /\ e.time <= Until(f)}
        visible == Reverse(Those(log.entries, held))
        tooOld == {i \in DOMAIN visible : visible[i].time < Since(f)}
        inRange == SubSeq(visible, 1, Min({Len(visible)} \cup {i - 1 : i \in tooOld}))
    IN  [rows |-> answer.rows \o Chosen(f, authUser, inRange), more |-> tooOld = {}]

\* The position of the first log the walk enters: the newest that begins no
\* later than until, or the oldest one.
NewestFor(logs, until) ==
    Max({1} \cup {i \in DOMAIN logs : logs[i].first <= until})

FirstOf(rows, limit) ==
    IF limit = NoLimit THEN rows ELSE SubSeq(rows, 1, Min({limit, Len(rows)}))

\* TableLog::answerQuery.  processDataset ends the walk at the limit.
AnswerQuery(logs, f, authUser, limit, extra) ==
    LET start == NewestFor(logs, Until(f))
        loaded == ClassMask(f) \cup extra
        answer[n \in 0 .. start] ==
            IF n = 0 THEN [rows |-> <<>>, more |-> TRUE]
            ELSE IF ~answer[n - 1].more THEN answer[n - 1]
            ELSE AnswerFile(logs[start - n + 1], f, authUser, loaded, answer[n - 1])
    IN  IF logs = <<>> \/ ClassMask(f) = {} \/ logs[start].first > Until(f) THEN <<>>
        ELSE FirstOf(answer[start].rows, limit)

------------------------------------------------------------------------------
\* Logs follow one another in time: none has a line older than its first one,
\* which is no older than the lines of the log before.  The cache knows no log
\* that begins without a time stamp.
InOrder(archive) ==
    \A i, j \in DOMAIN archive :
        /\ archive[i] # <<>> /\ archive[i][1].stamped
        /\ \A line \in Range(archive[i]) : line.stamped =>
              /\ archive[i][1].time <= line.time
              /\ i < j => line.time <= archive[j][1].time

\* A notification has all its fields, of which the command is that of Check_MK.
NotifiesByCheckMk(line) ==
    LET def == DefinitionOf(line) IN
    def.class = "hs_notification" =>
        /\ DOMAIN line.fields = DOMAIN def.params
        /\ Field(def, line, "command", NoState) = <<"check-mk-notify">>
        /\ Field(def, line, "statetype", NoState) # <<"check-mk-notify">>

\* The columns are those of Row, and no line is from the future.
ASSUME TableLogAssumption ==
    /\ ColumnType = [time |-> "time", class |-> "int", name |-> "string", groups |-> "list"]
    /\ MessageClasses = Range(ClassNumber) /\ MessageClasses \subseteq 0 .. MaxInt
    /\ KnownServices \subseteq KnownHosts \X STRING
    /\ \A user \in Users :
          /\ user.hosts \subseteq KnownHosts /\ user.services \subseteq KnownServices
          /\ user.authorization \in {"loose", "strict"}
    /\ NoUser \notin Users
    /\ Now \in Nat /\ Now < MaxInt /\ Limits \subseteq Nat \cup {NoLimit}
    /\ {TimezoneOffset, Now + TimezoneOffset} \subseteq MinInt .. MaxInt
    /\ \A line \in Lines :
          /\ DOMAIN line = {"stamped", "time", "text", "fields", "phrases"}
          /\ line.stamped \in BOOLEAN /\ line.time \in 0 .. Now
    /\ Archives \subseteq Seq(Seq(Lines)) /\ AllTexts \in Seq(Seq(Lines))
    /\ \A archive \in Archives : InOrder(archive)
    /\ \A log \in Range(AllTexts) : \A line \in Range(log) : NotifiesByCheckMk(line)

\* What a user may see of the lines of a host.
MayBeSeen(entry, user) ==
    /\ entry.name \in KnownHosts
    /\ entry.name \in user.hosts \/ ServiceOf(entry) \in user.services
    /\ user.authorization = "strict" /\ ServiceOf(entry) \in KnownServices =>
          ServiceOf(entry) \in user.services

AllLogs == {Logs(archive) : archive \in Archives}
LogsOfTexts == Logs(AllTexts)

\* The answer that a client expects: from all lines of all logs those it asks
\* for, the newest first, as many as it wants.
Expected(logs, f, authUser, limit) ==
    FirstOf(Chosen(f, authUser, Reverse(FlattenSeq([i \in DOMAIN logs |-> logs[i].entries]))),
            limit)

\* The choice of files, entry points and classes by the bounds of the filter
\* loses no line and changes no order, whatever earlier queries have left in the
\* cache: as long as the bounds are sound (EvenBoundsSound) and the upper one is
\* not the largest int, after which until would overflow, and no line is from
\* the future.
LogAnswerExact ==
    ~failed /\ EvenOrs(Filter) /\ LeastUpperBoundFor(Filter, "time") # {MaxInt} =>
        \A logs \in AllLogs, authUser \in Users \cup {NoUser}, limit \in Limits,
           extra \in {{}, Range(ClassNumber)} :
            AnswerQuery(logs, Filter, authUser, limit, extra)
                = Expected(logs, Filter, authUser, limit)

\* Every line that names a host, whatever its text, is shown to a user only if
\* the host still exists (TableLog.cc: "suppress entries for messages that belong
\* to hosts that do not exist anymore") and the user is a contact of the host or
\* of the service that the line names; with strict authorization a contact of
\* the host alone is shown no line of its services.  The classes that the table
\* of texts gives are those that isAuthorized hides.
UsersSeeTheirHosts ==
    \A user \in Users :
        LET rows == AnswerQuery(LogsOfTexts, Filter, user, NoLimit, {})
        IN  \A i \in DOMAIN rows : rows[i].name # NoName => MayBeSeen(rows[i], user)

\* The line of a notification with its two fields in the other order.
OtherOrder(line) ==
    LET def == DefinitionOf(line)
        At(i) == CASE def.params[i] = "statetype" -> Field(def, line, "command", NoState)
                   [] def.params[i] = "command" -> Field(def, line, "statetype", NoState)
                   [] OTHER -> line.fields[i]
    IN  IF def.class # "hs_notification" THEN line
        ELSE [line EXCEPT !.fields = [i \in DOMAIN def.params |-> At(i)]]

OtherTexts ==
    [n \in DOMAIN AllTexts |-> [i \in DOMAIN AllTexts[n] |-> OtherOrder(AllTexts[n][i])]]

LogsOfOtherTexts == Logs(OtherTexts)

\* A log is answered alike in whichever order its notifications were written.
NotificationsReadAlike ==
    AnswerQuery(LogsOfTexts, Filter, NoUser, NoLimit, {})
        = AnswerQuery(LogsOfOtherTexts, Filter, NoUser, NoLimit, {})
==============================================================================
