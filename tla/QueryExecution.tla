---------------------------- MODULE QueryExecution ----------------------------
(***************************************************************************)
(* A GET query: src/Query.cc without the filter headers, which FilterStack *)
(* models, and the tables of hosts, services and their groups.             *)
(*                                                                         *)
(* The table walks over the objects of Nagios, through an index if the     *)
(* filter restricts a column that has one, and hands row after row to      *)
(* processDataset, which writes it or feeds the aggregators, and says when *)
(* to stop: for the termination flag, for the size of the answer, Limit    *)
(* and Timelimit.                                                          *)
(*                                                                         *)
(* A filter is the set of rows it accepts, with the values it restricts    *)
(* columns to.  What the rows, headers and separators look like is left    *)
(* out; so are the aggregations std, suminv and avginv.                    *)
(***************************************************************************)
EXTENDS Integers, Sequences, FiniteSets, Functions

CONSTANTS
    Null,            \* no object, no group, AuthUser not given
    HostList,        \* host_list, service_list, hostgroup_list and
    ServiceList,     \* servicegroup_list of Nagios
    HostGroupList,
    ServiceGroupList,
    HostOf,          \* the host of each service
    ServicesOf,      \* the list of services of each host
    HostMembers,     \* the list of members of each host group
    ServiceMembers,  \* and of each service group
    HostContacts,    \* contacts of hosts and services, with escalations
    ServiceContacts,
    Users,           \* the contacts
    UnknownUser,     \* unknown_auth_user()
    ServiceAuthorization, \* "loose" or "strict"
    GroupAuthorization,
    Filters,         \* the filters that headers build, for each table
    AcceptedRows,    \* the rows of each table that a filter accepts
    Restriction,     \* stringValueRestrictionFor by table, filter and column
    AnyColumns,      \* columns for Columns and Stats headers
    NumericColumns,  \* those with an aggregator of their own
    StatsColumns,    \* bound: the columns of Stats headers, for each table
    Field,           \* the value of a column, by table, column and row
    MaxLimit,        \* bound: of Limit
    MaxHeaders,      \* bound: number of headers
    MaxResponseSize  \* _max_response_size, in rows

Hosts == Range(HostList)
Services == Range(ServiceList)
HostGroups == Range(HostGroupList)
ServiceGroups == Range(ServiceGroupList)

Tables == {"hosts", "services", "hostgroups", "servicegroups", "hostsbygroup",
           "servicesbygroup", "servicesbyhostgroup"}

\* A row, or something that contains rows.
Item(g, h, s) == [group |-> g, host |-> h, service |-> s]

Objects(t) ==
    CASE t = "hosts" -> {Item(Null, h, Null) : h \in Hosts}
      [] t = "services" -> {Item(Null, HostOf[s], s) : s \in Services}
      [] t = "hostgroups" -> {Item(g, Null, Null) : g \in HostGroups}
      [] t = "servicegroups" -> {Item(g, Null, Null) : g \in ServiceGroups}
      [] t = "hostsbygroup" ->
            {Item(g, h, Null) : g \in HostGroups, h \in Hosts}
      [] t = "servicesbygroup" ->
            {Item(g, HostOf[s], s) : g \in ServiceGroups, s \in Services}
      [] t = "servicesbyhostgroup" ->
            {Item(g, HostOf[s], s) : g \in HostGroups, s \in Services}

\* The rows of a table: in those by group the object is in the group.
TableRows(t) ==
    {row \in Objects(t) :
        /\ t \in {"hostsbygroup", "servicesbyhostgroup"} =>
               row.host \in Range(HostMembers[row.group])
        /\ t = "servicesbygroup" =>
               row.service \in Range(ServiceMembers[row.group])}

\* What a filter accepts has the value it restricts an index column to:
\* StringRestrictionSound of FilterStack.
RestrictionsSound(t, f) ==
    \A row \in AcceptedRows[t][f] :
        /\ t = "hosts" => \A v \in Restriction[t][f]["groups"] :
               v \in HostGroups /\ row.host \in Range(HostMembers[v])
        /\ t = "services" =>
            /\ \A v \in Restriction[t][f]["host_name"] : row.host = v
            /\ \A v \in Restriction[t][f]["groups"] :
                   v \in ServiceGroups /\ row.service \in Range(ServiceMembers[v])
            /\ \A v \in Restriction[t][f]["host_groups"] :
                   v \in HostGroups /\ row.host \in Range(HostMembers[v])

IndexColumns == {"host_name", "groups", "host_groups"}

\* StatsColumnCount and StatsColumnOp: the first counts the rows of a filter.
Counting(rows) == [op |-> "count", accepts |-> rows, column |-> Null]
Aggregating(t, op, col) ==
    [op |-> op, accepts |-> TableRows(t), column |-> col]

StatsColumnsOf(t) ==
    {Counting(rows) : rows \in SUBSET TableRows(t)}
    \cup {Aggregating(t, op, col) : op \in {"sum", "min", "max", "avg"},
                                   col \in AnyColumns}

NoDuplicates(list) ==
    \A i, j \in DOMAIN list : list[i] = list[j] => i = j

\* The objects of Nagios refer to each other consistently, and its lists name
\* nothing twice.
ASSUME NagiosAssumption ==
    /\ Null \notin Hosts \cup Services \cup HostGroups \cup ServiceGroups
    /\ HostList \in Seq(Hosts) /\ ServiceList \in Seq(Services)
    /\ HostGroupList \in Seq(HostGroups)
    /\ ServiceGroupList \in Seq(ServiceGroups)
    /\ HostOf \in [Services -> Hosts]
    /\ ServicesOf \in [Hosts -> Seq(Services)]
    /\ \A h \in Hosts : Range(ServicesOf[h]) = {s \in Services : HostOf[s] = h}
    /\ HostMembers \in [HostGroups -> Seq(Hosts)]
    /\ ServiceMembers \in [ServiceGroups -> Seq(Services)]
    /\ NoDuplicates(HostList) /\ NoDuplicates(ServiceList)
    /\ NoDuplicates(HostGroupList) /\ NoDuplicates(ServiceGroupList)
    /\ \A h \in Hosts : NoDuplicates(ServicesOf[h])
    /\ \A g \in HostGroups : NoDuplicates(HostMembers[g])
    /\ \A g \in ServiceGroups : NoDuplicates(ServiceMembers[g])
    /\ HostContacts \in [Hosts -> SUBSET Users]
    /\ ServiceContacts \in [Services -> SUBSET Users]
    /\ Null \notin Users /\ UnknownUser \notin Users \cup {Null}

ASSUME FilterAssumption ==
    \A t \in Tables : \A f \in Filters[t] :
        /\ AcceptedRows[t][f] \subseteq TableRows(t)
        /\ DOMAIN Restriction[t][f] = IndexColumns
        /\ RestrictionsSound(t, f)

ASSUME BoundAssumption ==
    /\ NumericColumns \subseteq AnyColumns /\ Null \notin AnyColumns
    /\ \A t \in Tables : StatsColumns[t] \subseteq StatsColumnsOf(t)
    /\ {MaxLimit, MaxHeaders, MaxResponseSize} \subseteq Nat
    /\ \A t \in Tables, col \in NumericColumns :
           Field[t][col] \in [TableRows(t) -> Int]

VARIABLES
    table,           \* _table
    pc,              \* "headers", "table" or "done"
    numHeaders,      \* headers read, for the bound
    filter,          \* _filter
    columns,         \* _columns; empty means all in a query without Stats
    statsColumns,    \* _stats_columns
    groups,          \* _stats_groups
    authUser,        \* _auth_user
    limit,           \* _limit
    timeLimit,       \* _time_limit >= 0
    late,            \* the clock has reached _time_limit_timeout
    shouldTerminate, \* the termination flag
    todo,            \* where the walk over the table is, first things first
    currentLine,     \* _current_line
    consumed,        \* the rows written or aggregated, in this order
    error            \* the response code: the first error there was

headerVars == <<table, filter, columns, statsColumns, authUser, limit,
                timeLimit, numHeaders>>
environmentVars == <<late, shouldTerminate>>
walkVars == <<pc, todo, currentLine, consumed, groups, error>>
vars == <<headerVars, environmentVars, walkVars>>

Init ==
    /\ table \in Tables
    /\ pc = "headers"
    /\ numHeaders = 0
    /\ filter = Null
    /\ columns = <<>>
    /\ statsColumns = <<>>
    /\ groups = <<>>
    /\ authUser = Null
    /\ limit = -1
    /\ timeLimit = FALSE
    /\ late = FALSE
    /\ shouldTerminate = FALSE
    /\ todo = <<>>
    /\ currentLine = 0
    /\ consumed = <<>>
    /\ error = "ok"

\* OutputBuffer::setError: the first error is the one that is reported.
SetError(code) == error' = IF error = "ok" THEN code ELSE error

DoStats == statsColumns # <<>>

------------------------------------------------------------------------------
\* Headers.

Header ==
    /\ pc = "headers"
    /\ numHeaders < MaxHeaders
    /\ numHeaders' = numHeaders + 1
    /\ UNCHANGED <<pc, table, filter, groups, late, shouldTerminate, todo,
                   currentLine, consumed>>

\* parseLimitLine
LimitLine(n) ==
    /\ Header
    /\ limit' = n
    /\ UNCHANGED <<columns, statsColumns, authUser, timeLimit, error>>

\* parseTimelimitLine
TimelimitLine ==
    /\ Header
    /\ timeLimit' = TRUE
    /\ UNCHANGED <<columns, statsColumns, authUser, limit, error>>

\* parseAuthUserHeader: nobody is refused.
AuthUserLine(u) ==
    /\ Header
    /\ authUser' = IF u \in Users THEN u ELSE UnknownUser
    /\ UNCHANGED <<columns, statsColumns, limit, timeLimit, error>>

\* parseColumnsLine, for each column
ColumnsLine(col) ==
    /\ Header
    /\ columns' = Append(columns, col)
    /\ UNCHANGED <<statsColumns, authUser, limit, timeLimit, error>>

\* parseStatsLine
StatsLine(column) ==
    /\ Header
    /\ statsColumns' = Append(statsColumns, column)
    /\ UNCHANGED <<columns, authUser, limit, timeLimit, error>>

\* The i-th column from the top has a filter that stealFilter gives away.
Stealable(i) ==
    /\ i <= Len(statsColumns)
    /\ statsColumns[Len(statsColumns) - i + 1].op = "count"

Below(n) == SubSeq(statsColumns, 1, Len(statsColumns) - n)
TopFilters(n) ==
    {statsColumns[Len(statsColumns) - i + 1].accepts : i \in 1 .. n}

\* parseStatsAndOrLine: the columns on top of one that has no filter to give
\* are lost.
CombineStats(n, rows) ==
    /\ Header
    /\ IF \A i \in 1 .. n : Stealable(i)
       THEN /\ statsColumns' = Append(Below(n), Counting(rows))
            /\ UNCHANGED error
       ELSE \E k \in 1 .. n :
                /\ ~Stealable(k)
                /\ \A i \in 1 .. k - 1 : Stealable(i)
                /\ statsColumns' = Below(k - 1)
                /\ SetError("invalid_header")
    /\ UNCHANGED <<columns, authUser, limit, timeLimit>>

StatsAndLine(n) ==
    CombineStats(n, {row \in TableRows(table) :
                        \A rows \in TopFilters(n) : row \in rows})
StatsOrLine(n) == CombineStats(n, UNION TopFilters(n))

\* parseStatsNegateLine
StatsNegateLine ==
    /\ Header
    /\ IF Stealable(1)
       THEN /\ statsColumns' =
                   Append(Below(1), Counting(TableRows(table)
                                                 \ UNION TopFilters(1)))
            /\ UNCHANGED error
       ELSE /\ SetError("invalid_header")
            /\ UNCHANGED statsColumns
    /\ UNCHANGED <<columns, authUser, limit, timeLimit>>

------------------------------------------------------------------------------
\* The walk over a table.

HostItems(hosts, g) == [i \in DOMAIN hosts |-> Item(g, hosts[i], Null)]
ServiceItems(services, g) ==
    [i \in DOMAIN services |-> Item(g, HostOf[services[i]], services[i])]
GroupItems(gs) == [i \in DOMAIN gs |-> Item(gs[i], Null, Null)]

\* find_hostgroup and find_servicegroup may find nothing.
HostsOfGroup(g) ==
    IF g \in HostGroups THEN HostItems(HostMembers[g], Null) ELSE <<>>
ServicesOfGroup(g) ==
    IF g \in ServiceGroups THEN ServiceItems(ServiceMembers[g], Null) ELSE <<>>

The(restriction) == CHOOSE v \in restriction : TRUE

\* TableHosts::answerQuery
AnswerHosts(restriction) ==
    IF restriction["groups"] # {}
    THEN HostsOfGroup(The(restriction["groups"]))
    ELSE HostItems(HostList, Null)

\* TableServices::answerQuery: by the host, if there is one with this name, by
\* the service group, by the host group, or all.
AnswerServices(restriction) ==
    LET found == restriction["host_name"] \cap Hosts
    IN  IF found # {} THEN ServiceItems(ServicesOf[The(found)], Null)
        ELSE IF restriction["groups"] # {}
        THEN ServicesOfGroup(The(restriction["groups"]))
        ELSE IF restriction["host_groups"] # {}
        THEN HostsOfGroup(The(restriction["host_groups"]))
        ELSE ServiceItems(ServiceList, Null)

\* answerQuery of the tables
AnswerQuery(t, restriction) ==
    CASE t = "hosts" -> AnswerHosts(restriction)
      [] t = "services" -> AnswerServices(restriction)
      [] t \in {"hostgroups", "hostsbygroup", "servicesbyhostgroup"} ->
            GroupItems(HostGroupList)
      [] t \in {"servicegroups", "servicesbygroup"} ->
            GroupItems(ServiceGroupList)

IsRow(item) ==
    CASE table \in {"hostgroups", "servicegroups"} -> TRUE
      [] table \in {"hosts", "hostsbygroup"} -> item.host # Null
      [] OTHER -> item.service # Null

\* is_authorized_for a host or a service
IsAuthorizedFor(u, h, s) ==
    /\ u # UnknownUser
    /\ \/ s = Null /\ u \in HostContacts[h]
       \/ s # Null /\ u \in ServiceContacts[s]
       \/ s # Null /\ ServiceAuthorization = "loose" /\ u \in HostContacts[h]

AnyOrAll(S, u) ==
    IF GroupAuthorization = "loose"
    THEN \E item \in S : IsAuthorizedFor(u, item.host, item.service)
    ELSE \A item \in S : IsAuthorizedFor(u, item.host, item.service)

\* is_authorized_for_host_group and is_authorized_for_service_group
IsAuthorizedForHostGroup(u, g) ==
    u # UnknownUser /\ AnyOrAll(Range(HostsOfGroup(g)), u)
IsAuthorizedForServiceGroup(u, g) ==
    u # UnknownUser /\ AnyOrAll(Range(ServicesOfGroup(g)), u)

\* isAuthorized of the tables
IsAuthorized(row, u) ==
    CASE table = "hostgroups" -> IsAuthorizedForHostGroup(u, row.group)
      [] table = "servicegroups" -> IsAuthorizedForServiceGroup(u, row.group)
      [] OTHER -> IsAuthorizedFor(u, row.host, row.service)

\* Two tables by group leave out whole groups if these are hidden.
HidesGroup(g) ==
    /\ authUser # Null
    /\ GroupAuthorization = "strict"
    /\ \/ table = "hostsbygroup" /\ ~IsAuthorizedForHostGroup(authUser, g)
       \/ table = "servicesbygroup" /\ ~IsAuthorizedForServiceGroup(authUser, g)

Contents(item) ==
    CASE item.host # Null -> ServiceItems(ServicesOf[item.host], item.group)
      [] item.host = Null /\ HidesGroup(item.group) -> <<>>
      [] item.host = Null /\ ~HidesGroup(item.group)
         /\ table = "servicesbygroup" ->
            ServiceItems(ServiceMembers[item.group], item.group)
      [] OTHER -> HostItems(HostMembers[item.group], item.group)

------------------------------------------------------------------------------
\* Statistics.

NewAggregator == [n |-> 0, value |-> 0]

\* Mutant of Aggregate: the minimum starts from zero.
AggregateMinFromZero(aggr, op, x) ==
    [n |-> aggr.n + 1,
     value |-> CASE op \in {"sum", "avg"} -> aggr.value + x
                 [] op = "min" -> IF x < aggr.value THEN x ELSE aggr.value
                 [] op = "max" -> IF aggr.n = 0 \/ x > aggr.value THEN x
                                  ELSE aggr.value]

\* update of the aggregations: n is _count, and 0 while _first.
Aggregate(aggr, op, x) ==
    [n |-> aggr.n + 1,
     value |-> CASE op \in {"sum", "avg"} -> aggr.value + x
                 [] op = "min" -> IF aggr.n = 0 \/ x < aggr.value THEN x
                                  ELSE aggr.value
                 [] op = "max" -> IF aggr.n = 0 \/ x > aggr.value THEN x
                                  ELSE aggr.value]

\* consume: a column without aggregations counts instead.
Consume(aggr, column, row) ==
    IF column.column \in NumericColumns
    THEN Aggregate(aggr, column.op, Field[table][column.column][row])
    ELSE IF row \in column.accepts THEN Aggregate(aggr, "sum", 1)
    ELSE aggr

\* The RowFragment of a row.
Fragment(row) == [i \in DOMAIN columns |-> Field[table][columns[i]][row]]

\* getAggregatorsFor
AggregatorsFor(fragment) ==
    IF fragment \in DOMAIN groups THEN groups[fragment]
    ELSE [i \in DOMAIN statsColumns |-> NewAggregator]

------------------------------------------------------------------------------
\* Query::process, up to the first row.
StartQuery(f) ==
    /\ pc = "headers"
    /\ pc' = "table"
    /\ filter' = f
    /\ groups' = IF DoStats /\ columns = <<>>
                 THEN [fragment \in {<<>>} |-> AggregatorsFor(fragment)]
                 ELSE <<>>
    /\ todo' = AnswerQuery(table, Restriction[table][f])
    /\ UNCHANGED <<table, columns, statsColumns, authUser, limit, timeLimit,
                   numHeaders, environmentVars, currentLine, consumed, error>>

\* The loop of a table enters a group or a host.
Enter ==
    /\ pc = "table"
    /\ todo # <<>>
    /\ ~IsRow(Head(todo))
    /\ todo' = Contents(Head(todo)) \o Tail(todo)
    /\ UNCHANGED <<headerVars, environmentVars, pc, currentLine, consumed,
                   groups, error>>

\* processDataset: the queries with Stats have written nothing yet.
TooLarge == ~DoStats /\ Len(consumed) > MaxResponseSize

Row == Head(todo)
AtRow ==
    /\ pc = "table"
    /\ todo # <<>>
    /\ IsRow(Row)
    /\ UNCHANGED <<headerVars, environmentVars, pc>>

\* Mutant of Selected: the contacts are not looked at.
SelectedForAnyone == Row \in AcceptedRows[table][filter]

Selected ==
    /\ Row \in AcceptedRows[table][filter]
    /\ authUser # Null => IsAuthorized(Row, authUser)

\* The answer of processDataset is false.
Stop == todo' = <<>> /\ UNCHANGED <<consumed, groups>>

RefuseWhenTerminating ==
    /\ AtRow
    /\ shouldTerminate
    /\ Stop
    /\ SetError("limit_exceeded")
    /\ UNCHANGED currentLine

RefuseWhenTooLarge ==
    /\ AtRow
    /\ ~shouldTerminate /\ TooLarge
    /\ Stop
    /\ UNCHANGED <<currentLine, error>>

SkipRow ==
    /\ AtRow
    /\ ~shouldTerminate /\ ~TooLarge
    /\ ~Selected
    /\ todo' = Tail(todo)
    /\ UNCHANGED <<currentLine, consumed, groups, error>>

\* The row counts.
CountRow ==
    /\ AtRow
    /\ ~shouldTerminate /\ ~TooLarge
    /\ Selected
    /\ currentLine' = currentLine + 1

LimitReached == limit >= 0 /\ currentLine + 1 > limit

RefuseAtLimit ==
    /\ CountRow
    /\ LimitReached
    /\ Stop
    /\ UNCHANGED error

\* Mutant of RefuseAtTimeLimit: like Limit, without an error.
RefuseAtTimeLimitSilently ==
    /\ CountRow
    /\ ~LimitReached
    /\ timeLimit /\ late
    /\ Stop
    /\ UNCHANGED error

RefuseAtTimeLimit ==
    /\ CountRow
    /\ ~LimitReached
    /\ timeLimit /\ late
    /\ Stop
    /\ SetError("limit_exceeded")

ConsumeRow ==
    /\ CountRow
    /\ ~LimitReached
    /\ ~(timeLimit /\ late)
    /\ todo' = Tail(todo)
    /\ consumed' = Append(consumed, Row)
    /\ groups' =
        IF ~DoStats THEN groups
        ELSE LET fragment == Fragment(Row)
                 aggrs == AggregatorsFor(fragment)
                 fed == [i \in DOMAIN statsColumns |->
                            Consume(aggrs[i], statsColumns[i], Row)]
             IN  [x \in DOMAIN groups \cup {fragment} |->
                     IF x = fragment THEN fed ELSE groups[x]]
    /\ UNCHANGED error

\* Query::finish: what is in the groups is written.
Finish ==
    /\ pc = "table"
    /\ todo = <<>>
    /\ pc' = "done"
    /\ UNCHANGED <<headerVars, environmentVars, todo, currentLine, consumed,
                   groups, error>>

------------------------------------------------------------------------------
\* time(nullptr) >= _time_limit_timeout; before the first row it makes no
\* difference when.
ClockPasses ==
    /\ pc = "table" /\ timeLimit /\ ~late
    /\ late' = TRUE
    /\ UNCHANGED <<headerVars, shouldTerminate, walkVars>>

\* Nagios terminates the threads.
Terminate ==
    /\ pc = "table" /\ ~shouldTerminate
    /\ shouldTerminate' = TRUE
    /\ UNCHANGED <<headerVars, late, walkVars>>

Next ==
    \/ \E n \in 0 .. MaxLimit : LimitLine(n)
    \/ TimelimitLine
    \/ \E u \in Users \cup {UnknownUser} : AuthUserLine(u)
    \/ \E col \in AnyColumns : ColumnsLine(col)
    \/ \E column \in StatsColumns[table] : StatsLine(column)
    \/ \E n \in 0 .. MaxHeaders : StatsAndLine(n) \/ StatsOrLine(n)
    \/ StatsNegateLine
    \/ \E f \in Filters[table] : StartQuery(f)
    \/ Enter
    \/ RefuseWhenTerminating
    \/ RefuseWhenTooLarge
    \/ SkipRow
    \/ RefuseAtLimit
    \/ RefuseAtTimeLimit
    \/ ConsumeRow
    \/ Finish
    \/ ClockPasses
    \/ Terminate

Spec == Init /\ [][Next]_vars

------------------------------------------------------------------------------
(* Properties *)

\* What the query is to answer: the rows of the table that the filter accepts
\* and the user may see.
Wanted ==
    {row \in TableRows(table) :
        /\ row \in AcceptedRows[table][filter]
        /\ authUser # Null => IsAuthorized(row, authUser)
        /\ ~HidesGroup(row.group)}

\* No row is answered twice, none that the filter refuses, and none that the
\* user may not see, through whatever index the table is walked.
OnlyWantedRowsOnce ==
    /\ \A i \in DOMAIN consumed : consumed[i] \in Wanted
    /\ \A i, j \in DOMAIN consumed : consumed[i] = consumed[j] => i = j

\* "When we reach the time limit we let the query fail.  Otherwise the user will
\* not know that the answer is incomplete" (Query.cc:672): rows are missing only
\* in an answer with an error, one with as many rows as Limit says, or one that
\* exceeds the maximum response size.
MissingRowsExplained ==
    pc = "done" =>
        \/ Wanted \subseteq Range(consumed)
        \/ error # "ok"
        \/ Len(consumed) = limit
        \/ ~DoStats /\ Len(consumed) > MaxResponseSize

\* What a statistics column should say of the rows with indices in K.
Expected(column, K) ==
    LET values == {Field[table][column.column][consumed[k]] : k \in K}
        Summed == FoldFunctionOnSet(+, 0,
                      [k \in K |-> Field[table][column.column][consumed[k]]], K)
    IN  IF column.column \notin NumericColumns
        THEN Cardinality({k \in K : consumed[k] \in column.accepts})
        ELSE CASE column.op \in {"sum", "avg"} -> Summed
               [] column.op = "min" ->
                     IF K = {} THEN 0
                     ELSE CHOOSE x \in values : \A y \in values : x <= y
               [] column.op = "max" ->
                     IF K = {} THEN 0
                     ELSE CHOOSE x \in values : \A y \in values : x >= y

\* There is one row of statistics for every combination of values in the
\* columns, and one without columns even if no row is selected; each says what
\* it should of the rows that belong to it, whatever Stats headers were combined.
StatsExact ==
    pc = "done" /\ DoStats =>
        /\ DOMAIN groups = {Fragment(row) : row \in Range(consumed)}
                           \cup (IF columns = <<>> THEN {<<>>} ELSE {})
        /\ \A fragment \in DOMAIN groups, i \in DOMAIN statsColumns :
               LET K == {k \in DOMAIN consumed : Fragment(consumed[k]) = fragment}
                   aggr == groups[fragment][i]
               IN  /\ aggr.value = Expected(statsColumns[i], K)
                   /\ statsColumns[i].op = "avg"
                      /\ statsColumns[i].column \in NumericColumns
                          => aggr.n = Cardinality(K)
===============================================================================
