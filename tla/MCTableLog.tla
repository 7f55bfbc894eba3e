------------------------------ MODULE MCTableLog ------------------------------
(* Small instances of FilterStack, TableLog and HistoryReader for TLC. *)
EXTENDS HistoryReader

Column(col, op, ref) == [kind |-> "column", col |-> col, op |-> op, ref |-> ref]

\* A start, the end of the range of an int and an equality for the bounds, the
\* classes with a bit, a name and a group.
SomeLeaves ==
    {Column("time", "greater", 2), Column("time", "less", -15),
     Column("time", "equal", 2), Column("class", "matches_icase", 1),
     Column("name", "equal", "a"), Column("groups", "greater_or_equal", "a")}

SomeColumnFilters ==
    UNION {{[f EXCEPT !.op = op] : op \in OperatorsOf(ColumnType[f.col])} :
           f \in SomeLeaves}

ZeroOne == {0, 1}
Classes == Range(ClassNumber)
Types == [time |-> "time", class |-> "int", name |-> "string", groups |-> "list"]
AllRows == [time : 1 .. 3, class : ZeroOne, name : {"a", "b"},
            groups : SUBSET {"a", "b"}]

Alert(time, host) ==
    [stamped |-> TRUE, time |-> time, text |-> "HOST ALERT",
     fields |-> <<host, <<"DOWN">>>>, phrases |-> {}]
Info(time) ==
    [stamped |-> TRUE, time |-> time, text |-> "Auto-save", fields |-> <<>>,
     phrases |-> {}]
Torn == [Info(1) EXCEPT !.stamped = FALSE]

\* Logs that end within a second in which the next begins or does not; a host a
\* that exists and one that does not.
SomeArchives ==
    {<<>>,
     <<<<Info(1), Alert(1, "a"), Torn, Alert(2, "b")>>,
       <<Info(3), Alert(3, "a")>>>>,
     <<<<Info(1), Alert(1, "b"), Alert(2, "a")>>,
       <<Info(2), Alert(2, "a"), Alert(3, "b")>>>>,
     <<<<Alert(1, "a")>>, <<Alert(2, "a")>>, <<Info(3), Alert(3, "a")>>>>}

OneOrAll == {NoLimit, 1}
SomeGroups == [a |-> {"a"}, c |-> {}]

\* Contacts of a host and of the service of another one; with strict
\* authorization, one of both hosts and of that service only.
SomeServices == {<<"a", "s">>, <<"c", "s">>}
SomeUsers ==
    {[hosts |-> {"a"}, services |-> {<<"c", "s">>}, authorization |-> "loose"],
     [hosts |-> {"a", "c"}, services |-> {<<"c", "s">>}, authorization |-> "strict"]}

\* Lines of every text, of the host a and of the host b that does not exist, and
\* the alerts of the host c.
Line(def, host, state) ==
    [stamped |-> TRUE, time |-> IF host = "a" THEN 1 ELSE 2, text |-> def.text,
     fields |-> [i \in DOMAIN def.params |->
                    CASE def.params[i] = "host" -> host
                      [] def.params[i] = "svc" -> "s"
                      [] def.params[i] = "state" -> 1
                      [] def.params[i] = "command" -> <<"check-mk-notify">>
                      [] OTHER -> state],
     phrases |-> {}]
EveryText ==
    LET Log(defs, host, state) ==
            FoldSet(LAMBDA def, log : Append(log, Line(def, host, state)), <<>>, defs)
        alerts == {def \in LogDefinitions : def.class = "alert"}
    IN  <<Log(LogDefinitions, "a", <<"CRITICAL">>), Log(alerts, "c", <<"CRITICAL">>),
          Log(LogDefinitions, "b", <<"ALERTHANDLER", "CRITICAL">>)>>

EveryLine ==
    UNION {Range(log) : log \in UNION {Range(archive) :
               archive \in SomeArchives \cup {EveryText}}}
==============================================================================
