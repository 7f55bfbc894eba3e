--------------------------- MODULE MCQueryExecution ---------------------------
(* Two hosts with three services for TLC, and filters as FilterStack builds   *)
(* them.  A column that a table does not have stands for any other one.       *)
EXTENDS QueryExecution

Leaf(col, op, ref) == [kind |-> "column", col |-> col, op |-> op, ref |-> ref]
Critical == Leaf("state", "greater", 1)
OnHost(h) == Leaf("host_name", "equal", h)
In(g) == Leaf("groups", "greater_or_equal", g)
InHostGroup(g) == Leaf("host_groups", "greater_or_equal", g)

SomeColumnFilters ==
    {Leaf("state", op, 1) : op \in {"greater", "less_or_equal"}}
    \cup {Leaf("host_name", op, h) : op \in {"equal", "not_equal"}, h \in {"h1", "h3"}}
    \cup {Leaf("groups", op, g) : op \in {"greater_or_equal", "less"},
                                  g \in {"http", "all"}}
    \cup {Leaf("host_groups", op, "web") : op \in {"greater_or_equal", "less"}}

F == INSTANCE Filters WITH
        MaxInt <- 3,
        IntBits <- 3,
        TimezoneOffset <- 0,
        MessageClasses <- {0, 1, 2},
        ColumnType <- [host_name |-> "string", groups |-> "list",
                       host_groups |-> "list", state |-> "int"],
        ColumnFilters <- SomeColumnFilters,
        MaxDepth <- 2,
        Rows <- {}

TwoHosts == <<"h1", "h2">>
ThreeServices == <<"s1", "s2", "s3">>
TwoHostGroups == <<"all", "web">>
OneServiceGroup == <<"http">>
HostOfService == [s \in {"s1", "s2", "s3"} |-> IF s = "s3" THEN "h2" ELSE "h1"]
ServicesOfHost == [h \in {"h1", "h2"} |->
                      IF h = "h1" THEN <<"s1", "s2">> ELSE <<"s3">>]
MembersOfHostGroup == [g \in {"all", "web"} |->
                          IF g = "all" THEN <<"h2", "h1">> ELSE <<"h1">>]
MembersOfServiceGroup == [g \in {"http"} |-> <<"s1", "s3">>]
ContactsOfHost == [h \in {"h1", "h2"} |-> IF h = "h1" THEN {"joe"} ELSE {}]
ContactsOfService == [s \in {"s1", "s2", "s3"} |-> {}]
OneUser == {"joe"}

\* States 2, 1 and 1 of the services, 1 and 2 of the hosts.
StateOf(row) ==
    CASE row.service # Null -> IF row.service = "s1" THEN 2 ELSE 1
      [] row.service = Null /\ row.host # Null ->
            IF row.host = "h1" THEN 1 ELSE 2
      [] OTHER -> 1
TwoColumns == {"state", "host_name"}
OneColumn == {"state"}
FieldOfRow ==
    [t \in Tables |->
        [col \in TwoColumns |->
            [row \in TableRows(t) |->
                IF col = "state" THEN StateOf(row) ELSE row.host]]]

AsRecord(t, row) ==
    [host_name |-> row.host,
     groups |-> IF t = "services"
                THEN {g \in ServiceGroups :
                         row.service \in Range(ServiceMembers[g])}
                ELSE {g \in HostGroups : row.host \in Range(HostMembers[g])},
     host_groups |-> {g \in HostGroups : row.host \in Range(HostMembers[g])},
     state |-> StateOf(row)]

Term ==
    [all |-> F!AndingMake(<<>>),
     ok |-> F!Negate(Critical),
     h1_or_critical |-> F!OringMake(<<OnHost("h1"), Critical>>),
     h1 |-> F!AndingMake(<<OnHost("h1")>>),
     nowhere |-> F!AndingMake(<<OnHost("h3"), In("http")>>),
     http |-> In("http"),
     all_hosts |-> F!AndingMake(<<In("all"), F!Negate(Critical)>>),
     web |-> F!AndingMake(<<InHostGroup("web"), Critical>>)]
SomeFilters ==
    [t \in Tables |->
        IF t \in {"hosts", "services"} THEN DOMAIN Term
        ELSE {"all", "h1_or_critical"}]

AcceptedRowsOf ==
    [t \in Tables |->
        [f \in DOMAIN Term |->
            {row \in TableRows(t) : F!Accepts(Term[f], AsRecord(t, row))}]]
RestrictionOf ==
    [t \in Tables |->
        [f \in DOMAIN Term |->
            [col \in IndexColumns |->
                F!StringValueRestrictionFor(Term[f], col)]]]

SomeStatsColumns ==
    [t \in Tables |->
        {Counting(AcceptedRowsOf[t]["h1_or_critical"]),
         Counting(AcceptedRowsOf[t]["ok"]),
         Aggregating(t, "min", "state"), Aggregating(t, "avg", "state"),
         Aggregating(t, "max", "host_name")}]
===============================================================================
