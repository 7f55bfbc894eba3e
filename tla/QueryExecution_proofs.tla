------------------------- MODULE QueryExecution_proofs -------------------------
(***************************************************************************)
(* A query answers every wanted row once, unless the answer says why not.  *)
(*                                                                         *)
(* The walk over a table is a list of rows and of groups and hosts that    *)
(* contain rows.  However it is entered and taken apart, no row is under   *)
(* two things of the list, none that was consumed is under any, and every  *)
(* wanted row was consumed or is under one, until the query is stopped.    *)
(***************************************************************************)
EXTENDS QueryExecution, FiniteSetTheorems, WellFoundedInduction, TLAPS

\* What the walk over a table may hold: rows, and what contains rows.
WalkItems(t) ==
    TableRows(t)
    \cup (IF t = "services" THEN {Item(Null, h, Null) : h \in Hosts} ELSE {})
    \cup (IF t \in {"hostsbygroup", "servicesbyhostgroup"}
          THEN {Item(g, Null, Null) : g \in HostGroups} ELSE {})
    \cup (IF t = "servicesbygroup"
          THEN {Item(g, Null, Null) : g \in ServiceGroups} ELSE {})
    \cup (IF t = "servicesbyhostgroup"
          THEN {item \in {Item(g, h, Null) : g \in HostGroups, h \in Hosts} :
                   item.host \in Range(HostMembers[item.group])}
          ELSE {})

\* The row is the item, or in it.
Under(row, item) ==
    /\ row.group = item.group
    /\ item.host \in {Null, row.host}
    /\ item.service \in {Null, row.service}

Covers(walk, row) == \E i \in DOMAIN walk : Under(row, walk[i])

\* No row is under two items.
Apart(t, walk) ==
    \A i, j \in DOMAIN walk : \A row \in TableRows(t) :
        Under(row, walk[i]) /\ Under(row, walk[j]) => i = j

Aggregators == [n : Nat, value : Int]

TypeOK ==
    /\ table \in Tables
    /\ pc \in {"headers", "table", "done"}
    /\ numHeaders \in 0 .. MaxHeaders
    /\ filter \in IF pc = "headers" THEN {Null} ELSE Filters[table]
    /\ columns \in Seq(AnyColumns)
    /\ statsColumns \in Seq(StatsColumnsOf(table))
    /\ groups \in [DOMAIN groups -> [DOMAIN statsColumns -> Aggregators]]
    /\ authUser \in Users \cup {UnknownUser, Null}
    /\ limit \in -1 .. MaxLimit
    /\ timeLimit \in BOOLEAN /\ late \in BOOLEAN /\ shouldTerminate \in BOOLEAN
    /\ todo \in Seq(WalkItems(table))
    /\ currentLine \in Nat
    /\ consumed \in Seq(TableRows(table))
    /\ error \in {"ok", "invalid_header", "limit_exceeded"}

\* Nothing is walked over before the query starts, nor left when it is done.
PhaseInv ==
    /\ pc # "table" => todo = <<>>
    /\ pc = "headers" => consumed = <<>> /\ currentLine = 0 /\ groups = <<>>
    /\ todo # <<>> => currentLine = Len(consumed)
    /\ limit >= 0 => Len(consumed) <= limit

\* Of a hidden group, no row comes into the walk.
RowsShown == \A i \in DOMAIN todo : IsRow(todo[i]) => ~HidesGroup(todo[i].group)

\* The walk leads to every row at most once, and to none that was consumed.
WalkInv ==
    /\ Apart(table, todo)
    /\ \A k \in DOMAIN consumed : ~Covers(todo, consumed[k])
    /\ RowsShown

\* Why rows may be missing.
Excused ==
    \/ error # "ok"
    \/ Len(consumed) = limit
    \/ ~DoStats /\ Len(consumed) > MaxResponseSize

\* Every wanted row was consumed or is still to come.
CoverInv ==
    pc # "headers" =>
        Excused \/ \A row \in Wanted : row \in Range(consumed) \/ Covers(todo, row)

IInv ==
    /\ TypeOK
    /\ PhaseInv
    /\ OnlyWantedRowsOnce
    /\ WalkInv
    /\ CoverInv
------------------------------------------------------------------------------
(* The rows of the tables, and the lists a table walks over *)

\* The lists of Nagios name what there is.
LEMMA ListsTyped ==
    /\ Null \notin Hosts /\ Null \notin Services
    /\ Null \notin HostGroups /\ Null \notin ServiceGroups
    /\ HostList \in Seq(Hosts) /\ ServiceList \in Seq(Services)
    /\ HostGroupList \in Seq(HostGroups)
    /\ ServiceGroupList \in Seq(ServiceGroups)
    /\ \A s \in Services : HostOf[s] \in Hosts
    /\ \A h \in Hosts : ServicesOf[h] \in Seq(Services) /\ NoDuplicates(ServicesOf[h])
    /\ \A g \in HostGroups :
           HostMembers[g] \in Seq(Hosts) /\ NoDuplicates(HostMembers[g])
    /\ \A g \in ServiceGroups :
           ServiceMembers[g] \in Seq(Services) /\ NoDuplicates(ServiceMembers[g])
    /\ NoDuplicates(HostList) /\ NoDuplicates(ServiceList)
    /\ NoDuplicates(HostGroupList) /\ NoDuplicates(ServiceGroupList)
<1> USE NagiosAssumption
<1>1. /\ Null \notin Hosts /\ Null \notin Services
      /\ Null \notin HostGroups /\ Null \notin ServiceGroups
  OBVIOUS
<1>2. /\ HostList \in Seq(Hosts) /\ ServiceList \in Seq(Services)
      /\ HostGroupList \in Seq(HostGroups)
      /\ ServiceGroupList \in Seq(ServiceGroups)
  OBVIOUS
<1>3. \A s \in Services : HostOf[s] \in Hosts
  OBVIOUS
<1>4. \A h \in Hosts : ServicesOf[h] \in Seq(Services) /\ NoDuplicates(ServicesOf[h])
  OBVIOUS
<1>5. \A g \in HostGroups :
          HostMembers[g] \in Seq(Hosts) /\ NoDuplicates(HostMembers[g])
  OBVIOUS
<1>6. \A g \in ServiceGroups :
          ServiceMembers[g] \in Seq(Services) /\ NoDuplicates(ServiceMembers[g])
  OBVIOUS
<1> QED BY <1>1, <1>2, <1>3, <1>4, <1>5, <1>6

\* The members of the groups are hosts and services, and the services of a host
\* are those that say so.
LEMMA MembersTyped ==
    /\ \A g \in HostGroups : Range(HostMembers[g]) \subseteq Hosts
    /\ \A g \in ServiceGroups : Range(ServiceMembers[g]) \subseteq Services
    /\ \A h \in Hosts : Range(ServicesOf[h]) = {s \in Services : HostOf[s] = h}
<1>1. ASSUME NEW S, NEW list \in Seq(S) PROVE Range(list) \subseteq S
  BY DEF Range
<1> QED BY <1>1, ListsTyped, NagiosAssumption

\* The rows of each table.
LEMMA RowsAre ==
    /\ TableRows("hosts") = {Item(Null, h, Null) : h \in Hosts}
    /\ TableRows("services") = {Item(Null, HostOf[s], s) : s \in Services}
    /\ TableRows("hostgroups") = {Item(g, Null, Null) : g \in HostGroups}
    /\ TableRows("servicegroups") = {Item(g, Null, Null) : g \in ServiceGroups}
    /\ TableRows("hostsbygroup") =
           {row \in {Item(g, h, Null) : g \in HostGroups, h \in Hosts} :
               row.host \in Range(HostMembers[row.group])}
    /\ TableRows("servicesbygroup") =
           {row \in {Item(g, HostOf[s], s) : g \in ServiceGroups, s \in Services} :
               row.service \in Range(ServiceMembers[row.group])}
    /\ TableRows("servicesbyhostgroup") =
           {row \in {Item(g, HostOf[s], s) : g \in HostGroups, s \in Services} :
               row.host \in Range(HostMembers[row.group])}
<1>1. TableRows("hosts") = {Item(Null, h, Null) : h \in Hosts}
  BY DEF TableRows, Objects
<1>2. TableRows("services") = {Item(Null, HostOf[s], s) : s \in Services}
  BY DEF TableRows, Objects
<1>3. /\ TableRows("hostgroups") = {Item(g, Null, Null) : g \in HostGroups}
      /\ TableRows("servicegroups") = {Item(g, Null, Null) : g \in ServiceGroups}
  BY DEF TableRows, Objects
<1>4. TableRows("hostsbygroup") =
          {row \in {Item(g, h, Null) : g \in HostGroups, h \in Hosts} :
              row.host \in Range(HostMembers[row.group])}
  BY DEF TableRows, Objects
<1>5. TableRows("servicesbygroup") =
          {row \in {Item(g, HostOf[s], s) : g \in ServiceGroups, s \in Services} :
              row.service \in Range(ServiceMembers[row.group])}
  BY DEF TableRows, Objects
<1>6. TableRows("servicesbyhostgroup") =
          {row \in {Item(g, HostOf[s], s) : g \in HostGroups, s \in Services} :
              row.host \in Range(HostMembers[row.group])}
  BY DEF TableRows, Objects
<1> QED BY <1>1, <1>2, <1>3, <1>4, <1>5, <1>6

\* A list of hosts as a walk.
LEMMA WalkOverHosts ==
  ASSUME NEW hosts \in Seq(Hosts), NoDuplicates(hosts), NEW g, NEW t
  PROVE  LET walk == HostItems(hosts, g)
         IN  /\ walk \in Seq({Item(g, h, Null) : h \in Range(hosts)})
             /\ Apart(t, walk)
             /\ \A row : row.group = g /\ row.host \in Range(hosts) => Covers(walk, row)
<1> DEFINE walk == HostItems(hosts, g)
<1>1. /\ DOMAIN walk = 1 .. Len(hosts) /\ DOMAIN hosts = 1 .. Len(hosts)
      /\ \A i \in 1 .. Len(hosts) : walk[i] = Item(g, hosts[i], Null)
      /\ \A i \in 1 .. Len(hosts) : hosts[i] \in Hosts
  BY DEF HostItems
<1>2. walk \in Seq({Item(g, h, Null) : h \in Range(hosts)})
  BY <1>1 DEF HostItems, Range
<1> HIDE DEF walk
<1>3. ASSUME NEW i \in DOMAIN walk, NEW j \in DOMAIN walk, NEW row,
             Under(row, walk[i]), Under(row, walk[j])
      PROVE  i = j
  <2>1. row.host = hosts[i] /\ row.host = hosts[j]
    BY <1>1, <1>3, ListsTyped DEF Under, Item
  <2> QED BY <1>1, <2>1 DEF NoDuplicates
<1>4. ASSUME NEW row, row.group = g, row.host \in Range(hosts)
      PROVE  Covers(walk, row)
  <2>1. PICK i \in 1 .. Len(hosts) : hosts[i] = row.host
    BY <1>1, <1>4 DEF Range
  <2>2. Under(row, walk[i])
    BY <1>1, <1>4, <2>1 DEF Under, Item
  <2> QED BY <1>1, <2>2 DEF Covers
<1>5. Apart(t, walk)
  BY <1>3 DEF Apart
<1> QED BY <1>2, <1>4, <1>5 DEF walk

\* A list of services as a walk.
LEMMA WalkOverServices ==
  ASSUME NEW services \in Seq(Services), NoDuplicates(services), NEW g, NEW t
  PROVE  LET walk == ServiceItems(services, g)
         IN  /\ walk \in Seq({Item(g, HostOf[s], s) : s \in Range(services)})
             /\ Apart(t, walk)
             /\ \A row : row.group = g /\ row.service \in Range(services)
                            /\ row.host = HostOf[row.service] => Covers(walk, row)
<1> DEFINE walk == ServiceItems(services, g)
<1>1. /\ DOMAIN walk = 1 .. Len(services) /\ DOMAIN services = 1 .. Len(services)
      /\ \A i \in 1 .. Len(services) :
             walk[i] = Item(g, HostOf[services[i]], services[i])
      /\ \A i \in 1 .. Len(services) : services[i] \in Services
  BY DEF ServiceItems
<1>2. walk \in Seq({Item(g, HostOf[s], s) : s \in Range(services)})
  BY <1>1 DEF ServiceItems, Range
<1> HIDE DEF walk
<1>3. ASSUME NEW i \in DOMAIN walk, NEW j \in DOMAIN walk, NEW row,
             Under(row, walk[i]), Under(row, walk[j])
      PROVE  i = j
  <2>1. row.service = services[i] /\ row.service = services[j]
    BY <1>1, <1>3, ListsTyped DEF Under, Item
  <2> QED BY <1>1, <2>1 DEF NoDuplicates
<1>4. ASSUME NEW row, row.group = g, row.service \in Range(services),
             row.host = HostOf[row.service]
      PROVE  Covers(walk, row)
  <2>1. PICK i \in 1 .. Len(services) : services[i] = row.service
    BY <1>1, <1>4 DEF Range
  <2>2. Under(row, walk[i])
    BY <1>1, <1>4, <2>1 DEF Under, Item
  <2> QED BY <1>1, <2>2 DEF Covers
<1>5. Apart(t, walk)
  BY <1>3 DEF Apart
<1> QED BY <1>2, <1>4, <1>5 DEF walk

\* A list of groups as a walk: every row of a group is under it.
LEMMA WalkOverGroups ==
  ASSUME NEW Known, NEW gs \in Seq(Known), NoDuplicates(gs), NEW t
  PROVE  LET walk == GroupItems(gs)
         IN  /\ walk \in Seq({Item(g, Null, Null) : g \in Known})
             /\ Apart(t, walk)
             /\ \A row : row.group \in Range(gs) => Covers(walk, row)
<1> DEFINE walk == GroupItems(gs)
<1>1. /\ DOMAIN walk = 1 .. Len(gs) /\ DOMAIN gs = 1 .. Len(gs)
      /\ \A i \in 1 .. Len(gs) : walk[i] = Item(gs[i], Null, Null)
      /\ \A i \in 1 .. Len(gs) : gs[i] \in Known
  BY DEF GroupItems
<1>2. walk \in Seq({Item(g, Null, Null) : g \in Known})
  BY <1>1 DEF GroupItems
<1> HIDE DEF walk
<1>3. ASSUME NEW i \in DOMAIN walk, NEW j \in DOMAIN walk, NEW row,
             Under(row, walk[i]), Under(row, walk[j])
      PROVE  i = j
  <2>1. walk[i].group = gs[i] /\ walk[j].group = gs[j]
    BY <1>1 DEF Item
  <2>2. row.group = gs[i] /\ row.group = gs[j]
    BY <1>3, <2>1 DEF Under
  <2> QED BY <1>1, <2>2 DEF NoDuplicates
<1>4. ASSUME NEW row, row.group \in Range(gs) PROVE Covers(walk, row)
  <2>1. PICK i \in 1 .. Len(gs) : gs[i] = row.group
    BY <1>1, <1>4 DEF Range
  <2> QED BY <1>1, <2>1 DEF Covers, Under, Item
<1>5. Apart(t, walk)
  BY <1>3 DEF Apart
<1> QED BY <1>2, <1>4, <1>5 DEF walk

\* Every row of a table is under itself, and under no other row.
LEMMA RowsDiffer ==
  ASSUME NEW t \in Tables, NEW row \in TableRows(t), NEW other \in TableRows(t)
  PROVE  Under(row, other) <=> row = other
<1> USE RowsAre DEF Tables
<1>1. ASSUME NEW x \in TableRows(t)
      PROVE  /\ t \in {"hosts", "hostsbygroup"} =>
                    x.host \in Hosts /\ x = Item(x.group, x.host, Null)
             /\ t \in {"hostgroups", "servicegroups"} => x = Item(x.group, Null, Null)
             /\ t \in {"services", "servicesbygroup", "servicesbyhostgroup"} =>
                    /\ x.service \in Services
                    /\ x = Item(x.group, HostOf[x.service], x.service)
  <2>1. CASE t \in {"hosts", "hostsbygroup"}
    BY <1>1, <2>1 DEF Item
  <2>2. CASE t \in {"hostgroups", "servicegroups"}
    BY <1>1, <2>2 DEF Item
  <2>3. CASE t \in {"services", "servicesbygroup", "servicesbyhostgroup"}
    BY <1>1, <2>3 DEF Item
  <2> QED BY <2>1, <2>2, <2>3
<1>2. CASE t \in {"hosts", "hostsbygroup"}
  BY <1>1, <1>2, ListsTyped DEF Under, Item
<1>3. CASE t \in {"hostgroups", "servicegroups"}
  BY <1>1, <1>3 DEF Under, Item
<1>4. CASE t \in {"services", "servicesbygroup", "servicesbyhostgroup"}
  BY <1>1, <1>4, ListsTyped DEF Under, Item
<1> QED BY <1>2, <1>3, <1>4

\* Groups and hosts contain rows, and rows are rows.
LEMMA RowsAreRows ==
  ASSUME table \in Tables, NEW item \in WalkItems(table)
  PROVE  IsRow(item) <=> item \in TableRows(table)
<1> USE RowsAre, ListsTyped
<1>1. CASE table \in {"hosts", "hostgroups", "servicegroups"}
  <2>1. item \in TableRows(table)
    BY <1>1 DEF WalkItems
  <2> QED BY <1>1, <2>1 DEF IsRow, Item
<1>2. CASE table = "services"
  <2>1. CASE item \in TableRows(table)
    BY <1>2, <2>1 DEF IsRow, Item
  <2>2. CASE item \in {Item(Null, h, Null) : h \in Hosts}
    BY <1>2, <2>2 DEF IsRow, Item
  <2> QED BY <1>2, <2>1, <2>2 DEF WalkItems
<1>3. CASE table = "hostsbygroup"
  <2>1. CASE item \in TableRows(table)
    BY <1>3, <2>1 DEF IsRow, Item
  <2>2. CASE item \in {Item(g, Null, Null) : g \in HostGroups}
    BY <1>3, <2>2 DEF IsRow, Item
  <2> QED BY <1>3, <2>1, <2>2 DEF WalkItems
<1>4. CASE table = "servicesbygroup"
  <2>1. CASE item \in TableRows(table)
    BY <1>4, <2>1 DEF IsRow, Item
  <2>2. CASE item \in {Item(g, Null, Null) : g \in ServiceGroups}
    BY <1>4, <2>2 DEF IsRow, Item
  <2> QED BY <1>4, <2>1, <2>2 DEF WalkItems
<1>5. CASE table = "servicesbyhostgroup"
  <2>1. CASE item \in TableRows(table)
    BY <1>5, <2>1 DEF IsRow, Item
  <2>2. CASE item \in {Item(g, Null, Null) : g \in HostGroups}
    BY <1>5, <2>2 DEF IsRow, Item
  <2>3. CASE item \in {Item(g, h, Null) : g \in HostGroups, h \in Hosts}
    BY <1>5, <2>3 DEF IsRow, Item
  <2> QED BY <1>5, <2>1, <2>2, <2>3 DEF WalkItems
<1> QED BY <1>1, <1>2, <1>3, <1>4, <1>5 DEF Tables

\* An empty list leads nowhere.
LEMMA WalkOverNothing ==
  ASSUME NEW t PROVE <<>> \in Seq(WalkItems(t)) /\ Apart(t, <<>>)
BY DEF Apart

\* A list of some things is one of more.
LEMMA MoreItems ==
  ASSUME NEW S, NEW T, S \subseteq T, NEW list \in Seq(S)
  PROVE  list \in Seq(T)
OBVIOUS

\* The members of a group as a walk, or nothing if it is not found.
LEMMA WalkOverHostsOfGroup ==
  ASSUME NEW g, NEW t, NEW walk, walk = HostsOfGroup(g)
  PROVE  /\ walk \in Seq({Item(Null, h, Null) : h \in Hosts})
         /\ Apart(t, walk)
         /\ \A row : row.group = Null /\ g \in HostGroups
                        /\ row.host \in Range(HostMembers[g]) => Covers(walk, row)
<1>1. CASE g \in HostGroups
  <2>1. HostMembers[g] \in Seq(Hosts) /\ NoDuplicates(HostMembers[g])
    BY <1>1, ListsTyped
  <2>2. walk = HostItems(HostMembers[g], Null)
    BY <1>1 DEF HostsOfGroup
  <2>3. /\ walk \in Seq({Item(Null, h, Null) : h \in Range(HostMembers[g])})
        /\ Apart(t, walk)
        /\ \A row : row.group = Null /\ row.host \in Range(HostMembers[g])
                        => Covers(walk, row)
    BY <2>1, <2>2, WalkOverHosts
  <2>4. {Item(Null, h, Null) : h \in Range(HostMembers[g])}
            \subseteq {Item(Null, h, Null) : h \in Hosts}
    BY <1>1, MembersTyped
  <2> QED BY <2>3, <2>4, MoreItems
<1>2. CASE g \notin HostGroups
  BY <1>2 DEF HostsOfGroup, Apart
<1> QED BY <1>1, <1>2

\* Likewise for services.
LEMMA WalkOverServicesOfGroup ==
  ASSUME NEW g, NEW t, NEW walk, walk = ServicesOfGroup(g)
  PROVE  /\ walk \in Seq({Item(Null, HostOf[s], s) : s \in Services})
         /\ Apart(t, walk)
         /\ \A row : row.group = Null /\ g \in ServiceGroups
                        /\ row.service \in Range(ServiceMembers[g])
                        /\ row.host = HostOf[row.service] => Covers(walk, row)
<1>1. CASE g \in ServiceGroups
  <2>1. ServiceMembers[g] \in Seq(Services) /\ NoDuplicates(ServiceMembers[g])
    BY <1>1, ListsTyped
  <2>2. walk = ServiceItems(ServiceMembers[g], Null)
    BY <1>1 DEF ServicesOfGroup
  <2>3. /\ walk \in Seq({Item(Null, HostOf[s], s) : s \in Range(ServiceMembers[g])})
        /\ Apart(t, walk)
        /\ \A row : row.group = Null /\ row.service \in Range(ServiceMembers[g])
                       /\ row.host = HostOf[row.service] => Covers(walk, row)
    BY <2>1, <2>2, WalkOverServices
  <2>4. {Item(Null, HostOf[s], s) : s \in Range(ServiceMembers[g])}
            \subseteq {Item(Null, HostOf[s], s) : s \in Services}
    BY <1>1, MembersTyped
  <2> QED BY <2>3, <2>4, MoreItems
<1>2. CASE g \notin ServiceGroups
  BY <1>2 DEF ServicesOfGroup, Apart
<1> QED BY <1>1, <1>2

\* What the walk over the hosts must be for a filter: it may be the members of the
\* group that the filter restricts the hosts to, because no others are accepted.
LEMMA HostsLead ==
  ASSUME NEW f \in Filters["hosts"],
         NEW walk, walk = AnswerHosts(Restriction["hosts"][f])
  PROVE  /\ walk \in Seq({Item(Null, h, Null) : h \in Hosts})
         /\ Apart("hosts", walk)
         /\ \A row \in AcceptedRows["hosts"][f] : Covers(walk, row)
<1> DEFINE groupsOf == Restriction["hosts"][f]["groups"]
<1>1. /\ AcceptedRows["hosts"][f] \subseteq TableRows("hosts")
      /\ RestrictionsSound("hosts", f)
  BY FilterAssumption DEF Tables
<1>2. \A row \in TableRows("hosts") : row.group = Null /\ row.host \in Hosts
  BY RowsAre DEF Item
<1>3. CASE groupsOf # {}
  <2> DEFINE v == The(groupsOf)
  <2>1. v \in groupsOf
    BY <1>3 DEF The
  <2>2. walk = HostsOfGroup(v)
    BY <1>3 DEF AnswerHosts
  <2>3. \A row \in AcceptedRows["hosts"][f] :
            v \in HostGroups /\ row.host \in Range(HostMembers[v])
    BY <1>1, <2>1 DEF RestrictionsSound
  <2> HIDE DEF v
  <2> QED BY <1>1, <1>2, <2>2, <2>3, WalkOverHostsOfGroup
<1>4. CASE groupsOf = {}
  <2>1. walk = HostItems(HostList, Null)
    BY <1>4 DEF AnswerHosts
  <2>2. /\ walk \in Seq({Item(Null, h, Null) : h \in Hosts})
        /\ Apart("hosts", walk)
        /\ \A row : row.group = Null /\ row.host \in Hosts => Covers(walk, row)
    BY <2>1, ListsTyped, WalkOverHosts DEF Hosts
  <2> QED BY <1>1, <1>2, <2>2
<1> QED BY <1>3, <1>4

\* Likewise for services, by their host, their group or the group of their host.
LEMMA ServicesLead ==
  ASSUME NEW f \in Filters["services"],
         NEW walk, walk = AnswerServices(Restriction["services"][f])
  PROVE  /\ walk \in Seq(WalkItems("services"))
         /\ Apart("services", walk)
         /\ \A row \in AcceptedRows["services"][f] : Covers(walk, row)
<1> DEFINE restriction == Restriction["services"][f]
           found == restriction["host_name"] \cap Hosts
<1>1. /\ AcceptedRows["services"][f] \subseteq TableRows("services")
      /\ RestrictionsSound("services", f)
  BY FilterAssumption DEF Tables
<1>2. \A row \in TableRows("services") :
          /\ row.group = Null /\ row.service \in Services
          /\ row.host = HostOf[row.service]
  BY RowsAre DEF Item
<1>3. /\ {Item(Null, HostOf[s], s) : s \in Services} \subseteq WalkItems("services")
      /\ {Item(Null, h, Null) : h \in Hosts} \subseteq WalkItems("services")
  BY RowsAre DEF WalkItems
<1>4. CASE found # {}
  <2> DEFINE h == The(found)
  <2>1. h \in found
    BY <1>4 DEF The
  <2>2. walk = ServiceItems(ServicesOf[h], Null)
    BY <1>4 DEF AnswerServices
  <2>3. \A row \in AcceptedRows["services"][f] : row.host = h
    BY <1>1, <2>1 DEF RestrictionsSound
  <2>4. h \in Hosts
    BY <2>1
  <2> HIDE DEF h
  <2>5. /\ walk \in Seq({Item(Null, HostOf[s], s) : s \in Range(ServicesOf[h])})
        /\ Apart("services", walk)
        /\ \A row : row.group = Null /\ row.service \in Range(ServicesOf[h])
                       /\ row.host = HostOf[row.service] => Covers(walk, row)
    BY <2>2, <2>4, ListsTyped, WalkOverServices
  <2>6. Range(ServicesOf[h]) = {s \in Services : HostOf[s] = h}
    BY <2>4, MembersTyped
  <2>7. walk \in Seq(WalkItems("services"))
    <3>1. {Item(Null, HostOf[s], s) : s \in Range(ServicesOf[h])}
              \subseteq WalkItems("services")
      BY <1>3, <2>6
    <3> QED BY <2>5, <3>1, MoreItems
  <2> QED BY <1>1, <1>2, <2>3, <2>5, <2>6, <2>7
<1>5. CASE found = {} /\ restriction["groups"] # {}
  <2> DEFINE v == The(restriction["groups"])
  <2>1. v \in restriction["groups"]
    BY <1>5 DEF The
  <2>2. walk = ServicesOfGroup(v)
    BY <1>5 DEF AnswerServices
  <2>3. \A row \in AcceptedRows["services"][f] :
            v \in ServiceGroups /\ row.service \in Range(ServiceMembers[v])
    BY <1>1, <2>1 DEF RestrictionsSound
  <2> HIDE DEF v
  <2>4. /\ walk \in Seq({Item(Null, HostOf[s], s) : s \in Services})
        /\ Apart("services", walk)
        /\ \A row : row.group = Null /\ v \in ServiceGroups
                       /\ row.service \in Range(ServiceMembers[v])
                       /\ row.host = HostOf[row.service] => Covers(walk, row)
    BY <2>2, WalkOverServicesOfGroup
  <2>5. walk \in Seq(WalkItems("services"))
    BY <1>3, <2>4, MoreItems
  <2> QED BY <1>1, <1>2, <2>3, <2>4, <2>5
<1>6. CASE found = {} /\ restriction["groups"] = {} /\ restriction["host_groups"] # {}
  <2> DEFINE v == The(restriction["host_groups"])
  <2>1. v \in restriction["host_groups"]
    BY <1>6 DEF The
  <2>2. walk = HostsOfGroup(v)
    BY <1>6 DEF AnswerServices
  <2>3. \A row \in AcceptedRows["services"][f] :
            v \in HostGroups /\ row.host \in Range(HostMembers[v])
    BY <1>1, <2>1 DEF RestrictionsSound
  <2> HIDE DEF v
  <2>4. /\ walk \in Seq({Item(Null, h, Null) : h \in Hosts})
        /\ Apart("services", walk)
        /\ \A row : row.group = Null /\ v \in HostGroups
                       /\ row.host \in Range(HostMembers[v]) => Covers(walk, row)
    BY <2>2, WalkOverHostsOfGroup
  <2>5. walk \in Seq(WalkItems("services"))
    BY <1>3, <2>4, MoreItems
  <2> QED BY <1>1, <1>2, <2>3, <2>4, <2>5
<1>7. CASE found = {} /\ restriction["groups"] = {} /\ restriction["host_groups"] = {}
  <2>1. walk = ServiceItems(ServiceList, Null)
    BY <1>7 DEF AnswerServices
  <2>2. /\ walk \in Seq({Item(Null, HostOf[s], s) : s \in Services})
        /\ Apart("services", walk)
        /\ \A row : row.group = Null /\ row.service \in Services
                       /\ row.host = HostOf[row.service] => Covers(walk, row)
    BY <2>1, ListsTyped, WalkOverServices DEF Services
  <2>3. walk \in Seq(WalkItems("services"))
    BY <1>3, <2>2, MoreItems
  <2> QED BY <1>1, <1>2, <2>2, <2>3
<1> QED BY <1>4, <1>5, <1>6, <1>7

\* However a table is entered, the walk leads to every row the filter accepts; in
\* the tables by group it starts with the groups.
LEMMA AnswerLeads ==
  ASSUME NEW t \in Tables, NEW f \in Filters[t],
         NEW walk, walk = AnswerQuery(t, Restriction[t][f])
  PROVE  /\ walk \in Seq(WalkItems(t))
         /\ Apart(t, walk)
         /\ \A row \in AcceptedRows[t][f] : Covers(walk, row)
         /\ t \in {"hostsbygroup", "servicesbygroup"} =>
                \A i \in DOMAIN walk : walk[i] \notin TableRows(t)
<1>1. AcceptedRows[t][f] \subseteq TableRows(t)
  BY FilterAssumption
<1>2. CASE t = "hosts"
  <2>1. walk = AnswerHosts(Restriction["hosts"][f])
    BY <1>2 DEF AnswerQuery
  <2>2. {Item(Null, h, Null) : h \in Hosts} \subseteq WalkItems("hosts")
    BY RowsAre DEF WalkItems
  <2>3. /\ walk \in Seq({Item(Null, h, Null) : h \in Hosts})
        /\ Apart("hosts", walk)
        /\ \A row \in AcceptedRows["hosts"][f] : Covers(walk, row)
    BY <1>2, <2>1, HostsLead
  <2>4. walk \in Seq(WalkItems("hosts"))
    BY <2>2, <2>3, MoreItems
  <2> QED BY <1>2, <2>3, <2>4
<1>3. CASE t = "services"
  <2>1. walk = AnswerServices(Restriction["services"][f])
    BY <1>3 DEF AnswerQuery
  <2> QED BY <1>3, <2>1, ServicesLead
<1>4. CASE t \in {"hostgroups", "hostsbygroup", "servicesbyhostgroup"}
  <2>1. walk = GroupItems(HostGroupList)
    BY <1>4 DEF AnswerQuery
  <2>2. /\ walk \in Seq({Item(g, Null, Null) : g \in HostGroups})
        /\ Apart(t, walk)
        /\ \A row : row.group \in Range(HostGroupList) => Covers(walk, row)
    BY <2>1, ListsTyped, WalkOverGroups
  <2>3. {Item(g, Null, Null) : g \in HostGroups} \subseteq WalkItems(t)
    BY <1>4, RowsAre DEF WalkItems
  <2>4. \A row \in TableRows(t) : row.group \in HostGroups
    BY <1>4, RowsAre DEF Item
  <2>5. ASSUME t = "hostsbygroup", NEW i \in DOMAIN walk
        PROVE  walk[i] \notin TableRows(t)
    <3>1. PICK g \in HostGroups : walk[i] = Item(g, Null, Null)
      BY <2>2
    <3>2. walk[i].host = Null
      BY <3>1 DEF Item
    <3>3. \A row \in TableRows(t) : row.host # Null
      BY <2>5, RowsAre, ListsTyped DEF Item
    <3> QED BY <3>2, <3>3
  <2>6. walk \in Seq(WalkItems(t))
    BY <2>2, <2>3, MoreItems
  <2> QED BY <1>1, <1>4, <2>2, <2>4, <2>5, <2>6 DEF HostGroups
<1>5. CASE t \in {"servicegroups", "servicesbygroup"}
  <2>1. walk = GroupItems(ServiceGroupList)
    BY <1>5 DEF AnswerQuery
  <2>2. /\ walk \in Seq({Item(g, Null, Null) : g \in ServiceGroups})
        /\ Apart(t, walk)
        /\ \A row : row.group \in Range(ServiceGroupList) => Covers(walk, row)
    BY <2>1, ListsTyped, WalkOverGroups
  <2>3. {Item(g, Null, Null) : g \in ServiceGroups} \subseteq WalkItems(t)
    BY <1>5, RowsAre DEF WalkItems
  <2>4. \A row \in TableRows(t) : row.group \in ServiceGroups
    BY <1>5, RowsAre DEF Item
  <2>5. ASSUME t = "servicesbygroup", NEW i \in DOMAIN walk
        PROVE  walk[i] \notin TableRows(t)
    <3>1. PICK g \in ServiceGroups : walk[i] = Item(g, Null, Null)
      BY <2>2
    <3>2. walk[i].service = Null
      BY <3>1 DEF Item
    <3>3. \A row \in TableRows(t) : row.service # Null
      BY <2>5, RowsAre, ListsTyped DEF Item
    <3> QED BY <3>2, <3>3
  <2>6. walk \in Seq(WalkItems(t))
    BY <2>2, <2>3, MoreItems
  <2> QED BY <1>1, <1>5, <2>2, <2>4, <2>5, <2>6 DEF ServiceGroups
<1> QED BY <1>2, <1>3, <1>4, <1>5 DEF Tables

\* The walk leads to the rows under the item, to all of them and to no others.
Leads(t, walk, item) ==
    /\ walk \in Seq(WalkItems(t))
    /\ Apart(t, walk)
    /\ \A i \in DOMAIN walk : walk[i].group = item.group
    /\ \A row \in TableRows(t) : Under(row, item) <=> Covers(walk, row)

\* The hosts of a host group.
LEMMA HostsInside ==
  ASSUME NEW t \in {"hostsbygroup", "servicesbyhostgroup"}, NEW g \in HostGroups,
         NEW walk, walk = HostItems(HostMembers[g], g)
  PROVE  Leads(t, walk, Item(g, Null, Null))
<1>1. HostMembers[g] \in Seq(Hosts) /\ NoDuplicates(HostMembers[g])
      /\ Range(HostMembers[g]) \subseteq Hosts
  BY ListsTyped, MembersTyped
<1>2. /\ walk \in Seq({Item(g, h, Null) : h \in Range(HostMembers[g])})
      /\ Apart(t, walk)
      /\ \A row : row.group = g /\ row.host \in Range(HostMembers[g]) => Covers(walk, row)
  BY <1>1, WalkOverHosts
<1>3. {Item(g, h, Null) : h \in Range(HostMembers[g])} \subseteq WalkItems(t)
  <2>1. CASE t = "hostsbygroup"
    BY <1>1, <2>1, RowsAre DEF WalkItems, Item
  <2>2. CASE t = "servicesbyhostgroup"
    BY <1>1, <2>2 DEF WalkItems, Item
  <2> QED BY <2>1, <2>2
<1>4. walk \in Seq(WalkItems(t))
  BY <1>2, <1>3, MoreItems
<1>5. \A i \in DOMAIN walk : walk[i].group = g
  <2> SUFFICES ASSUME NEW i \in DOMAIN walk PROVE walk[i].group = g
    OBVIOUS
  <2>1. PICK h \in Range(HostMembers[g]) : walk[i] = Item(g, h, Null)
    BY <1>2
  <2> QED BY <2>1 DEF Item
<1>6. \A row \in TableRows(t) : row.host \in Range(HostMembers[row.group])
  BY RowsAre
<1>7. \A row \in TableRows(t) : Under(row, Item(g, Null, Null)) <=> row.group = g
  BY DEF Under, Item
<1>8. \A row : Covers(walk, row) => row.group = g
  BY <1>5 DEF Covers, Under
<1>9. Item(g, Null, Null).group = g
  BY DEF Item
<1> QED BY <1>2, <1>4, <1>5, <1>6, <1>7, <1>8, <1>9 DEF Leads

\* The services of a host, in a table by host group or not.
LEMMA ServicesInsideHost ==
  ASSUME NEW t, NEW g, NEW h \in Hosts,
         \/ t = "services" /\ g = Null
         \/ /\ t = "servicesbyhostgroup" /\ g \in HostGroups
            /\ h \in Range(HostMembers[g]),
         NEW walk, walk = ServiceItems(ServicesOf[h], g)
  PROVE  Leads(t, walk, Item(g, h, Null))
<1>1. ServicesOf[h] \in Seq(Services) /\ NoDuplicates(ServicesOf[h])
  BY ListsTyped
<1>2. Range(ServicesOf[h]) = {s \in Services : HostOf[s] = h}
  BY MembersTyped
<1>3. /\ walk \in Seq({Item(g, HostOf[s], s) : s \in Range(ServicesOf[h])})
      /\ Apart(t, walk)
      /\ \A row : row.group = g /\ row.service \in Range(ServicesOf[h])
                     /\ row.host = HostOf[row.service] => Covers(walk, row)
  BY <1>1, WalkOverServices
<1>4. {Item(g, HostOf[s], s) : s \in Range(ServicesOf[h])} \subseteq WalkItems(t)
  <2>1. CASE t = "services"
    BY <1>2, <2>1, RowsAre DEF WalkItems
  <2>2. CASE t = "servicesbyhostgroup"
    BY <1>2, <2>2, RowsAre DEF WalkItems, Item
  <2> QED BY <2>1, <2>2
<1>5. walk \in Seq(WalkItems(t))
  BY <1>3, <1>4, MoreItems
<1>6. \A i \in DOMAIN walk : walk[i].group = g /\ walk[i].host = h
  <2> SUFFICES ASSUME NEW i \in DOMAIN walk PROVE walk[i].group = g /\ walk[i].host = h
    OBVIOUS
  <2>1. PICK s \in Range(ServicesOf[h]) : walk[i] = Item(g, HostOf[s], s)
    BY <1>3
  <2> QED BY <1>2, <2>1 DEF Item
<1>7. \A row \in TableRows(t) :
          row.service \in Services /\ row.host = HostOf[row.service]
  <2>1. CASE t = "services"
    BY <2>1, RowsAre DEF Item
  <2>2. CASE t = "servicesbyhostgroup"
    BY <2>2, RowsAre DEF Item
  <2> QED BY <2>1, <2>2
<1>8. \A row \in TableRows(t) :
          Under(row, Item(g, h, Null)) <=> row.group = g /\ row.host = h
  BY ListsTyped DEF Under, Item
<1>9. \A row : Covers(walk, row) => row.group = g /\ row.host = h
  BY <1>6, ListsTyped DEF Covers, Under
<1>10. Item(g, h, Null).group = g
  BY DEF Item
<1>11. \A row \in TableRows(t) : row.group = g /\ row.host = h => Covers(walk, row)
  BY <1>2, <1>3, <1>7
<1> QED BY <1>3, <1>5, <1>6, <1>8, <1>9, <1>10, <1>11 DEF Leads

\* The services of a service group.
LEMMA ServicesInsideGroup ==
  ASSUME NEW g \in ServiceGroups, NEW walk, walk = ServiceItems(ServiceMembers[g], g)
  PROVE  Leads("servicesbygroup", walk, Item(g, Null, Null))
<1> DEFINE t == "servicesbygroup"
<1>1. ServiceMembers[g] \in Seq(Services) /\ NoDuplicates(ServiceMembers[g])
      /\ Range(ServiceMembers[g]) \subseteq Services
  BY ListsTyped, MembersTyped
<1>2. /\ walk \in Seq({Item(g, HostOf[s], s) : s \in Range(ServiceMembers[g])})
      /\ Apart(t, walk)
      /\ \A row : row.group = g /\ row.service \in Range(ServiceMembers[g])
                     /\ row.host = HostOf[row.service] => Covers(walk, row)
  BY <1>1, WalkOverServices
<1>3. {Item(g, HostOf[s], s) : s \in Range(ServiceMembers[g])} \subseteq WalkItems(t)
  BY <1>1, RowsAre DEF WalkItems, Item
<1>4. walk \in Seq(WalkItems(t))
  BY <1>2, <1>3, MoreItems
<1>5. \A i \in DOMAIN walk : walk[i].group = g
  <2> SUFFICES ASSUME NEW i \in DOMAIN walk PROVE walk[i].group = g
    OBVIOUS
  <2>1. PICK s \in Range(ServiceMembers[g]) : walk[i] = Item(g, HostOf[s], s)
    BY <1>2
  <2> QED BY <2>1 DEF Item
<1>6. \A row \in TableRows(t) :
          /\ row.service \in Range(ServiceMembers[row.group])
          /\ row.host = HostOf[row.service]
  BY RowsAre DEF Item
<1>7. \A row \in TableRows(t) : Under(row, Item(g, Null, Null)) <=> row.group = g
  BY DEF Under, Item
<1>8. \A row : Covers(walk, row) => row.group = g
  BY <1>5 DEF Covers, Under
<1>9. Item(g, Null, Null).group = g
  BY DEF Item
<1> QED BY <1>2, <1>4, <1>5, <1>6, <1>7, <1>8, <1>9 DEF Leads

\* What a group or a host is replaced by leads to its rows, or to nothing if the
\* group is hidden.
LEMMA ContentsLead ==
  ASSUME table \in Tables, NEW item \in WalkItems(table), ~IsRow(item)
  PROVE  \/ HidesGroup(item.group) /\ Contents(item) = <<>>
         \/ ~HidesGroup(item.group) /\ Leads(table, Contents(item), item)
<1>1. item \notin TableRows(table)
  BY RowsAreRows
<1>2. CASE table = "services"
  <2>1. PICK h \in Hosts : item = Item(Null, h, Null)
    BY <1>1, <1>2 DEF WalkItems
  <2>2. Contents(item) = ServiceItems(ServicesOf[h], Null)
    BY <2>1, ListsTyped DEF Contents, Item
  <2>3. ~HidesGroup(item.group)
    BY <1>2 DEF HidesGroup
  <2> QED BY <1>2, <2>1, <2>2, <2>3, ServicesInsideHost
<1>3. CASE table = "hostsbygroup"
  <2>1. PICK g \in HostGroups : item = Item(g, Null, Null)
    BY <1>1, <1>3 DEF WalkItems
  <2>2. item.host = Null /\ item.group = g
    BY <2>1 DEF Item
  <2>3. CASE HidesGroup(g)
    BY <2>2, <2>3 DEF Contents
  <2>4. CASE ~HidesGroup(g)
    <3>1. Contents(item) = HostItems(HostMembers[g], g)
      BY <1>3, <2>2, <2>4 DEF Contents
    <3> QED BY <1>3, <2>1, <2>2, <2>4, <3>1, HostsInside
  <2> QED BY <2>3, <2>4
<1>4. CASE table = "servicesbygroup"
  <2>1. PICK g \in ServiceGroups : item = Item(g, Null, Null)
    BY <1>1, <1>4 DEF WalkItems
  <2>2. item.host = Null /\ item.group = g
    BY <2>1 DEF Item
  <2>3. CASE HidesGroup(g)
    BY <2>2, <2>3 DEF Contents
  <2>4. CASE ~HidesGroup(g)
    <3>1. Contents(item) = ServiceItems(ServiceMembers[g], g)
      BY <1>4, <2>2, <2>4 DEF Contents
    <3> QED BY <1>4, <2>1, <2>2, <2>4, <3>1, ServicesInsideGroup
  <2> QED BY <2>3, <2>4
<1>5. CASE table = "servicesbyhostgroup"
  <2>1. \A g : ~HidesGroup(g)
    BY <1>5 DEF HidesGroup
  <2>2. CASE item \in {Item(g, Null, Null) : g \in HostGroups}
    <3>1. PICK g \in HostGroups : item = Item(g, Null, Null)
      BY <2>2
    <3>2. item.host = Null /\ item.group = g
      BY <3>1 DEF Item
    <3>3. Contents(item) = HostItems(HostMembers[g], g)
      BY <1>5, <2>1, <3>2 DEF Contents
    <3> QED BY <1>5, <2>1, <3>1, <3>3, HostsInside
  <2>3. CASE item \notin {Item(g, Null, Null) : g \in HostGroups}
    <3>1. PICK g \in HostGroups, h \in Hosts :
              item = Item(g, h, Null) /\ item.host \in Range(HostMembers[item.group])
      BY <1>1, <1>5, <2>3 DEF WalkItems
    <3>2. item.host = h /\ item.group = g /\ h # Null
      BY <3>1, ListsTyped DEF Item
    <3>3. Contents(item) = ServiceItems(ServicesOf[h], g)
      BY <3>2 DEF Contents
    <3> QED BY <1>5, <2>1, <3>1, <3>2, <3>3, ServicesInsideHost
  <2> QED BY <2>2, <2>3
<1>6. CASE table \in {"hosts", "hostgroups", "servicegroups"}
  BY <1>1, <1>6 DEF WalkItems
<1> QED BY <1>2, <1>3, <1>4, <1>5, <1>6 DEF Tables

\* A group or a host at the head of the walk is replaced by its contents.
Replaced(walk, inside) == inside \o Tail(walk)

\* The first step of a walk may be replaced by steps for rows that it stands for.
LEMMA ReplaceHead ==
  ASSUME NEW t, NEW walk \in Seq(WalkItems(t)), walk # <<>>, Apart(t, walk),
         NEW inside \in Seq(WalkItems(t)), Apart(t, inside),
         \A row \in TableRows(t) : Covers(inside, row) => Under(row, Head(walk)),
         NEW next, next = Replaced(walk, inside)
  PROVE  /\ next \in Seq(WalkItems(t))
         /\ Apart(t, next)
         /\ \A i \in DOMAIN next : \/ \E j \in DOMAIN inside : next[i] = inside[j]
                                   \/ \E j \in DOMAIN walk : next[i] = walk[j]
         /\ \A row : Covers(next, row) <=> Covers(inside, row) \/ Covers(Tail(walk), row)
<1> DEFINE n == Len(inside)
           m == Len(walk)
<1>1. /\ n \in Nat /\ m \in Nat /\ m > 0
      /\ DOMAIN inside = 1 .. n /\ DOMAIN walk = 1 .. m
      /\ Head(walk) = walk[1]
  OBVIOUS
<1>2. /\ Tail(walk) \in Seq(WalkItems(t)) /\ DOMAIN Tail(walk) = 1 .. m - 1
      /\ \A i \in 1 .. m - 1 : Tail(walk)[i] = walk[i + 1]
  OBVIOUS
<1>3. /\ next \in Seq(WalkItems(t)) /\ DOMAIN next = 1 .. n + m - 1
      /\ \A i \in 1 .. n : next[i] = inside[i]
      /\ \A i \in n + 1 .. n + m - 1 : next[i] = walk[i - n + 1]
  BY DEF Replaced
<1> HIDE DEF n, m
<1>4. ASSUME NEW i \in 1 .. n + m - 1
      PROVE  \/ i \in 1 .. n
             \/ i \in n + 1 .. n + m - 1 /\ i - n + 1 \in 2 .. m
  BY <1>1
<1>5. ASSUME NEW i \in DOMAIN next, NEW j \in DOMAIN next, NEW row \in TableRows(t),
             Under(row, next[i]), Under(row, next[j]), i \in 1 .. n, j \notin 1 .. n
      PROVE  FALSE
  <2>1. Under(row, walk[1])
    BY <1>1, <1>3, <1>5 DEF Covers
  <2>2. j - n + 1 \in 2 .. m /\ Under(row, walk[j - n + 1])
    BY <1>3, <1>4, <1>5
  <2>3. j - n + 1 \in DOMAIN walk /\ 1 \in DOMAIN walk /\ j - n + 1 # 1
    BY <1>1, <2>2
  <2> QED BY <1>5, <2>1, <2>2, <2>3 DEF Apart
<1>6. Apart(t, next)
  <2> SUFFICES ASSUME NEW i \in DOMAIN next, NEW j \in DOMAIN next,
                      NEW row \in TableRows(t),
                      Under(row, next[i]), Under(row, next[j])
               PROVE  i = j
    BY DEF Apart
  <2>1. CASE i \in 1 .. n /\ j \in 1 .. n
    BY <1>1, <1>3, <2>1 DEF Apart
  <2>2. CASE i \notin 1 .. n /\ j \notin 1 .. n
    <3>1. /\ i - n + 1 \in DOMAIN walk /\ Under(row, walk[i - n + 1])
          /\ j - n + 1 \in DOMAIN walk /\ Under(row, walk[j - n + 1])
      BY <1>1, <1>3, <1>4, <2>2
    <3>2. i - n + 1 = j - n + 1
      BY <3>1 DEF Apart
    <3> QED BY <1>1, <1>3, <3>2
  <2> QED BY <1>5, <2>1, <2>2
<1>7. ASSUME NEW i \in DOMAIN next
      PROVE  \/ \E j \in DOMAIN inside : next[i] = inside[j]
             \/ \E j \in DOMAIN walk : next[i] = walk[j]
  <2>1. CASE i \in 1 .. n
    BY <1>1, <1>3, <2>1
  <2>2. CASE i \notin 1 .. n
    <3>1. i - n + 1 \in DOMAIN walk /\ next[i] = walk[i - n + 1]
      BY <1>1, <1>3, <1>4, <2>2
    <3> QED BY <3>1
  <2> QED BY <2>1, <2>2
<1>8. ASSUME NEW row, Covers(next, row)
      PROVE  Covers(inside, row) \/ Covers(Tail(walk), row)
  <2>1. PICK i \in DOMAIN next : Under(row, next[i])
    BY <1>8 DEF Covers
  <2>2. CASE i \in 1 .. n
    BY <1>1, <1>3, <2>1, <2>2 DEF Covers
  <2>3. CASE i \notin 1 .. n
    <3>1. i - n \in 1 .. m - 1 /\ Tail(walk)[i - n] = next[i]
      BY <1>1, <1>2, <1>3, <1>4, <2>3
    <3> QED BY <1>2, <2>1, <3>1 DEF Covers
  <2> QED BY <2>2, <2>3
<1>9. ASSUME NEW row, Covers(inside, row) PROVE Covers(next, row)
  <2>1. PICK i \in 1 .. n : Under(row, inside[i])
    BY <1>1, <1>9 DEF Covers
  <2>2. i \in DOMAIN next
    BY <1>1, <1>3
  <2> QED BY <1>3, <2>1, <2>2 DEF Covers
<1>10. ASSUME NEW row, Covers(Tail(walk), row) PROVE Covers(next, row)
  <2>1. PICK i \in 1 .. m - 1 : Under(row, Tail(walk)[i])
    BY <1>2, <1>10 DEF Covers
  <2>2. n + i \in n + 1 .. n + m - 1 /\ n + i \in 1 .. n + m - 1 /\ (n + i) - n + 1 = i + 1
    BY <1>1
  <2>3. next[n + i] = Tail(walk)[i]
    BY <1>2, <1>3, <2>2
  <2> QED BY <1>3, <2>1, <2>2, <2>3 DEF Covers
<1> QED BY <1>3, <1>6, <1>7, <1>8, <1>9, <1>10

------------------------------------------------------------------------------
(* Headers *)

\* A list without its last elements.
LEMMA TopTaken ==
  ASSUME NEW S, NEW list \in Seq(S), NEW n \in Nat, n <= Len(list)
  PROVE  SubSeq(list, 1, Len(list) - n) \in Seq(S)
OBVIOUS

\* The i-th column from the top is there if it gives its filter away.
LEMMA StatsColumnsTyped ==
  ASSUME TypeOK, Header,
         \/ \E n \in 0 .. MaxHeaders : StatsAndLine(n) \/ StatsOrLine(n)
         \/ StatsNegateLine
         \/ \E column \in StatsColumns[table] : StatsLine(column)
  PROVE  /\ statsColumns' \in Seq(StatsColumnsOf(table))
         /\ error' \in {"ok", "invalid_header", "limit_exceeded"}
<1>1. /\ statsColumns \in Seq(StatsColumnsOf(table)) /\ Len(statsColumns) \in Nat
      /\ error \in {"ok", "invalid_header", "limit_exceeded"}
      /\ table \in Tables /\ MaxHeaders \in Nat
  BY BoundAssumption DEF TypeOK
<1>2. ASSUME NEW n \in Nat, n <= Len(statsColumns)
      PROVE  Below(n) \in Seq(StatsColumnsOf(table))
  BY <1>1, <1>2, TopTaken DEF Below
<1>3. ASSUME NEW rows \in SUBSET TableRows(table)
      PROVE  Counting(rows) \in StatsColumnsOf(table)
  BY DEF StatsColumnsOf
<1>4. ASSUME NEW n \in 0 .. MaxHeaders, NEW rows \in SUBSET TableRows(table),
             CombineStats(n, rows)
      PROVE  /\ statsColumns' \in Seq(StatsColumnsOf(table))
             /\ error' \in {"ok", "invalid_header", "limit_exceeded"}
  <2>1. n \in Nat
    BY <1>1
  <2>2. CASE \A i \in 1 .. n : Stealable(i)
    <3>1. n <= Len(statsColumns)
      <4>1. CASE n = 0
        BY <1>1, <4>1
      <4>2. CASE n # 0
        <5>1. n \in 1 .. n
          BY <2>1, <4>2
        <5> QED BY <2>2, <5>1 DEF Stealable
      <4> QED BY <4>1, <4>2
    <3>2. statsColumns' = Append(Below(n), Counting(rows)) /\ error' = error
      BY <1>4, <2>2 DEF CombineStats
    <3> QED BY <1>1, <1>2, <1>3, <2>1, <3>1, <3>2
  <2>3. CASE ~ \A i \in 1 .. n : Stealable(i)
    <3>1. PICK k \in 1 .. n :
              /\ \A i \in 1 .. k - 1 : Stealable(i)
              /\ statsColumns' = Below(k - 1)
              /\ SetError("invalid_header")
      BY <1>4, <2>3 DEF CombineStats
    <3>2. k - 1 \in Nat /\ k - 1 <= Len(statsColumns)
      <4>1. k \in Nat /\ k >= 1
        BY <2>1
      <4>2. CASE k = 1
        BY <1>1, <4>2
      <4>3. CASE k # 1
        <5>1. k - 1 \in 1 .. k - 1
          BY <4>1, <4>3
        <5>2. k - 1 <= Len(statsColumns)
          BY <3>1, <5>1 DEF Stealable
        <5> QED BY <4>1, <5>2
      <4> QED BY <4>2, <4>3
    <3> QED BY <1>1, <1>2, <3>1, <3>2 DEF SetError
  <2> QED BY <2>2, <2>3
<1>5. ASSUME NEW n \in 0 .. MaxHeaders, StatsAndLine(n)
      PROVE  /\ statsColumns' \in Seq(StatsColumnsOf(table))
             /\ error' \in {"ok", "invalid_header", "limit_exceeded"}
  <2>1. {row \in TableRows(table) : \A rows \in TopFilters(n) : row \in rows}
            \in SUBSET TableRows(table)
    OBVIOUS
  <2> QED BY <1>4, <1>5, <2>1 DEF StatsAndLine
<1>6. ASSUME NEW n \in 0 .. MaxHeaders, StatsOrLine(n)
      PROVE  /\ statsColumns' \in Seq(StatsColumnsOf(table))
             /\ error' \in {"ok", "invalid_header", "limit_exceeded"}
  <2>1. CombineStats(n, UNION TopFilters(n))
    BY <1>6 DEF StatsOrLine
  <2>2. CASE \A i \in 1 .. n : Stealable(i)
    <3>1. UNION TopFilters(n) \in SUBSET TableRows(table)
      <4> SUFFICES ASSUME NEW i \in 1 .. n
                   PROVE  statsColumns[Len(statsColumns) - i + 1].accepts
                              \subseteq TableRows(table)
        BY DEF TopFilters
      <4>1. i \in Nat /\ i >= 1 /\ i <= Len(statsColumns)
        BY <1>1, <2>2 DEF Stealable
      <4>2. Len(statsColumns) - i + 1 \in DOMAIN statsColumns
        BY <1>1, <4>1
      <4>3. statsColumns[Len(statsColumns) - i + 1] \in StatsColumnsOf(table)
        BY <1>1, <4>2
      <4>4. \A column \in StatsColumnsOf(table) : column.accepts \subseteq TableRows(table)
        <5>1. \A rows \in SUBSET TableRows(table) : Counting(rows).accepts = rows
          BY DEF Counting
        <5>2. \A op, col : Aggregating(table, op, col).accepts = TableRows(table)
          BY DEF Aggregating
        <5> QED BY <5>1, <5>2 DEF StatsColumnsOf
      <4> QED BY <4>3, <4>4
    <3> QED BY <1>4, <2>1, <3>1
  <2>3. CASE ~ \A i \in 1 .. n : Stealable(i)
    <3>1. CombineStats(n, {})
      BY <2>1, <2>3 DEF CombineStats
    <3> QED BY <1>4, <3>1
  <2> QED BY <2>2, <2>3
<1>7. ASSUME StatsNegateLine
      PROVE  /\ statsColumns' \in Seq(StatsColumnsOf(table))
             /\ error' \in {"ok", "invalid_header", "limit_exceeded"}
  <2>1. CASE Stealable(1)
    <3>1. statsColumns' = Append(Below(1), Counting(TableRows(table) \ UNION TopFilters(1)))
          /\ error' = error
      BY <1>7, <2>1 DEF StatsNegateLine
    <3>2. 1 <= Len(statsColumns)
      BY <2>1 DEF Stealable
    <3>3. Counting(TableRows(table) \ UNION TopFilters(1)) \in StatsColumnsOf(table)
      BY <1>3
    <3> QED BY <1>1, <1>2, <3>1, <3>2, <3>3
  <2>2. CASE ~Stealable(1)
    BY <1>1, <1>7, <2>2 DEF StatsNegateLine, SetError
  <2> QED BY <2>1, <2>2
<1>8. ASSUME NEW column \in StatsColumns[table], StatsLine(column)
      PROVE  /\ statsColumns' \in Seq(StatsColumnsOf(table))
             /\ error' \in {"ok", "invalid_header", "limit_exceeded"}
  <2>1. column \in StatsColumnsOf(table)
    BY <1>1, BoundAssumption
  <2> QED BY <1>1, <1>8, <2>1 DEF StatsLine
<1> QED BY <1>5, <1>6, <1>7, <1>8

\* A header leaves a query that has not started in order.
LEMMA HeaderKeeps ==
  ASSUME IInv,
         \/ \E n \in 0 .. MaxLimit : LimitLine(n)
         \/ TimelimitLine
         \/ \E u \in Users \cup {UnknownUser} : AuthUserLine(u)
         \/ \E col \in AnyColumns : ColumnsLine(col)
         \/ \E column \in StatsColumns[table] : StatsLine(column)
         \/ \E n \in 0 .. MaxHeaders : StatsAndLine(n) \/ StatsOrLine(n)
         \/ StatsNegateLine
  PROVE  IInv'
<1>1. Header
  BY DEF LimitLine, TimelimitLine, AuthUserLine, ColumnsLine, StatsLine, StatsAndLine,
         StatsOrLine, StatsNegateLine, CombineStats
<1>2. /\ pc = "headers" /\ pc' = "headers" /\ numHeaders' \in 0 .. MaxHeaders
      /\ UNCHANGED <<table, filter, groups, late, shouldTerminate, todo, currentLine,
                     consumed>>
  BY <1>1, BoundAssumption DEF Header, IInv, TypeOK
<1>3. /\ todo = <<>> /\ consumed = <<>> /\ currentLine = 0 /\ groups = <<>>
      /\ filter = Null
  BY <1>2 DEF IInv, PhaseInv, TypeOK
<1>4. /\ statsColumns' \in Seq(StatsColumnsOf(table))
      /\ error' \in {"ok", "invalid_header", "limit_exceeded"}
  <2>1. CASE \/ \E n \in 0 .. MaxHeaders : StatsAndLine(n) \/ StatsOrLine(n)
             \/ StatsNegateLine
             \/ \E column \in StatsColumns[table] : StatsLine(column)
    BY <1>1, <2>1, StatsColumnsTyped DEF IInv
  <2>2. CASE \/ \E n \in 0 .. MaxLimit : LimitLine(n)
             \/ TimelimitLine
             \/ \E u \in Users \cup {UnknownUser} : AuthUserLine(u)
             \/ \E col \in AnyColumns : ColumnsLine(col)
    BY <2>2 DEF LimitLine, TimelimitLine, AuthUserLine, ColumnsLine, IInv, TypeOK
  <2> QED BY <2>1, <2>2
<1> DEFINE Fine == /\ columns' \in Seq(AnyColumns)
                   /\ authUser' \in Users \cup {UnknownUser, Null}
                   /\ limit' \in -1 .. MaxLimit
                   /\ timeLimit' \in BOOLEAN
<1>5. Fine
  <2>1. /\ columns \in Seq(AnyColumns) /\ authUser \in Users \cup {UnknownUser, Null}
        /\ limit \in -1 .. MaxLimit /\ timeLimit \in BOOLEAN /\ MaxLimit \in Nat
    BY BoundAssumption DEF IInv, TypeOK
  <2>2. ASSUME NEW n \in 0 .. MaxLimit, LimitLine(n) PROVE Fine
    <3>1. n \in -1 .. MaxLimit
      BY <2>1
    <3> QED BY <2>1, <2>2, <3>1 DEF LimitLine
  <2>3. ASSUME TimelimitLine PROVE Fine
    BY <2>1, <2>3 DEF TimelimitLine
  <2>4. ASSUME NEW u \in Users \cup {UnknownUser}, AuthUserLine(u) PROVE Fine
    BY <2>1, <2>4 DEF AuthUserLine
  <2>5. ASSUME NEW col \in AnyColumns, ColumnsLine(col) PROVE Fine
    BY <2>1, <2>5 DEF ColumnsLine
  <2>6. ASSUME NEW column, StatsLine(column) PROVE Fine
    BY <2>1, <2>6 DEF StatsLine
  <2>7. ASSUME NEW n, StatsAndLine(n) \/ StatsOrLine(n) PROVE Fine
    BY <2>1, <2>7 DEF StatsAndLine, StatsOrLine, CombineStats
  <2>8. ASSUME StatsNegateLine PROVE Fine
    BY <2>1, <2>8 DEF StatsNegateLine
  <2> QED BY <2>2, <2>3, <2>4, <2>5, <2>6, <2>7, <2>8
<1>6. TypeOK'
  BY <1>2, <1>3, <1>4, <1>5 DEF IInv, TypeOK
<1>7. PhaseInv'
  BY <1>2, <1>3 DEF PhaseInv
<1>8. OnlyWantedRowsOnce' /\ WalkInv' /\ CoverInv'
  BY <1>2, <1>3 DEF OnlyWantedRowsOnce, WalkInv, RowsShown, CoverInv, Apart
<1> QED BY <1>6, <1>7, <1>8 DEF IInv

------------------------------------------------------------------------------
(* The walk *)

\* What is wanted depends on the headers only.
LEMMA WantedStays ==
  ASSUME UNCHANGED headerVars
  PROVE  /\ Wanted' = Wanted
         /\ \A g : HidesGroup(g)' <=> HidesGroup(g)
         /\ \A item : IsRow(item)' <=> IsRow(item)
<1>1. UNCHANGED <<table, filter, authUser>>
  BY DEF headerVars
<1>2. \A g : HidesGroup(g)' <=> HidesGroup(g)
  BY <1>1 DEF HidesGroup
<1>3. \A item : IsRow(item)' <=> IsRow(item)
  BY <1>1 DEF IsRow
<1>4. \A row, u : IsAuthorized(row, u)' <=> IsAuthorized(row, u)
  BY <1>1 DEF IsAuthorized
<1>5. Wanted' = Wanted
  BY <1>1, <1>2, <1>4 DEF Wanted
<1> QED BY <1>2, <1>3, <1>5

\* Whether the rows of a walk may be shown, too.
LEMMA ShownStays ==
  ASSUME UNCHANGED headerVars,
         \A i \in DOMAIN todo' : IsRow(todo'[i]) => ~HidesGroup(todo'[i].group)
  PROVE  RowsShown'
BY DEF headerVars, RowsShown, IsRow, HidesGroup

\* The walk is its first item and the rest.
LEMMA HeadAndTail ==
  ASSUME NEW S, NEW walk \in Seq(S), walk # <<>>, NEW t, Apart(t, walk)
  PROVE  /\ Tail(walk) \in Seq(S) /\ Head(walk) \in S
         /\ Head(walk) = walk[1] /\ 1 \in DOMAIN walk
         /\ \A i \in DOMAIN Tail(walk) :
                i + 1 \in DOMAIN walk /\ Tail(walk)[i] = walk[i + 1]
         /\ Apart(t, Tail(walk))
         /\ \A row : Covers(walk, row) <=>
                         Under(row, Head(walk)) \/ Covers(Tail(walk), row)
         /\ \A row \in TableRows(t) :
                ~(Under(row, Head(walk)) /\ Covers(Tail(walk), row))
<1> DEFINE m == Len(walk)
           rest == Tail(walk)
<1>1. /\ m \in Nat /\ m > 0 /\ DOMAIN walk = 1 .. m
      /\ Head(walk) = walk[1] /\ walk[1] \in S
      /\ rest \in Seq(S) /\ DOMAIN rest = 1 .. m - 1
      /\ \A i \in 1 .. m - 1 : rest[i] = walk[i + 1]
  OBVIOUS
<1> HIDE DEF m, rest
<1>2. \A i \in 1 .. m - 1 : i + 1 \in 1 .. m /\ i + 1 # 1
  BY <1>1
<1>3. 1 \in 1 .. m
  BY <1>1
<1>4. ASSUME NEW i \in 1 .. m, i # 1 PROVE i - 1 \in 1 .. m - 1 /\ (i - 1) + 1 = i
  BY <1>1, <1>4
<1>5. Apart(t, rest)
  <2> SUFFICES ASSUME NEW i \in 1 .. m - 1, NEW j \in 1 .. m - 1, NEW row \in TableRows(t),
                      Under(row, rest[i]), Under(row, rest[j])
               PROVE  i = j
    BY <1>1 DEF Apart
  <2>1. i + 1 = j + 1
    BY <1>1, <1>2 DEF Apart
  <2> QED BY <1>1, <2>1
<1>6. ASSUME NEW row, Covers(walk, row) PROVE Under(row, Head(walk)) \/ Covers(rest, row)
  <2>1. PICK i \in 1 .. m : Under(row, walk[i])
    BY <1>1, <1>6 DEF Covers
  <2>2. CASE i # 1
    <3>1. i - 1 \in 1 .. m - 1 /\ (i - 1) + 1 = i
      BY <1>4, <2>2
    <3>2. rest[i - 1] = walk[i]
      BY <1>1, <3>1
    <3> QED BY <1>1, <2>1, <3>1, <3>2 DEF Covers
  <2> QED BY <1>1, <2>1, <2>2
<1>7. ASSUME NEW row, Covers(rest, row)
      PROVE  \E i \in 1 .. m : i # 1 /\ Under(row, walk[i])
  BY <1>1, <1>2, <1>7 DEF Covers
<1>8. \A row : Under(row, Head(walk)) => Covers(walk, row)
  BY <1>1, <1>3 DEF Covers
<1>9. \A row : Covers(rest, row) => Covers(walk, row)
  BY <1>1, <1>7 DEF Covers
<1>10. ASSUME NEW row \in TableRows(t), Under(row, Head(walk)), Covers(rest, row)
       PROVE  FALSE
  <2>1. PICK i \in 1 .. m : i # 1 /\ Under(row, walk[i])
    BY <1>7, <1>10
  <2>2. Under(row, walk[1])
    BY <1>1, <1>10
  <2>3. i = 1
    BY <1>1, <1>3, <2>1, <2>2 DEF Apart
  <2> QED BY <2>1, <2>3
<1>11. \A i \in DOMAIN rest : i + 1 \in DOMAIN walk /\ rest[i] = walk[i + 1]
  BY <1>1, <1>2
<1> QED BY <1>1, <1>3, <1>5, <1>6, <1>8, <1>9, <1>10, <1>11 DEF rest

\* The query starts: the walk leads to all that is wanted.
LEMMA StartKeeps ==
  ASSUME IInv, NEW f \in Filters[table], StartQuery(f)
  PROVE  IInv'
<1>1. /\ pc = "headers" /\ pc' = "table" /\ filter' = f
      /\ todo' = AnswerQuery(table, Restriction[table][f])
      /\ UNCHANGED <<table, columns, statsColumns, authUser, limit, timeLimit, numHeaders,
                     late, shouldTerminate, currentLine, consumed, error>>
  BY DEF StartQuery, environmentVars
<1>2. table \in Tables /\ consumed = <<>> /\ currentLine = 0 /\ limit \in Int
  BY <1>1, BoundAssumption DEF IInv, PhaseInv, TypeOK
<1>3. /\ todo' \in Seq(WalkItems(table))
      /\ Apart(table, todo')
      /\ \A row \in AcceptedRows[table][f] : Covers(todo', row)
      /\ table \in {"hostsbygroup", "servicesbygroup"} =>
             \A i \in DOMAIN todo' : todo'[i] \notin TableRows(table)
  BY <1>1, <1>2, AnswerLeads
<1>4. groups' \in [DOMAIN groups' -> [DOMAIN statsColumns' -> Aggregators]]
  <2>1. CASE DoStats /\ columns = <<>>
    <3>1. groups' = [fragment \in {<<>>} |-> AggregatorsFor(fragment)]
      BY <2>1 DEF StartQuery
    <3>2. AggregatorsFor(<<>>) \in [DOMAIN statsColumns -> Aggregators]
      <4>1. DOMAIN groups = {}
        BY <1>1 DEF IInv, PhaseInv
      <4> QED BY <4>1 DEF AggregatorsFor, NewAggregator, Aggregators
    <3> QED BY <1>1, <3>1, <3>2
  <2>2. CASE ~(DoStats /\ columns = <<>>)
    <3>1. groups' = <<>>
      BY <2>2 DEF StartQuery
    <3> QED BY <3>1
  <2> QED BY <2>1, <2>2
<1>5. TypeOK'
  BY <1>1, <1>3, <1>4 DEF IInv, TypeOK
<1>6. PhaseInv'
  BY <1>1, <1>2 DEF PhaseInv
<1>7. OnlyWantedRowsOnce'
  BY <1>1, <1>2 DEF OnlyWantedRowsOnce
<1>8. RowsShown'
  <2>1. CASE table \in {"hostsbygroup", "servicesbygroup"}
    <3>1. \A i \in DOMAIN todo' : ~IsRow(todo'[i])
      BY <1>2, <1>3, <2>1, RowsAreRows
    <3> QED BY <1>1, <3>1 DEF RowsShown, IsRow
  <2>2. CASE table \notin {"hostsbygroup", "servicesbygroup"}
    BY <1>1, <2>2 DEF RowsShown, HidesGroup
  <2> QED BY <2>1, <2>2
<1>9. WalkInv'
  BY <1>1, <1>2, <1>3, <1>8 DEF WalkInv
<1>10. CoverInv'
  <2>1. \A row \in Wanted' : row \in AcceptedRows[table][f]
    BY <1>1 DEF Wanted
  <2> QED BY <1>3, <2>1 DEF CoverInv
<1> QED BY <1>5, <1>6, <1>7, <1>9, <1>10 DEF IInv

\* A group or a host is entered.
LEMMA EnterKeeps ==
  ASSUME IInv, Enter
  PROVE  IInv'
<1> DEFINE item == Head(todo)
           inside == Contents(item)
<1>1. /\ pc = "table" /\ todo # <<>> /\ ~IsRow(item)
      /\ todo' = inside \o Tail(todo)
      /\ UNCHANGED <<pc, late, shouldTerminate, currentLine, consumed, groups, error>>
      /\ UNCHANGED headerVars
  BY DEF Enter, environmentVars
<1>2. UNCHANGED <<table, filter, columns, statsColumns, authUser, limit, timeLimit,
                  numHeaders>>
  BY <1>1 DEF headerVars
<1>3. /\ table \in Tables /\ todo \in Seq(WalkItems(table)) /\ Apart(table, todo)
      /\ \A k \in DOMAIN consumed : ~Covers(todo, consumed[k])
      /\ \A k \in DOMAIN consumed : consumed[k] \in TableRows(table)
      /\ \A i \in DOMAIN todo : IsRow(todo[i]) => ~HidesGroup(todo[i].group)
  BY DEF IInv, TypeOK, WalkInv, RowsShown
<1>4. /\ item \in WalkItems(table)
      /\ \A row : Covers(todo, row) <=> Under(row, item) \/ Covers(Tail(todo), row)
  BY <1>1, <1>3, HeadAndTail
<1>5. \/ HidesGroup(item.group) /\ inside = <<>>
      \/ ~HidesGroup(item.group) /\ Leads(table, inside, item)
  BY <1>1, <1>3, <1>4, ContentsLead
<1> HIDE DEF item, inside
<1>6. /\ inside \in Seq(WalkItems(table)) /\ Apart(table, inside)
      /\ \A row \in TableRows(table) : Covers(inside, row) => Under(row, item)
      /\ \A i \in DOMAIN inside : ~HidesGroup(inside[i].group)
      /\ \A row \in TableRows(table) :
             Under(row, item) => Covers(inside, row) \/ HidesGroup(row.group)
  <2>1. CASE HidesGroup(item.group) /\ inside = <<>>
    <3>1. \A row : Under(row, item) => row.group = item.group
      BY DEF Under
    <3>2. \A row : ~Covers(inside, row)
      BY <2>1 DEF Covers
    <3> QED BY <2>1, <3>1, <3>2, WalkOverNothing
  <2>2. CASE ~HidesGroup(item.group) /\ Leads(table, inside, item)
    BY <2>2 DEF Leads
  <2> QED BY <1>5, <2>1, <2>2
<1>7. /\ todo' \in Seq(WalkItems(table))
      /\ Apart(table, todo')
      /\ \A i \in DOMAIN todo' : \/ \E j \in DOMAIN inside : todo'[i] = inside[j]
                                 \/ \E j \in DOMAIN todo : todo'[i] = todo[j]
      /\ \A row : Covers(todo', row) <=> Covers(inside, row) \/ Covers(Tail(todo), row)
  <2>1. \A row \in TableRows(table) : Covers(inside, row) => Under(row, Head(todo))
    BY <1>6 DEF item
  <2>2. todo' = Replaced(todo, inside)
    BY <1>1 DEF Replaced
  <2> QED BY <1>1, <1>3, <1>6, <2>1, <2>2, ReplaceHead
<1>8. TypeOK'
  BY <1>1, <1>2, <1>7 DEF IInv, TypeOK
<1>9. PhaseInv'
  BY <1>1, <1>2 DEF IInv, PhaseInv
<1>10. OnlyWantedRowsOnce'
  BY <1>1, WantedStays DEF IInv, OnlyWantedRowsOnce
<1>11. WalkInv'
  <2>1. \A k \in DOMAIN consumed : ~Covers(todo', consumed[k])
    BY <1>3, <1>4, <1>6, <1>7
  <2>2. \A i \in DOMAIN todo' : IsRow(todo'[i]) => ~HidesGroup(todo'[i].group)
    BY <1>3, <1>6, <1>7
  <2>3. RowsShown'
    BY <1>1, <2>2, ShownStays
  <2> QED BY <1>1, <1>2, <1>7, <2>1, <2>3 DEF WalkInv
<1>12. CoverInv'
  <2>1. Excused => Excused'
    BY <1>1, <1>2 DEF Excused, DoStats
  <2>2. ASSUME ~Excused, NEW row \in Wanted
        PROVE  row \in Range(consumed) \/ Covers(todo', row)
    <3>1. row \in TableRows(table) /\ ~HidesGroup(row.group)
      BY DEF Wanted
    <3>2. row \in Range(consumed) \/ Covers(todo, row)
      BY <1>1, <2>2 DEF IInv, CoverInv
    <3> QED BY <1>4, <1>6, <1>7, <3>1, <3>2
  <2> QED BY <1>1, <2>1, <2>2, WantedStays DEF CoverInv
<1> QED BY <1>8, <1>9, <1>10, <1>11, <1>12 DEF IInv

\* The answer of processDataset is false, for a reason that excuses missing rows.
LEMMA StopKeeps ==
  ASSUME IInv, AtRow, Stop, currentLine' \in Nat,
         error' \in {"ok", "invalid_header", "limit_exceeded"}, Excused'
  PROVE  IInv'
<1>1. /\ pc = "table" /\ pc' = "table" /\ todo' = <<>>
      /\ UNCHANGED <<late, shouldTerminate, consumed, groups>>
      /\ UNCHANGED headerVars
  BY DEF AtRow, Stop, environmentVars
<1>2. UNCHANGED <<table, filter, columns, statsColumns, authUser, limit, timeLimit,
                  numHeaders>>
  BY <1>1 DEF headerVars
<1>3. TypeOK'
  BY <1>1, <1>2 DEF IInv, TypeOK
<1>4. PhaseInv'
  BY <1>1, <1>2 DEF IInv, PhaseInv
<1>5. OnlyWantedRowsOnce'
  BY <1>1, WantedStays DEF IInv, OnlyWantedRowsOnce
<1>6. WalkInv'
  BY <1>1 DEF WalkInv, RowsShown, Apart, Covers
<1>7. CoverInv'
  BY DEF CoverInv
<1> QED BY <1>3, <1>4, <1>5, <1>6, <1>7 DEF IInv

\* The answer is stopped by the termination flag, its size, Limit or Timelimit.
LEMMA RefuseKeeps ==
  ASSUME IInv,
         RefuseWhenTerminating \/ RefuseWhenTooLarge \/ RefuseAtLimit \/ RefuseAtTimeLimit
  PROVE  IInv'
<1>1. /\ error \in {"ok", "invalid_header", "limit_exceeded"} /\ currentLine \in Nat
      /\ consumed \in Seq(TableRows(table)) /\ Len(consumed) \in Nat /\ limit \in Int
  BY BoundAssumption DEF IInv, TypeOK
<1>2. ASSUME AtRow PROVE UNCHANGED <<statsColumns, limit>>
  BY <1>2 DEF AtRow, headerVars
<1>3. ASSUME SetError("limit_exceeded")
      PROVE  error' # "ok" /\ error' \in {"ok", "invalid_header", "limit_exceeded"}
  BY <1>1, <1>3 DEF SetError
<1>4. CASE RefuseWhenTerminating
  BY <1>1, <1>3, <1>4, StopKeeps DEF RefuseWhenTerminating, Excused
<1>5. CASE RefuseWhenTooLarge
  <2>1. AtRow /\ Stop /\ TooLarge /\ currentLine' = currentLine /\ error' = error
    BY <1>5 DEF RefuseWhenTooLarge
  <2>2. Excused'
    BY <1>2, <2>1 DEF Stop, TooLarge, Excused, DoStats
  <2> QED BY <1>1, <2>1, <2>2, StopKeeps
<1>6. CASE RefuseAtLimit
  <2>1. /\ AtRow /\ Stop /\ LimitReached
        /\ currentLine' = currentLine + 1 /\ error' = error /\ todo # <<>>
    BY <1>6 DEF RefuseAtLimit, CountRow, AtRow
  <2>2. currentLine = Len(consumed) /\ (limit >= 0 => Len(consumed) <= limit)
    BY <2>1 DEF IInv, PhaseInv
  <2>3. Len(consumed) = limit
    BY <1>1, <2>1, <2>2 DEF LimitReached
  <2>4. Excused'
    BY <1>2, <2>1, <2>3 DEF Stop, Excused
  <2>5. currentLine' \in Nat
    BY <1>1, <2>1
  <2> QED BY <1>1, <2>1, <2>4, <2>5, StopKeeps
<1>7. CASE RefuseAtTimeLimit
  <2>1. /\ AtRow /\ Stop /\ SetError("limit_exceeded")
        /\ currentLine' = currentLine + 1
    BY <1>7 DEF RefuseAtTimeLimit, CountRow
  <2>2. Excused'
    BY <1>3, <2>1 DEF Excused
  <2>3. currentLine' \in Nat
    BY <1>1, <2>1
  <2> QED BY <1>3, <2>1, <2>2, <2>3, StopKeeps
<1> QED BY <1>4, <1>5, <1>6, <1>7

\* What is known of the row at the head of the walk.
LEMMA HeadIsRow ==
  ASSUME IInv, AtRow
  PROVE  /\ table \in Tables
         /\ Row \in TableRows(table) /\ ~HidesGroup(Row.group)
         /\ Row \in Wanted <=> Selected
         /\ \A k \in DOMAIN consumed : consumed[k] # Row
         /\ \A row \in TableRows(table) :
                Covers(todo, row) <=> row = Row \/ Covers(Tail(todo), row)
         /\ ~Covers(Tail(todo), Row)
         /\ Tail(todo) \in Seq(WalkItems(table)) /\ Apart(table, Tail(todo))
         /\ \A i \in DOMAIN Tail(todo) :
                IsRow(Tail(todo)[i]) => ~HidesGroup(Tail(todo)[i].group)
<1>1. /\ table \in Tables /\ todo \in Seq(WalkItems(table)) /\ Apart(table, todo)
      /\ todo # <<>> /\ IsRow(Row) /\ RowsShown
      /\ \A k \in DOMAIN consumed : ~Covers(todo, consumed[k])
  BY DEF IInv, TypeOK, WalkInv, AtRow
<1>2. /\ Tail(todo) \in Seq(WalkItems(table)) /\ Row \in WalkItems(table)
      /\ Row = todo[1] /\ 1 \in DOMAIN todo
      /\ \A i \in DOMAIN Tail(todo) :
             i + 1 \in DOMAIN todo /\ Tail(todo)[i] = todo[i + 1]
      /\ Apart(table, Tail(todo))
      /\ \A row : Covers(todo, row) <=> Under(row, Row) \/ Covers(Tail(todo), row)
      /\ \A row \in TableRows(table) : ~(Under(row, Row) /\ Covers(Tail(todo), row))
  BY <1>1, HeadAndTail DEF Row
<1>3. Row \in TableRows(table)
  BY <1>1, <1>2, RowsAreRows
<1>4. \A row \in TableRows(table) : Under(row, Row) <=> row = Row
  BY <1>1, <1>3, RowsDiffer
<1>5. ~HidesGroup(Row.group)
  BY <1>1, <1>2 DEF RowsShown
<1>6. Row \in Wanted <=> Selected
  BY <1>3, <1>5 DEF Wanted, Selected
<1>7. \A i \in DOMAIN Tail(todo) :
          IsRow(Tail(todo)[i]) => ~HidesGroup(Tail(todo)[i].group)
  BY <1>1, <1>2 DEF RowsShown
<1>8. \A k \in DOMAIN consumed : consumed[k] # Row
  <2>1. Covers(todo, Row)
    BY <1>2, <1>3, <1>4
  <2> QED BY <1>1, <2>1
<1> QED BY <1>1, <1>2, <1>3, <1>4, <1>5, <1>6, <1>7, <1>8

\* A row that is not wanted is passed over.
LEMMA SkipKeeps == ASSUME IInv, SkipRow PROVE IInv'
<1>1. /\ AtRow /\ ~Selected /\ todo' = Tail(todo) /\ pc = "table" /\ pc' = "table"
      /\ todo # <<>>
      /\ UNCHANGED <<late, shouldTerminate, currentLine, consumed, groups, error>>
      /\ UNCHANGED headerVars
  BY DEF SkipRow, AtRow, environmentVars
<1>2. UNCHANGED <<table, filter, columns, statsColumns, authUser, limit, timeLimit,
                  numHeaders>>
  BY <1>1 DEF headerVars
<1>3. /\ Row \notin Wanted
      /\ \A row \in TableRows(table) :
             Covers(todo, row) <=> row = Row \/ Covers(todo', row)
      /\ todo' \in Seq(WalkItems(table)) /\ Apart(table, todo')
      /\ \A i \in DOMAIN todo' : IsRow(todo'[i]) => ~HidesGroup(todo'[i].group)
  BY <1>1, HeadIsRow
<1>4. TypeOK'
  BY <1>1, <1>2, <1>3 DEF IInv, TypeOK
<1>5. PhaseInv'
  BY <1>1, <1>2 DEF IInv, PhaseInv
<1>6. OnlyWantedRowsOnce'
  BY <1>1, WantedStays DEF IInv, OnlyWantedRowsOnce
<1>7. WalkInv'
  <2>1. RowsShown'
    BY <1>1, <1>3, ShownStays
  <2>2. \A k \in DOMAIN consumed : ~Covers(todo, consumed[k])
                                   /\ consumed[k] \in TableRows(table)
    BY DEF IInv, WalkInv, TypeOK
  <2>3. \A k \in DOMAIN consumed : ~Covers(todo', consumed[k])
    BY <1>3, <2>2
  <2> QED BY <1>1, <1>2, <1>3, <2>1, <2>3 DEF WalkInv
<1>8. CoverInv'
  <2>1. Excused => Excused'
    BY <1>1, <1>2 DEF Excused, DoStats
  <2>2. ASSUME ~Excused, NEW row \in Wanted
        PROVE  row \in Range(consumed) \/ Covers(todo', row)
    <3>1. row \in TableRows(table)
      BY DEF Wanted
    <3>2. row \in Range(consumed) \/ Covers(todo, row)
      BY <1>1, <2>2 DEF IInv, CoverInv
    <3> QED BY <1>3, <3>1, <3>2
  <2> QED BY <1>1, <2>1, <2>2, WantedStays DEF CoverInv
<1> QED BY <1>4, <1>5, <1>6, <1>7, <1>8 DEF IInv

\* The aggregators stay aggregators.
LEMMA ConsumeTyped ==
  ASSUME table \in Tables, NEW aggr \in Aggregators,
         NEW column \in StatsColumnsOf(table), NEW row \in TableRows(table)
  PROVE  Consume(aggr, column, row) \in Aggregators
<1>1. /\ aggr.n \in Nat /\ aggr.value \in Int
      /\ aggr = [n |-> aggr.n, value |-> aggr.value]
  BY DEF Aggregators
<1>2. ASSUME NEW op \in {"sum", "min", "max", "avg"}, NEW x \in Int
      PROVE  Aggregate(aggr, op, x) \in Aggregators
  BY <1>1, <1>2 DEF Aggregate, Aggregators
<1>3. CASE column.column \in NumericColumns
  <2>1. Field[table][column.column][row] \in Int
    BY <1>3, BoundAssumption
  <2>2. column.column # Null
    BY <1>3, BoundAssumption
  <2>3. column.op \in {"sum", "min", "max", "avg"}
    <3>1. \A rows : Counting(rows).column = Null
      BY DEF Counting
    <3>2. \A op, col : Aggregating(table, op, col).op = op
      BY DEF Aggregating
    <3> QED BY <2>2, <3>1, <3>2 DEF StatsColumnsOf
  <2> QED BY <1>2, <1>3, <2>1, <2>3 DEF Consume
<1>4. CASE column.column \notin NumericColumns
  BY <1>2, <1>4 DEF Consume
<1> QED BY <1>3, <1>4

\* The row is written or aggregated.
LEMMA ConsumeKeeps == ASSUME IInv, ConsumeRow PROVE IInv'
<1>1. /\ AtRow /\ Selected /\ ~LimitReached /\ pc = "table" /\ pc' = "table"
      /\ todo # <<>> /\ todo' = Tail(todo) /\ consumed' = Append(consumed, Row)
      /\ currentLine' = currentLine + 1
      /\ UNCHANGED <<late, shouldTerminate, error>>
      /\ UNCHANGED headerVars
  BY DEF ConsumeRow, CountRow, AtRow, environmentVars
<1>2. UNCHANGED <<table, filter, columns, statsColumns, authUser, limit, timeLimit,
                  numHeaders>>
  BY <1>1 DEF headerVars
<1>3. /\ table \in Tables /\ Row \in TableRows(table) /\ Row \in Wanted
      /\ \A k \in DOMAIN consumed : consumed[k] # Row
      /\ \A row \in TableRows(table) :
             Covers(todo, row) <=> row = Row \/ Covers(todo', row)
      /\ ~Covers(todo', Row)
      /\ todo' \in Seq(WalkItems(table)) /\ Apart(table, todo')
      /\ \A i \in DOMAIN todo' : IsRow(todo'[i]) => ~HidesGroup(todo'[i].group)
  BY <1>1, HeadIsRow
<1>4. /\ consumed \in Seq(TableRows(table)) /\ Len(consumed) \in Nat
      /\ currentLine = Len(consumed) /\ limit \in Int
      /\ limit >= 0 => Len(consumed) <= limit
  BY <1>1, BoundAssumption DEF IInv, TypeOK, PhaseInv
<1>5. /\ consumed' \in Seq(TableRows(table)) /\ Len(consumed') = Len(consumed) + 1
      /\ DOMAIN consumed' = 1 .. Len(consumed) + 1 /\ DOMAIN consumed = 1 .. Len(consumed)
      /\ \A k \in 1 .. Len(consumed) : consumed'[k] = consumed[k]
      /\ consumed'[Len(consumed) + 1] = Row
  BY <1>1, <1>3, <1>4
<1>6. \A k \in DOMAIN consumed' :
          k \in DOMAIN consumed \/ (k = Len(consumed) + 1 /\ k \notin DOMAIN consumed)
  BY <1>4, <1>5
<1>7. groups' \in [DOMAIN groups' -> [DOMAIN statsColumns -> Aggregators]]
  <2>1. groups \in [DOMAIN groups -> [DOMAIN statsColumns -> Aggregators]]
    BY DEF IInv, TypeOK
  <2>2. CASE ~DoStats
    BY <2>1, <2>2 DEF ConsumeRow
  <2>3. CASE DoStats
    <3> DEFINE fragment == Fragment(Row)
               aggrs == AggregatorsFor(fragment)
               fed == [i \in DOMAIN statsColumns |-> Consume(aggrs[i], statsColumns[i], Row)]
    <3>1. groups' = [x \in DOMAIN groups \cup {fragment} |->
                        IF x = fragment THEN fed ELSE groups[x]]
      BY <2>3 DEF ConsumeRow
    <3>2. aggrs \in [DOMAIN statsColumns -> Aggregators]
      BY <2>1 DEF AggregatorsFor, NewAggregator, Aggregators
    <3>3. \A i \in DOMAIN statsColumns : statsColumns[i] \in StatsColumnsOf(table)
      BY DEF IInv, TypeOK
    <3> HIDE DEF aggrs
    <3>4. fed \in [DOMAIN statsColumns -> Aggregators]
      BY <1>3, <3>2, <3>3, ConsumeTyped
    <3> HIDE DEF fragment, fed
    <3> QED BY <2>1, <3>1, <3>4
  <2> QED BY <2>2, <2>3
<1>8. TypeOK'
  <2>1. currentLine' \in Nat
    BY <1>1, <1>4
  <2> QED BY <1>1, <1>2, <1>3, <1>5, <1>7, <2>1 DEF IInv, TypeOK
<1>9. PhaseInv'
  <2>1. limit >= 0 => Len(consumed) + 1 <= limit
    BY <1>1, <1>4 DEF LimitReached
  <2> QED BY <1>1, <1>2, <1>4, <1>5, <2>1 DEF PhaseInv
<1>10. OnlyWantedRowsOnce'
  <2>1. /\ \A k \in DOMAIN consumed : consumed[k] \in Wanted
        /\ \A j, k \in DOMAIN consumed : consumed[j] = consumed[k] => j = k
    BY DEF IInv, OnlyWantedRowsOnce
  <2>2. \A k \in DOMAIN consumed' : consumed'[k] \in Wanted'
    BY <1>1, <1>3, <1>5, <1>6, <2>1, WantedStays
  <2>3. ASSUME NEW j \in DOMAIN consumed', NEW k \in DOMAIN consumed',
               consumed'[j] = consumed'[k]
        PROVE  j = k
    <3>1. CASE j \in DOMAIN consumed /\ k \in DOMAIN consumed
      BY <1>5, <2>1, <2>3, <3>1
    <3>2. CASE j \in DOMAIN consumed /\ k = Len(consumed) + 1
      BY <1>3, <1>5, <2>3, <3>2
    <3>3. CASE j = Len(consumed) + 1 /\ k \in DOMAIN consumed
      BY <1>3, <1>5, <2>3, <3>3
    <3> QED BY <1>6, <3>1, <3>2, <3>3
  <2> QED BY <2>2, <2>3 DEF OnlyWantedRowsOnce
<1>11. WalkInv'
  <2>1. RowsShown'
    BY <1>1, <1>3, ShownStays
  <2>2. \A k \in DOMAIN consumed : ~Covers(todo, consumed[k])
                                   /\ consumed[k] \in TableRows(table)
    BY DEF IInv, WalkInv, TypeOK
  <2>3. \A k \in DOMAIN consumed' : ~Covers(todo', consumed'[k])
    BY <1>3, <1>5, <1>6, <2>2
  <2> QED BY <1>1, <1>2, <1>3, <2>1, <2>3 DEF WalkInv
<1>12. CoverInv'
  <2>1. ASSUME Excused PROVE Excused'
    <3>1. CASE error # "ok"
      BY <1>1, <3>1 DEF Excused
    <3>2. Len(consumed) # limit
      BY <1>1, <1>4 DEF LimitReached
    <3>3. CASE ~DoStats /\ Len(consumed) > MaxResponseSize
      <4>1. Len(consumed') > MaxResponseSize
        BY <1>4, <1>5, <3>3, BoundAssumption
      <4> QED BY <1>2, <3>3, <4>1 DEF Excused, DoStats
    <3> QED BY <2>1, <3>1, <3>2, <3>3 DEF Excused
  <2>2. ASSUME ~Excused, NEW row \in Wanted
        PROVE  row \in Range(consumed') \/ Covers(todo', row)
    <3>1. row \in TableRows(table)
      BY DEF Wanted
    <3>2. row \in Range(consumed) \/ Covers(todo, row)
      BY <1>1, <2>2 DEF IInv, CoverInv
    <3>3. Range(consumed) \subseteq Range(consumed')
      BY <1>5, <1>6 DEF Range
    <3>4. Row \in Range(consumed')
      BY <1>4, <1>5 DEF Range
    <3> QED BY <1>3, <3>1, <3>2, <3>3, <3>4
  <2> QED BY <1>1, <2>1, <2>2, WantedStays DEF CoverInv
<1> QED BY <1>8, <1>9, <1>10, <1>11, <1>12 DEF IInv

\* The end of the walk, the clock and the termination flag, and nothing at all.
LEMMA OthersKeep ==
  ASSUME IInv, Finish \/ ClockPasses \/ Terminate \/ UNCHANGED vars
  PROVE  IInv'
<1>1. /\ UNCHANGED <<todo, currentLine, consumed, groups, error>>
      /\ UNCHANGED headerVars
      /\ pc' = pc \/ (pc = "table" /\ pc' = "done" /\ todo = <<>>)
      /\ late' \in BOOLEAN /\ shouldTerminate' \in BOOLEAN
  BY DEF Finish, ClockPasses, Terminate, vars, walkVars, environmentVars, IInv, TypeOK
<1>2. UNCHANGED <<table, filter, columns, statsColumns, authUser, limit, timeLimit,
                  numHeaders>>
  BY <1>1 DEF headerVars
<1>3. TypeOK'
  BY <1>1, <1>2 DEF IInv, TypeOK
<1>4. PhaseInv'
  BY <1>1, <1>2 DEF IInv, PhaseInv
<1>5. OnlyWantedRowsOnce'
  BY <1>1, WantedStays DEF IInv, OnlyWantedRowsOnce
<1>6. WalkInv'
  <2>1. \A i \in DOMAIN todo' : IsRow(todo'[i]) => ~HidesGroup(todo'[i].group)
    BY <1>1 DEF IInv, WalkInv, RowsShown
  <2>2. RowsShown'
    BY <1>1, <2>1, ShownStays
  <2> QED BY <1>1, <1>2, <2>2 DEF IInv, WalkInv
<1>7. CoverInv'
  <2>1. Excused <=> Excused'
    BY <1>1, <1>2 DEF Excused, DoStats
  <2> QED BY <1>1, <2>1, WantedStays DEF IInv, CoverInv
<1> QED BY <1>3, <1>4, <1>5, <1>6, <1>7 DEF IInv

\* Nothing is walked over or consumed in the beginning.
LEMMA QueryInit == Init => IInv
<1> SUFFICES ASSUME Init PROVE IInv
  OBVIOUS
<1>1. TypeOK
  <2> USE DEF Init
  <2>1. MaxHeaders \in Nat /\ MaxLimit \in Nat
    BY BoundAssumption
  <2>2. groups \in [DOMAIN groups -> [DOMAIN statsColumns -> Aggregators]]
    OBVIOUS
  <2>3. limit \in -1 .. MaxLimit /\ numHeaders \in 0 .. MaxHeaders
    BY <2>1
  <2>4. /\ columns \in Seq(AnyColumns) /\ statsColumns \in Seq(StatsColumnsOf(table))
        /\ todo \in Seq(WalkItems(table)) /\ consumed \in Seq(TableRows(table))
    OBVIOUS
  <2> QED BY <2>2, <2>3, <2>4 DEF TypeOK
<1>2. PhaseInv /\ OnlyWantedRowsOnce /\ WalkInv /\ CoverInv
  BY DEF Init, PhaseInv, OnlyWantedRowsOnce, WalkInv, RowsShown, Apart, CoverInv
<1> QED BY <1>1, <1>2 DEF IInv

\* The invariant is inductive.
LEMMA QueryNext == IInv /\ [Next]_vars => IInv'
<1> SUFFICES ASSUME IInv, [Next]_vars PROVE IInv'
  OBVIOUS
<1>1. CASE \/ \E n \in 0 .. MaxLimit : LimitLine(n)
           \/ TimelimitLine
           \/ \E u \in Users \cup {UnknownUser} : AuthUserLine(u)
           \/ \E col \in AnyColumns : ColumnsLine(col)
           \/ \E column \in StatsColumns[table] : StatsLine(column)
           \/ \E n \in 0 .. MaxHeaders : StatsAndLine(n) \/ StatsOrLine(n)
           \/ StatsNegateLine
  BY <1>1, HeaderKeeps
<1>2. CASE \E f \in Filters[table] : StartQuery(f)
  BY <1>2, StartKeeps
<1>3. CASE Enter
  BY <1>3, EnterKeeps
<1>4. CASE \/ RefuseWhenTerminating \/ RefuseWhenTooLarge
           \/ RefuseAtLimit \/ RefuseAtTimeLimit
  BY <1>4, RefuseKeeps
<1>5. CASE SkipRow
  BY <1>5, SkipKeeps
<1>6. CASE ConsumeRow
  BY <1>6, ConsumeKeeps
<1>7. CASE Finish \/ ClockPasses \/ Terminate \/ UNCHANGED vars
  BY <1>7, OthersKeep
<1> QED BY <1>1, <1>2, <1>3, <1>4, <1>5, <1>6, <1>7 DEF Next

\* The inductive invariant of a query and its walk.
LEMMA QueryInvariant == Spec => []IInv
BY QueryInit, QueryNext, PTL DEF Spec

------------------------------------------------------------------------------
(* Sums *)

\* A set of numbers with zero and the successors of its members has all of them.
LEMMA AllNumbers ==
  ASSUME NEW P \in SUBSET Nat, 0 \in P, \A n \in P : n + 1 \in P
  PROVE  P = Nat
<1> DEFINE missing == Nat \ P
<1> SUFFICES ASSUME missing # {} PROVE FALSE
  OBVIOUS
<1>1. PICK x \in missing : \A y \in missing : ~(<<y, x>> \in OpToRel(<, Nat))
  <2>1. IsWellFoundedOn(OpToRel(<, Nat), Nat)
    BY NatLessThanWellFounded
  <2> QED BY <2>1, WFMin
<1>2. x \in Nat /\ x \notin P /\ x # 0
  BY <1>1
<1>3. x - 1 \in Nat /\ x - 1 < x
  BY <1>2
<1>4. x - 1 \in P
  BY <1>1, <1>3 DEF OpToRel
<1>5. x - 1 + 1 = x
  BY <1>2
<1> QED BY <1>2, <1>4, <1>5

Pick(s) == CHOOSE x \in s : TRUE

\* The sum over every subset, taken element after element.
Adds(g, f, S) ==
    \A s \in SUBSET S : g[s] = IF s = {} THEN 0 ELSE f[Pick(s)] + g[s \ {Pick(s)}]

\* Numbers, and all their sums.
AddsNumbers(g, f, S) ==
    /\ IsFiniteSet(S)
    /\ \A x \in S : f[x] \in Int
    /\ g \in [SUBSET S -> Int]
    /\ Adds(g, f, S)

\* In whatever order the elements are taken.
AddsInAnyOrder(g, f, S) ==
    \A s \in SUBSET S : \A x \in s : g[s] = f[x] + g[s \ {x}]

SumOf(f, S) == FoldFunctionOnSet(+, 0, f, S)

\* A subset without its picked element is smaller.
LEMMA Smaller ==
  ASSUME NEW S, IsFiniteSet(S), NEW s \in SUBSET S, NEW x \in s
  PROVE  /\ IsFiniteSet(s) /\ s \ {x} \in SUBSET S
         /\ Cardinality(s) \in Nat /\ Cardinality(s \ {x}) \in Nat
         /\ Cardinality(s \ {x}) + 1 = Cardinality(s) /\ Cardinality(s) > 0
<1>1. IsFiniteSet(s) /\ IsFiniteSet(s \ {x})
  BY FS_Subset
<1>2. Cardinality(s \ {x}) = Cardinality(s) - 1
  BY <1>1, FS_RemoveElement
<1>3. Cardinality(s) \in Nat /\ Cardinality(s \ {x}) \in Nat
  BY <1>1, FS_CardinalityType
<1> QED BY <1>1, <1>2, <1>3

\* Such sums exist over a finite set.
LEMMA SumsExist ==
  ASSUME NEW S, IsFiniteSet(S), NEW f, \A x \in S : f[x] \in Int
  PROVE  \E g \in [SUBSET S -> Int] : Adds(g, f, S)
<1> DEFINE AddsTo(g, n) ==
               \A s \in SUBSET S : Cardinality(s) <= n =>
                   g[s] = IF s = {} THEN 0 ELSE f[Pick(s)] + g[s \ {Pick(s)}]
           P == {n \in Nat : \E g \in [SUBSET S -> Int] : AddsTo(g, n)}
<1>1. 0 \in P
  <2> DEFINE g == [s \in SUBSET S |-> 0]
  <2>1. \A s \in SUBSET S : Cardinality(s) <= 0 => s = {}
    <3> SUFFICES ASSUME NEW s \in SUBSET S, Cardinality(s) <= 0, s # {} PROVE FALSE
      OBVIOUS
    <3>1. PICK x \in s : TRUE
      OBVIOUS
    <3>2. Cardinality(s) > 0 /\ Cardinality(s) \in Nat
      BY <3>1, Smaller
    <3> QED BY <3>2
  <2>2. g \in [SUBSET S -> Int] /\ AddsTo(g, 0)
    BY <2>1
  <2> QED BY <2>2
<1>2. ASSUME NEW n \in P PROVE n + 1 \in P
  <2>1. PICK g \in [SUBSET S -> Int] : AddsTo(g, n)
    OBVIOUS
  <2> DEFINE h == [s \in SUBSET S |->
                      IF Cardinality(s) <= n THEN g[s]
                      ELSE f[Pick(s)] + g[s \ {Pick(s)}]]
  <2>2. ASSUME NEW s \in SUBSET S, s # {}
        PROVE  /\ Pick(s) \in s /\ f[Pick(s)] \in Int
               /\ s \ {Pick(s)} \in SUBSET S /\ g[s \ {Pick(s)}] \in Int
               /\ Cardinality(s) \in Nat /\ Cardinality(s \ {Pick(s)}) \in Nat
               /\ Cardinality(s \ {Pick(s)}) + 1 = Cardinality(s)
    <3>1. Pick(s) \in s
      BY <2>2 DEF Pick
    <3> QED BY <3>1, Smaller
  <2>3. Cardinality({}) = 0
    BY FS_EmptySet
  <2>4. h \in [SUBSET S -> Int]
    <3> SUFFICES ASSUME NEW s \in SUBSET S PROVE h[s] \in Int
      OBVIOUS
    <3>1. CASE s = {}
      BY <2>3, <3>1
    <3>2. CASE s # {}
      BY <2>2, <3>2
    <3> QED BY <3>1, <3>2
  <2>5. AddsTo(h, n + 1)
    <3> SUFFICES ASSUME NEW s \in SUBSET S, Cardinality(s) <= n + 1
                 PROVE  h[s] = IF s = {} THEN 0 ELSE f[Pick(s)] + h[s \ {Pick(s)}]
      OBVIOUS
    <3>1. CASE s = {}
      BY <2>1, <2>3, <3>1
    <3>2. CASE s # {}
      <4>1. Cardinality(s \ {Pick(s)}) <= n
        BY <2>2, <3>2
      <4>2. h[s \ {Pick(s)}] = g[s \ {Pick(s)}]
        BY <2>2, <3>2, <4>1
      <4>3. h[s] = f[Pick(s)] + g[s \ {Pick(s)}]
        BY <2>1, <3>2
      <4> QED BY <3>2, <4>2, <4>3
    <3> QED BY <3>1, <3>2
  <2> HIDE DEF h
  <2>6. n + 1 \in Nat
    OBVIOUS
  <2>7. \E g2 \in [SUBSET S -> Int] : AddsTo(g2, n + 1)
    BY <2>4, <2>5
  <2> QED BY <2>6, <2>7
<1>3. P = Nat
  <2> HIDE DEF P
  <2>1. P \in SUBSET Nat
    BY DEF P
  <2> QED BY <1>1, <1>2, <2>1, AllNumbers
<1>4. Cardinality(S) \in P
  BY <1>3, FS_CardinalityType
<1>5. PICK g \in [SUBSET S -> Int] : AddsTo(g, Cardinality(S))
  BY <1>4
<1>6. \A s \in SUBSET S : Cardinality(s) <= Cardinality(S)
  BY FS_Subset
<1> QED BY <1>5, <1>6 DEF Adds

\* The order in which the elements are taken makes no difference.
LEMMA SumOfOthers ==
  ASSUME NEW S, NEW f, NEW g, AddsNumbers(g, f, S)
  PROVE  AddsInAnyOrder(g, f, S)
<1>0. /\ IsFiniteSet(S) /\ g \in [SUBSET S -> Int] /\ Adds(g, f, S)
      /\ \A x \in S : f[x] \in Int
  BY DEF AddsNumbers
<1> DEFINE Any(n) == \A s \in SUBSET S : \A x \in s :
                         Cardinality(s) <= n => g[s] = f[x] + g[s \ {x}]
           P == {n \in Nat : Any(n)}
<1>1. 0 \in P
  <2>1. ASSUME NEW s \in SUBSET S, NEW x \in s PROVE ~(Cardinality(s) <= 0)
    <3>1. Cardinality(s) > 0 /\ Cardinality(s) \in Nat
      BY <1>0, Smaller
    <3> QED BY <3>1
  <2>2. Any(0)
    BY <2>1
  <2> QED BY <2>2
<1>2. ASSUME NEW n \in P PROVE n + 1 \in P
  <2> SUFFICES ASSUME NEW s \in SUBSET S, NEW x \in s, Cardinality(s) <= n + 1
               PROVE  g[s] = f[x] + g[s \ {x}]
    OBVIOUS
  <2> DEFINE y == Pick(s)
  <2>1. y \in s /\ s # {}
    BY DEF Pick
  <2>2. g[s] = f[y] + g[s \ {y}]
    BY <1>0, <2>1 DEF Adds
  <2> HIDE DEF y
  <2>3. CASE x = y
    BY <2>2, <2>3
  <2>4. CASE x # y
    <3>1. /\ s \ {x} \in SUBSET S /\ s \ {y} \in SUBSET S
          /\ Cardinality(s \ {x}) <= n /\ Cardinality(s \ {y}) <= n
      BY <1>0, <2>1, Smaller
    <3>2. g[s \ {y}] = f[x] + g[(s \ {y}) \ {x}]
      BY <2>1, <2>4, <3>1
    <3>3. g[s \ {x}] = f[y] + g[(s \ {x}) \ {y}]
      BY <2>1, <2>4, <3>1
    <3>4. (s \ {y}) \ {x} = (s \ {x}) \ {y}
      OBVIOUS
    <3>5. /\ f[x] \in Int /\ f[y] \in Int
          /\ (s \ {x}) \ {y} \in SUBSET S /\ g[(s \ {x}) \ {y}] \in Int
      BY <1>0, <2>1
    <3>6. ASSUME NEW a \in Int, NEW b \in Int, NEW c \in Int
          PROVE  b + (a + c) = a + (b + c)
      OBVIOUS
    <3>7. g[s] = f[y] + (f[x] + g[(s \ {x}) \ {y}])
      BY <2>2, <3>2, <3>4
    <3> QED BY <3>3, <3>5, <3>6, <3>7
  <2> QED BY <2>3, <2>4
<1>3. P = Nat
  <2> HIDE DEF P
  <2>1. P \in SUBSET Nat
    BY DEF P
  <2> QED BY <1>1, <1>2, <2>1, AllNumbers
<1>4. ASSUME NEW s \in SUBSET S, NEW x \in s PROVE g[s] = f[x] + g[s \ {x}]
  <2>1. Cardinality(s) \in Nat
    BY <1>0, Smaller
  <2>2. Any(Cardinality(s))
    BY <1>3, <2>1
  <2> QED BY <2>1, <2>2
<1> QED BY <1>4 DEF AddsInAnyOrder

\* Only the values of the function on the set matter.
LEMMA SumsAgree ==
  ASSUME NEW S, IsFiniteSet(S), NEW f, NEW g, Adds(g, f, S),
         NEW T, IsFiniteSet(T), NEW f2, NEW g2, Adds(g2, f2, T),
         NEW U, U \subseteq S, U \subseteq T, \A x \in U : f[x] = f2[x]
  PROVE  g[U] = g2[U]
<1> DEFINE P == {n \in Nat : \A s \in SUBSET U : Cardinality(s) <= n => g[s] = g2[s]}
<1>1. \A s \in SUBSET U : s = {} => g[s] = g2[s]
  BY DEF Adds
<1>2. IsFiniteSet(U)
  BY FS_Subset
<1>3. 0 \in P
  <2> SUFFICES ASSUME NEW s \in SUBSET U, Cardinality(s) <= 0, s # {} PROVE FALSE
    BY <1>1
  <2>1. PICK x \in s : TRUE
    OBVIOUS
  <2>2. Cardinality(s) > 0 /\ Cardinality(s) \in Nat
    BY <1>2, <2>1, Smaller
  <2> QED BY <2>2
<1>4. ASSUME NEW n \in P PROVE n + 1 \in P
  <2> SUFFICES ASSUME NEW s \in SUBSET U, Cardinality(s) <= n + 1, s # {}
               PROVE  g[s] = g2[s]
    BY <1>1
  <2>1. Pick(s) \in s
    BY DEF Pick
  <2>2. s \ {Pick(s)} \in SUBSET U /\ Cardinality(s \ {Pick(s)}) <= n
    BY <1>2, <2>1, Smaller
  <2>3. g[s \ {Pick(s)}] = g2[s \ {Pick(s)}]
    BY <2>2
  <2>4. s \in SUBSET S /\ s \in SUBSET T
    OBVIOUS
  <2>5. /\ g[s] = f[Pick(s)] + g[s \ {Pick(s)}]
        /\ g2[s] = f2[Pick(s)] + g2[s \ {Pick(s)}]
    BY <2>4 DEF Adds
  <2> QED BY <2>1, <2>3, <2>5
<1>5. P = Nat
  <2> HIDE DEF P
  <2>1. P \in SUBSET Nat
    BY DEF P
  <2> QED BY <1>3, <1>4, <2>1, AllNumbers
<1>6. Cardinality(U) \in P
  BY <1>2, <1>5, FS_CardinalityType
<1> QED BY <1>2, <1>6, FS_CardinalityType

\* What FoldFunctionOnSet sums up.
LEMMA SumIsTaken ==
  ASSUME NEW S, IsFiniteSet(S), NEW f, \A x \in S : f[x] \in Int
  PROVE  \E g \in [SUBSET S -> Int] : Adds(g, f, S) /\ SumOf(f, S) = g[S]
<1> DEFINE Step(g) == [s \in SUBSET S |-> IF s = {} THEN 0
                                          ELSE f[Pick(s)] + g[s \ {Pick(s)}]]
           iter == CHOOSE g : g = Step(g)
<1>1. PICK g \in [SUBSET S -> Int] : Adds(g, f, S)
  BY SumsExist
<1>2. g = Step(g)
  BY <1>1 DEF Adds
<1>3. iter = Step(iter)
  BY <1>2
<1>4. SumOf(f, S) = iter[S]
  BY DEF SumOf, FoldFunctionOnSet, MapThenFoldSet, Pick
<1> HIDE DEF iter
<1>5. Adds(iter, f, S)
  BY <1>3 DEF Adds
<1>6. iter[S] = g[S]
  BY <1>1, <1>5, SumsAgree
<1> QED BY <1>1, <1>4, <1>6

\* The sum over nothing, and over one element more.
LEMMA SumOfNothing == ASSUME NEW f PROVE SumOf(f, {}) = 0
<1>1. IsFiniteSet({})
  BY FS_EmptySet
<1>2. PICK g \in [SUBSET {} -> Int] : Adds(g, f, {}) /\ SumOf(f, {}) = g[{}]
  BY <1>1, SumIsTaken
<1> QED BY <1>2 DEF Adds

SumGrows(f, f2, S, x) == SumOf(f2, S \cup {x}) = SumOf(f, S) + f2[x]

\* A sum over one element more has grown by its value.
LEMMA SumOfOneMore ==
  ASSUME NEW S, IsFiniteSet(S), NEW x, x \notin S, NEW f, NEW f2,
         \A y \in S : f2[y] = f[y], \A y \in S \cup {x} : f2[y] \in Int
  PROVE  SumGrows(f, f2, S, x)
<1>1. IsFiniteSet(S \cup {x})
  BY FS_AddElement
<1>2. PICK g2 \in [SUBSET (S \cup {x}) -> Int] :
          Adds(g2, f2, S \cup {x}) /\ SumOf(f2, S \cup {x}) = g2[S \cup {x}]
  BY <1>1, SumIsTaken
<1>3. PICK g \in [SUBSET S -> Int] : Adds(g, f, S) /\ SumOf(f, S) = g[S]
  BY SumIsTaken
<1>4. (S \cup {x}) \ {x} = S
  OBVIOUS
<1>5. g2[S \cup {x}] = f2[x] + g2[S]
  <2>1. PICK T : T = S \cup {x}
    OBVIOUS
  <2>2. T \in SUBSET T /\ x \in T /\ T \ {x} = S
    BY <1>4, <2>1
  <2>3. AddsNumbers(g2, f2, T)
    BY <1>1, <1>2, <2>1 DEF AddsNumbers
  <2>4. AddsInAnyOrder(g2, f2, T)
    BY <2>3, SumOfOthers
  <2>5. g2[T] = f2[x] + g2[S]
    BY <2>2, <2>4 DEF AddsInAnyOrder
  <2> QED BY <2>1, <2>5
<1>6. g2[S] = g[S]
  BY <1>1, <1>2, <1>3, SumsAgree
<1>7. g[S] \in Int /\ f2[x] \in Int
  BY <1>3
<1> QED BY <1>2, <1>3, <1>5, <1>6, <1>7 DEF SumGrows
------------------------------------------------------------------------------
(* Statistics *)

\* The values of a row in the columns, and the rows with these values.
FragmentOf(t, cols, row) == [i \in DOMAIN cols |-> Field[t][cols[i]][row]]
IndicesOf(t, cols, rows, fragment) ==
    {k \in DOMAIN rows : FragmentOf(t, cols, rows[k]) = fragment}

Fragments(t, cols, rows) ==
    {FragmentOf(t, cols, rows[k]) : k \in DOMAIN rows}
    \cup (IF cols = <<>> THEN {<<>>} ELSE {})

AcceptedIn(rows, column, K) == {k \in K : rows[k] \in column.accepts}
ValuesIn(t, rows, column, K) == [k \in K |-> Field[t][column.column][rows[k]]]

\* x is one of the values, and none is beyond it.
IsExtreme(op, x, K, values) ==
    /\ \E k \in K : x = values[k]
    /\ \A k \in K : IF op = "min" THEN x <= values[k] ELSE x >= values[k]

\* The aggregator says what it should of the rows with indices in K, and can go on.
Tells(t, rows, column, K, aggr) ==
    /\ column.column \notin NumericColumns =>
           aggr.value = Cardinality(AcceptedIn(rows, column, K))
    /\ column.column \in NumericColumns =>
           /\ aggr.n = Cardinality(K)
           /\ column.op \in {"sum", "avg"} =>
                  aggr.value = SumOf(ValuesIn(t, rows, column, K), K)
           /\ column.op \in {"min", "max"} =>
                  IF K = {} THEN aggr.value = 0
                  ELSE IsExtreme(column.op, aggr.value, K,
                                 ValuesIn(t, rows, column, K))

StatsTold(t, cols, stats, rows, gs) ==
    /\ DOMAIN gs = Fragments(t, cols, rows)
    /\ \A fragment \in DOMAIN gs : \A i \in DOMAIN stats :
           Tells(t, rows, stats[i], IndicesOf(t, cols, rows, fragment),
                 gs[fragment][i])

\* At every step of the walk the groups say what they should of the rows so far.
StatsInv ==
    pc # "headers" /\ DoStats =>
        StatsTold(table, columns, statsColumns, consumed, groups)

\* A new aggregator tells of no rows.
LEMMA TellsOfNothing ==
  ASSUME NEW t, NEW rows, NEW column \in StatsColumnsOf(t)
  PROVE  Tells(t, rows, column, {}, NewAggregator)
<1>1. Cardinality({}) = 0 /\ AcceptedIn(rows, column, {}) = {}
  BY FS_EmptySet DEF AcceptedIn
<1>2. SumOf(ValuesIn(t, rows, column, {}), {}) = 0
  BY SumOfNothing
<1> QED BY <1>1, <1>2 DEF Tells, NewAggregator

\* What an aggregator tells of some rows does not depend on the others.
LEMMA TellsStays ==
  ASSUME NEW t, NEW rows, NEW next, NEW column, NEW K, NEW aggr,
         \A k \in K : next[k] = rows[k], Tells(t, rows, column, K, aggr)
  PROVE  Tells(t, next, column, K, aggr)
<1>1. AcceptedIn(next, column, K) = AcceptedIn(rows, column, K)
  BY DEF AcceptedIn
<1>2. ValuesIn(t, next, column, K) = ValuesIn(t, rows, column, K)
  BY DEF ValuesIn
<1> QED BY <1>1, <1>2 DEF Tells

\* A row more that an aggregator counts.
LEMMA TellsWhenCounted ==
  ASSUME NEW t, NEW rows, NEW next, NEW column \in StatsColumnsOf(t),
         NEW K, IsFiniteSet(K), NEW m, m \notin K, \A k \in K : next[k] = rows[k],
         NEW aggr \in Aggregators, Tells(t, rows, column, K, aggr),
         t = table, column.column \notin NumericColumns
  PROVE  Tells(t, next, column, K \cup {m}, Consume(aggr, column, next[m]))
<1>1. aggr.value = Cardinality(AcceptedIn(rows, column, K)) /\ aggr.value \in Int
  BY DEF Tells, Aggregators
<1>2. IsFiniteSet(AcceptedIn(rows, column, K)) /\ m \notin AcceptedIn(rows, column, K)
  <2>1. AcceptedIn(rows, column, K) \subseteq K
    BY DEF AcceptedIn
  <2> QED BY <2>1, FS_Subset
<1>3. CASE next[m] \in column.accepts
  <2>1. AcceptedIn(next, column, K \cup {m}) = AcceptedIn(rows, column, K) \cup {m}
    BY <1>3 DEF AcceptedIn
  <2>2. Cardinality(AcceptedIn(rows, column, K) \cup {m}) =
            Cardinality(AcceptedIn(rows, column, K)) + 1
    BY <1>2, FS_AddElement
  <2>3. Consume(aggr, column, next[m]).value = aggr.value + 1
    BY <1>3 DEF Consume, Aggregate
  <2> QED BY <1>1, <2>1, <2>2, <2>3 DEF Tells
<1>4. CASE next[m] \notin column.accepts
  <2>1. AcceptedIn(next, column, K \cup {m}) = AcceptedIn(rows, column, K)
    BY <1>4 DEF AcceptedIn
  <2>2. Consume(aggr, column, next[m]) = aggr
    BY <1>4 DEF Consume
  <2> QED BY <1>1, <2>1, <2>2 DEF Tells
<1> QED BY <1>3, <1>4

\* A value more that an aggregator sums up or compares.
LEMMA TellsWhenFed ==
  ASSUME NEW t, NEW rows, NEW next, NEW column \in StatsColumnsOf(t),
         NEW K, IsFiniteSet(K), NEW m, m \notin K, \A k \in K : next[k] = rows[k],
         NEW aggr \in Aggregators, Tells(t, rows, column, K, aggr),
         t = table, column.column \in NumericColumns,
         \A k \in K \cup {m} : Field[t][column.column][next[k]] \in Int
  PROVE  Tells(t, next, column, K \cup {m}, Consume(aggr, column, next[m]))
<1>1. PICK old : old = ValuesIn(t, rows, column, K)
  OBVIOUS
<1>2. PICK new : new = ValuesIn(t, next, column, K \cup {m})
  OBVIOUS
<1>3. PICK x : x = Field[t][column.column][next[m]]
  OBVIOUS
<1>4. /\ x \in Int /\ new[m] = x
      /\ \A k \in K : new[k] = old[k] /\ old[k] \in Int
      /\ \A k \in K \cup {m} : new[k] \in Int
  <2>1. /\ \A k \in K : old[k] = Field[t][column.column][rows[k]]
        /\ \A k \in K \cup {m} : new[k] = Field[t][column.column][next[k]]
    BY <1>1, <1>2 DEF ValuesIn
  <2>2. \A k \in K : Field[t][column.column][next[k]] = Field[t][column.column][rows[k]]
    OBVIOUS
  <2> QED BY <1>3, <2>1, <2>2
<1>5. PICK fed : fed = Consume(aggr, column, next[m])
  OBVIOUS
<1>6. /\ aggr.n = Cardinality(K) /\ aggr.n \in Nat /\ aggr.value \in Int
      /\ column.op \in {"sum", "avg"} => aggr.value = SumOf(old, K)
      /\ column.op \in {"min", "max"} =>
             IF K = {} THEN aggr.value = 0 ELSE IsExtreme(column.op, aggr.value, K, old)
  BY <1>1 DEF Tells, Aggregators
<1>7. fed = Aggregate(aggr, column.op, x)
  BY <1>3, <1>5 DEF Consume
<1>8. fed.n = Cardinality(K \cup {m})
  <2>1. Cardinality(K \cup {m}) = Cardinality(K) + 1
    BY FS_AddElement
  <2>2. fed.n = aggr.n + 1
    BY <1>7 DEF Aggregate
  <2> QED BY <1>6, <2>1, <2>2
<1>9. column.op \in {"sum", "avg"} => fed.value = SumOf(new, K \cup {m})
  <2> SUFFICES ASSUME column.op \in {"sum", "avg"} PROVE fed.value = SumOf(new, K \cup {m})
    OBVIOUS
  <2>1. SumGrows(old, new, K, m)
    BY <1>4, SumOfOneMore
  <2>2. fed.value = aggr.value + x
    BY <1>7 DEF Aggregate
  <2> QED BY <1>4, <1>6, <2>1, <2>2 DEF SumGrows
<1>10. column.op \in {"min", "max"} => IsExtreme(column.op, fed.value, K \cup {m}, new)
  <2> SUFFICES ASSUME column.op \in {"min", "max"}
               PROVE  IsExtreme(column.op, fed.value, K \cup {m}, new)
    OBVIOUS
  <2>1. K = {} <=> aggr.n = 0
    BY <1>6, FS_EmptySet
  <2>2. CASE K = {}
    <3>1. fed.value = x
      BY <1>7, <2>1, <2>2 DEF Aggregate
    <3> QED BY <1>4, <2>2, <3>1 DEF IsExtreme
  <2>3. CASE K # {} /\ column.op = "min"
    <3>1. fed.value = IF x < aggr.value THEN x ELSE aggr.value
      BY <1>7, <2>1, <2>3 DEF Aggregate
    <3>2. /\ \E k \in K : aggr.value = old[k]
          /\ \A k \in K : aggr.value <= old[k]
      BY <1>6, <2>3 DEF IsExtreme
    <3>3. \E k \in K \cup {m} : fed.value = new[k]
      BY <1>4, <3>1, <3>2
    <3>4. \A k \in K \cup {m} : fed.value <= new[k]
      BY <1>4, <1>6, <3>1, <3>2
    <3> QED BY <2>3, <3>3, <3>4 DEF IsExtreme
  <2>4. CASE K # {} /\ column.op = "max"
    <3>1. fed.value = IF x > aggr.value THEN x ELSE aggr.value
      BY <1>7, <2>1, <2>4 DEF Aggregate
    <3>2. /\ \E k \in K : aggr.value = old[k]
          /\ \A k \in K : aggr.value >= old[k]
      BY <1>6, <2>4 DEF IsExtreme
    <3>3. \E k \in K \cup {m} : fed.value = new[k]
      BY <1>4, <3>1, <3>2
    <3>4. \A k \in K \cup {m} : fed.value >= new[k]
      BY <1>4, <1>6, <3>1, <3>2
    <3> QED BY <2>4, <3>3, <3>4 DEF IsExtreme
  <2> QED BY <2>2, <2>3, <2>4
<1>11. K \cup {m} # {}
  OBVIOUS
<1>12. Tells(t, next, column, K \cup {m}, fed)
  BY <1>2, <1>8, <1>9, <1>10, <1>11 DEF Tells
<1> QED BY <1>5, <1>12

\* One row more, of the query's table.
LEMMA TellsMore ==
  ASSUME table \in Tables, NEW rows, NEW next, NEW column \in StatsColumnsOf(table),
         NEW K, IsFiniteSet(K), NEW m, m \notin K, \A k \in K : next[k] = rows[k],
         NEW aggr \in Aggregators, Tells(table, rows, column, K, aggr),
         \A k \in K \cup {m} : next[k] \in TableRows(table)
  PROVE  Tells(table, next, column, K \cup {m}, Consume(aggr, column, next[m]))
<1>1. CASE column.column \notin NumericColumns
  BY <1>1, TellsWhenCounted
<1>2. CASE column.column \in NumericColumns
  <2>1. Field[table][column.column] \in [TableRows(table) -> Int]
    BY <1>2, BoundAssumption
  <2>2. \A k \in K \cup {m} : Field[table][column.column][next[k]] \in Int
    BY <2>1
  <2> QED BY <1>2, <2>2, TellsWhenFed
<1> QED BY <1>1, <1>2

\* The group of a consumed row is told of it, and the others are told nothing.
LEMMA ConsumeTold ==
  ASSUME IInv, StatsInv, ConsumeRow, DoStats
  PROVE  StatsTold(table, columns, statsColumns, consumed', groups')
<1>1. /\ pc = "table" /\ table \in Tables
      /\ consumed \in Seq(TableRows(table)) /\ statsColumns \in Seq(StatsColumnsOf(table))
      /\ groups \in [DOMAIN groups -> [DOMAIN statsColumns -> Aggregators]]
  BY DEF IInv, TypeOK, ConsumeRow, CountRow, AtRow
<1>2. PICK row \in TableRows(table) : row = Row
  <2>1. AtRow /\ Selected
    BY DEF ConsumeRow, CountRow
  <2> QED BY <2>1, HeadIsRow
<1>3. PICK next : next = consumed'
  OBVIOUS
<1>4. PICK m : m = Len(consumed) + 1
  OBVIOUS
<1>5. /\ next = Append(consumed, row) /\ Len(consumed) \in Nat /\ m \in Nat
      /\ DOMAIN consumed = 1 .. Len(consumed) /\ m \notin DOMAIN consumed
  BY <1>1, <1>2, <1>3, <1>4 DEF ConsumeRow
<1>6. /\ DOMAIN next = DOMAIN consumed \cup {m}
      /\ next[m] = row
      /\ \A k \in DOMAIN consumed : next[k] = consumed[k]
      /\ \A k \in DOMAIN next : next[k] \in TableRows(table)
  <2>1. next \in Seq(TableRows(table)) /\ Len(next) = m
    BY <1>1, <1>4, <1>5
  <2>2. DOMAIN next = 1 .. m /\ 1 .. m = (1 .. Len(consumed)) \cup {m}
    BY <1>4, <1>5, <2>1
  <2>3. next[m] = row /\ \A k \in 1 .. Len(consumed) : next[k] = consumed[k]
    BY <1>1, <1>4, <1>5
  <2>4. \A k \in DOMAIN next : next[k] \in TableRows(table)
    BY <2>1
  <2> QED BY <1>5, <2>2, <2>3, <2>4
<1>7. PICK mine : mine = FragmentOf(table, columns, row)
  OBVIOUS
<1>8. PICK aggrs : aggrs = AggregatorsFor(mine)
  OBVIOUS
<1>9. PICK gs : gs = groups'
  OBVIOUS
<1>10. /\ DOMAIN gs = DOMAIN groups \cup {mine}
       /\ \A i \in DOMAIN statsColumns :
              gs[mine][i] = Consume(aggrs[i], statsColumns[i], row)
       /\ \A x \in DOMAIN groups : x # mine => gs[x] = groups[x]
  <2>1. Fragment(Row) = mine
    BY <1>2, <1>7 DEF Fragment, FragmentOf
  <2>2. gs = [x \in DOMAIN groups \cup {mine} |->
                 IF x = mine
                 THEN [i \in DOMAIN statsColumns |-> Consume(aggrs[i], statsColumns[i], row)]
                 ELSE groups[x]]
    BY <1>2, <1>8, <1>9, <2>1 DEF ConsumeRow
  <2> QED BY <2>2
<1>11. StatsTold(table, columns, statsColumns, consumed, groups)
  BY <1>1 DEF StatsInv
<1>12. Fragments(table, columns, next) = Fragments(table, columns, consumed) \cup {mine}
  <2>1. {FragmentOf(table, columns, next[k]) : k \in DOMAIN next} =
            {FragmentOf(table, columns, consumed[k]) : k \in DOMAIN consumed} \cup {mine}
    BY <1>6, <1>7
  <2> QED BY <2>1 DEF Fragments
<1>13. /\ IndicesOf(table, columns, next, mine) =
              IndicesOf(table, columns, consumed, mine) \cup {m}
       /\ \A x : x # mine => IndicesOf(table, columns, next, x) =
                                 IndicesOf(table, columns, consumed, x)
       /\ \A x : IndicesOf(table, columns, consumed, x) \subseteq DOMAIN consumed
  BY <1>6, <1>7 DEF IndicesOf
<1>14. ASSUME NEW i \in DOMAIN statsColumns
       PROVE  /\ aggrs[i] \in Aggregators
              /\ Tells(table, consumed, statsColumns[i],
                       IndicesOf(table, columns, consumed, mine), aggrs[i])
  <2>1. CASE mine \in DOMAIN groups
    BY <1>1, <1>8, <1>11, <2>1 DEF StatsTold, AggregatorsFor
  <2>2. CASE mine \notin DOMAIN groups
    <3>1. aggrs[i] = NewAggregator
      BY <1>8, <2>2 DEF AggregatorsFor
    <3>2. IndicesOf(table, columns, consumed, mine) = {}
      BY <1>11, <2>2 DEF StatsTold, Fragments, IndicesOf
    <3>3. statsColumns[i] \in StatsColumnsOf(table)
      BY <1>1
    <3> QED BY <3>1, <3>2, <3>3, TellsOfNothing DEF NewAggregator, Aggregators
  <2> QED BY <2>1, <2>2
<1>15. ASSUME NEW i \in DOMAIN statsColumns
       PROVE  Tells(table, next, statsColumns[i], IndicesOf(table, columns, next, mine),
                    gs[mine][i])
  <2>1. PICK K : K = IndicesOf(table, columns, consumed, mine)
    OBVIOUS
  <2>2. /\ IsFiniteSet(K) /\ m \notin K /\ \A k \in K : next[k] = consumed[k]
        /\ \A k \in K \cup {m} : next[k] \in TableRows(table)
    <3>1. IsFiniteSet(DOMAIN consumed) /\ K \subseteq DOMAIN consumed
      BY <1>5, <1>13, <2>1, FS_Interval
    <3> QED BY <1>5, <1>6, <3>1, FS_Subset
  <2>3. statsColumns[i] \in StatsColumnsOf(table)
    BY <1>1
  <2>4. Tells(table, next, statsColumns[i], K \cup {m},
              Consume(aggrs[i], statsColumns[i], next[m]))
    BY <1>1, <1>14, <2>1, <2>2, <2>3, TellsMore
  <2> QED BY <1>6, <1>10, <1>13, <2>1, <2>4
<1>16. ASSUME NEW x \in DOMAIN groups, x # mine, NEW i \in DOMAIN statsColumns
       PROVE  Tells(table, next, statsColumns[i], IndicesOf(table, columns, next, x),
                    gs[x][i])
  <2>1. Tells(table, consumed, statsColumns[i], IndicesOf(table, columns, consumed, x),
              groups[x][i])
    BY <1>11 DEF StatsTold
  <2>2. \A k \in IndicesOf(table, columns, consumed, x) : next[k] = consumed[k]
    BY <1>6, <1>13
  <2> QED BY <1>10, <1>13, <1>16, <2>1, <2>2, TellsStays
<1>17. DOMAIN gs = Fragments(table, columns, next)
  BY <1>10, <1>11, <1>12 DEF StatsTold
<1>18. StatsTold(table, columns, statsColumns, next, gs)
  BY <1>10, <1>15, <1>16, <1>17 DEF StatsTold
<1> QED BY <1>3, <1>9, <1>18

\* What the groups say at the start: nothing, of no rows.
LEMMA StartTold ==
  ASSUME IInv, NEW f, StartQuery(f), DoStats
  PROVE  StatsTold(table, columns, statsColumns, <<>>, groups')
<1>1. /\ groups = <<>> /\ statsColumns \in Seq(StatsColumnsOf(table))
  BY DEF IInv, PhaseInv, TypeOK, StartQuery
<1>2. PICK none : none = <<>>
  OBVIOUS
<1>3. PICK gs : gs = groups'
  OBVIOUS
<1>4. \A x : IndicesOf(table, columns, none, x) = {}
  BY <1>2 DEF IndicesOf
<1>5. Fragments(table, columns, none) = IF columns = <<>> THEN {<<>>} ELSE {}
  BY <1>2 DEF Fragments
<1>6. gs = IF columns = <<>> THEN [fragment \in {<<>>} |-> AggregatorsFor(fragment)]
           ELSE <<>>
  BY <1>3 DEF StartQuery
<1>7. \A i \in DOMAIN statsColumns : AggregatorsFor(<<>>)[i] = NewAggregator
  BY <1>1 DEF AggregatorsFor
<1>8. /\ DOMAIN gs = Fragments(table, columns, none)
      /\ \A x \in DOMAIN gs : \A i \in DOMAIN statsColumns : gs[x][i] = NewAggregator
  <2>1. CASE columns = <<>>
    BY <1>5, <1>6, <1>7, <2>1
  <2>2. CASE columns # <<>>
    BY <1>5, <1>6, <2>2
  <2> QED BY <2>1, <2>2
<1>9. ASSUME NEW x \in DOMAIN gs, NEW i \in DOMAIN statsColumns
      PROVE  Tells(table, none, statsColumns[i], IndicesOf(table, columns, none, x), gs[x][i])
  <2>1. statsColumns[i] \in StatsColumnsOf(table)
    BY <1>1
  <2> QED BY <1>4, <1>8, <2>1, TellsOfNothing
<1>10. StatsTold(table, columns, statsColumns, none, gs)
  BY <1>8, <1>9 DEF StatsTold
<1> QED BY <1>2, <1>3, <1>10

\* No other step touches the groups once the query has started.
LEMMA StatsNext == IInv /\ StatsInv /\ [Next]_vars => StatsInv'
<1> SUFFICES ASSUME IInv, StatsInv, [Next]_vars PROVE StatsInv'
  OBVIOUS
<1>1. CASE \/ \E n \in 0 .. MaxLimit : LimitLine(n)
           \/ TimelimitLine
           \/ \E u \in Users \cup {UnknownUser} : AuthUserLine(u)
           \/ \E col \in AnyColumns : ColumnsLine(col)
           \/ \E column \in StatsColumns[table] : StatsLine(column)
           \/ \E n \in 0 .. MaxHeaders : StatsAndLine(n) \/ StatsOrLine(n)
           \/ StatsNegateLine
  <2>1. pc' = "headers"
    BY <1>1 DEF LimitLine, TimelimitLine, AuthUserLine, ColumnsLine, StatsLine,
                StatsAndLine, StatsOrLine, CombineStats, StatsNegateLine, Header
  <2> QED BY <2>1 DEF StatsInv
<1>2. CASE \E f \in Filters[table] : StartQuery(f)
  <2>1. PICK f \in Filters[table] : StartQuery(f)
    BY <1>2
  <2>2. consumed' = <<>> /\ UNCHANGED <<table, columns, statsColumns>>
    BY <2>1 DEF StartQuery, IInv, PhaseInv
  <2> QED BY <2>1, <2>2, StartTold DEF StatsInv, DoStats
<1>3. CASE ConsumeRow
  <2>1. UNCHANGED <<table, columns, statsColumns>>
    BY <1>3 DEF ConsumeRow, CountRow, AtRow, headerVars
  <2> QED BY <1>3, <2>1, ConsumeTold DEF StatsInv, DoStats
<1>4. CASE \/ Enter \/ RefuseWhenTerminating \/ RefuseWhenTooLarge \/ SkipRow
           \/ RefuseAtLimit \/ RefuseAtTimeLimit \/ Finish
           \/ ClockPasses \/ Terminate \/ UNCHANGED vars
  <2>1. UNCHANGED <<table, columns, statsColumns, consumed, groups>>
    BY <1>4 DEF Enter, RefuseWhenTerminating, RefuseWhenTooLarge, SkipRow,
                RefuseAtLimit, RefuseAtTimeLimit, Finish, ClockPasses, Terminate,
                CountRow, AtRow, Stop, vars, headerVars, walkVars
  <2>2. pc = "table" \/ pc' = pc
    BY <1>4 DEF Enter, RefuseWhenTerminating, RefuseWhenTooLarge, SkipRow,
                RefuseAtLimit, RefuseAtTimeLimit, Finish, ClockPasses, Terminate,
                CountRow, AtRow, vars, walkVars
  <2> QED BY <2>1, <2>2 DEF StatsInv, DoStats
<1> QED BY <1>1, <1>2, <1>3, <1>4 DEF Next

\* The inductive invariant of the aggregators.
LEMMA StatsInvariant == Spec => []StatsInv
<1>1. Init => StatsInv
  BY DEF Init, StatsInv
<1> QED BY <1>1, StatsNext, QueryInvariant, PTL DEF Spec

------------------------------------------------------------------------------
(* What a query answers *)

\* The state of a query is always of its type: the walk holds rows of its table and
\* what contains them, and nothing else.
THEOREM TypeCorrect == Spec => []TypeOK
<1>1. IInv => TypeOK
  BY DEF IInv
<1> QED BY <1>1, QueryInvariant, PTL

\* Whatever lists Nagios has, and whatever index the table is walked through: no
\* row is answered twice, none that the filter refuses and none that the user may
\* not see.
THEOREM RowsAreWanted == Spec => []OnlyWantedRowsOnce
<1>1. IInv => OnlyWantedRowsOnce
  BY DEF IInv
<1> QED BY <1>1, QueryInvariant, PTL

\* A row is missing only if the answer says so: by an error, by having as many rows
\* as Limit allows, or by exceeding the maximum response size.
THEOREM NothingElseIsMissing == Spec => []MissingRowsExplained
<1>1. IInv => MissingRowsExplained
  <2> SUFFICES ASSUME IInv, pc = "done", ~Excused
               PROVE  Wanted \subseteq Range(consumed)
    BY DEF MissingRowsExplained, Excused
  <2>1. todo = <<>>
    BY DEF IInv, PhaseInv
  <2>2. \A row : ~Covers(todo, row)
    BY <2>1 DEF Covers
  <2> QED BY <2>2 DEF IInv, CoverInv
<1> QED BY <1>1, QueryInvariant, PTL

\* What an aggregator tells is what is expected of it.
LEMMA ToldIsExpected ==
  ASSUME NEW column \in StatsColumnsOf(table), NEW K, NEW aggr \in Aggregators,
         Tells(table, consumed, column, K, aggr),
         column.column \in NumericColumns =>
             \A k \in K : Field[table][column.column][consumed[k]] \in Int
  PROVE  aggr.value = Expected(column, K)
<1> DEFINE values == {Field[table][column.column][consumed[k]] : k \in K}
           valueOf == ValuesIn(table, consumed, column, K)
<1>1. CASE column.column \notin NumericColumns
  <2>1. aggr.value = Cardinality(AcceptedIn(consumed, column, K))
    BY <1>1 DEF Tells
  <2>2. AcceptedIn(consumed, column, K) = {k \in K : consumed[k] \in column.accepts}
    BY DEF AcceptedIn
  <2>3. Expected(column, K) = Cardinality({k \in K : consumed[k] \in column.accepts})
    BY <1>1, Zenon DEF Expected
  <2> QED BY <2>1, <2>2, <2>3
<1>2. CASE column.column \in NumericColumns /\ column.op \in {"sum", "avg"}
  <2>1. aggr.value = SumOf(valueOf, K)
    BY <1>2 DEF Tells
  <2>2. SumOf(valueOf, K) =
            FoldFunctionOnSet(+, 0,
                [k \in K |-> Field[table][column.column][consumed[k]]], K)
    BY Zenon DEF SumOf, ValuesIn
  <2>3. FoldFunctionOnSet(+, 0,
            [k \in K |-> Field[table][column.column][consumed[k]]], K) =
            Expected(column, K)
    BY <1>2 DEF Expected
  <2> QED BY <2>1, <2>2, <2>3, Zenon
<1>3. CASE /\ column.column \in NumericColumns /\ column.op \in {"min", "max"}
           /\ K = {}
  BY <1>3 DEF Tells, Expected
<1>4. CASE /\ column.column \in NumericColumns /\ column.op \in {"min", "max"}
           /\ K # {}
  <2>1. /\ \A k \in K : valueOf[k] \in values
        /\ \A y \in values : y \in Int /\ \E k \in K : y = valueOf[k]
    BY <1>4 DEF ValuesIn
  <2>2. IsExtreme(column.op, aggr.value, K, valueOf)
    BY <1>4 DEF Tells
  <2> HIDE DEF values, valueOf
  <2>3. aggr.value \in values
    BY <2>1, <2>2 DEF IsExtreme
  <2>4. CASE column.op = "min"
    <3>1. \A y \in values : aggr.value <= y
      BY <2>1, <2>2, <2>4 DEF IsExtreme
    <3>2. \A x \in values : (\A y \in values : x <= y) => x = aggr.value
      BY <2>1, <2>3, <3>1
    <3>3. (CHOOSE x \in values : \A y \in values : x <= y) = aggr.value
      BY <2>3, <3>1, <3>2
    <3> QED BY <1>4, <2>4, <3>3 DEF Expected, values
  <2>5. CASE column.op = "max"
    <3>1. \A y \in values : aggr.value >= y
      BY <2>1, <2>2, <2>5 DEF IsExtreme
    <3>2. \A x \in values : (\A y \in values : x >= y) => x = aggr.value
      BY <2>1, <2>3, <3>1
    <3>3. (CHOOSE x \in values : \A y \in values : x >= y) = aggr.value
      BY <2>3, <3>1, <3>2
    <3> QED BY <1>4, <2>5, <3>3 DEF Expected, values
  <2> QED BY <1>4, <2>4, <2>5
<1>5. column.column \in NumericColumns => column.op \in {"sum", "avg", "min", "max"}
  BY BoundAssumption DEF StatsColumnsOf, Counting, Aggregating
<1> QED BY <1>1, <1>2, <1>3, <1>4, <1>5

\* Whatever Stats headers were combined and whatever order the table is walked in,
\* and wherever the walk is stopped, each group exists because of a row and its
\* counts, sums, minima, maxima and averages are those of its rows (Query::process,
\* src/StatsColumn.cc, src/IntAggregator.cc).
THEOREM StatisticsAreExact == Spec => []StatsExact
<1>1. IInv /\ StatsInv => StatsExact
  <2> SUFFICES ASSUME IInv, StatsInv, pc = "done", DoStats
               PROVE  /\ DOMAIN groups = {Fragment(row) : row \in Range(consumed)}
                             \cup (IF columns = <<>> THEN {<<>>} ELSE {})
                      /\ \A fragment \in DOMAIN groups, i \in DOMAIN statsColumns :
                            LET K == {k \in DOMAIN consumed :
                                         Fragment(consumed[k]) = fragment}
                                aggr == groups[fragment][i]
                            IN  /\ aggr.value = Expected(statsColumns[i], K)
                                /\ statsColumns[i].op = "avg"
                                   /\ statsColumns[i].column \in NumericColumns
                                       => aggr.n = Cardinality(K)
    BY DEF StatsExact
  <2>1. StatsTold(table, columns, statsColumns, consumed, groups)
    BY DEF StatsInv
  <2>2. \A row : Fragment(row) = FragmentOf(table, columns, row)
    BY DEF Fragment, FragmentOf
  <2>3. /\ table \in Tables /\ consumed \in Seq(TableRows(table))
        /\ statsColumns \in Seq(StatsColumnsOf(table))
        /\ groups \in [DOMAIN groups -> [DOMAIN statsColumns -> Aggregators]]
    BY DEF IInv, TypeOK
  <2>4. DOMAIN groups = {Fragment(row) : row \in Range(consumed)}
                            \cup (IF columns = <<>> THEN {<<>>} ELSE {})
    <3>1. {Fragment(row) : row \in Range(consumed)} =
              {FragmentOf(table, columns, consumed[k]) : k \in DOMAIN consumed}
      BY <2>2 DEF Range
    <3> QED BY <2>1, <3>1 DEF StatsTold, Fragments
  <2>5. ASSUME NEW fragment \in DOMAIN groups, NEW i \in DOMAIN statsColumns,
               NEW K, K = {k \in DOMAIN consumed : Fragment(consumed[k]) = fragment}
        PROVE  /\ groups[fragment][i].value = Expected(statsColumns[i], K)
               /\ statsColumns[i].op = "avg"
                  /\ statsColumns[i].column \in NumericColumns
                      => groups[fragment][i].n = Cardinality(K)
    <3>1. K = IndicesOf(table, columns, consumed, fragment)
      BY <2>2, <2>5 DEF IndicesOf
    <3>2. Tells(table, consumed, statsColumns[i], K, groups[fragment][i])
      BY <2>1, <3>1 DEF StatsTold
    <3>3. groups[fragment][i] \in Aggregators /\ statsColumns[i] \in StatsColumnsOf(table)
      BY <2>3
    <3>4. \A k \in K : consumed[k] \in TableRows(table)
      BY <2>3, <2>5
    <3>5. statsColumns[i].column \in NumericColumns =>
              \A k \in K : Field[table][statsColumns[i].column][consumed[k]] \in Int
      BY <2>3, <3>4, BoundAssumption
    <3>6. groups[fragment][i].value = Expected(statsColumns[i], K)
      BY <3>2, <3>3, <3>5, ToldIsExpected
    <3>7. statsColumns[i].column \in NumericColumns =>
              groups[fragment][i].n = Cardinality(K)
      BY <3>2 DEF Tells
    <3> QED BY <3>6, <3>7
  <2> QED BY <2>4, <2>5
<1> QED BY <1>1, QueryInvariant, StatsInvariant, PTL
===============================================================================
