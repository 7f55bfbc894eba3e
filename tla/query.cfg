\* Every table, with three headers.
SPECIFICATION Spec
CONSTANTS
    Null = "none"
    HostList <- TwoHosts
    ServiceList <- ThreeServices
    HostGroupList <- TwoHostGroups
    ServiceGroupList <- OneServiceGroup
    HostOf <- HostOfService
    ServicesOf <- ServicesOfHost
    HostMembers <- MembersOfHostGroup
    ServiceMembers <- MembersOfServiceGroup
    HostContacts <- ContactsOfHost
    ServiceContacts <- ContactsOfService
    Users <- OneUser
    UnknownUser = "unknown"
    ServiceAuthorization = "loose"
    GroupAuthorization = "strict"
    Filters <- SomeFilters
    AcceptedRows <- AcceptedRowsOf
    Restriction <- RestrictionOf
    AnyColumns <- TwoColumns
    NumericColumns <- OneColumn
    StatsColumns <- SomeStatsColumns
    Field <- FieldOfRow
    MaxLimit = 1
    MaxHeaders = 3
    MaxResponseSize = 1
CHECK_DEADLOCK FALSE
INVARIANTS
    OnlyWantedRowsOnce
    MissingRowsExplained
    StatsExact
