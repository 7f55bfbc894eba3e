\* Every filter built from five headers, on all columns.
SPECIFICATION Spec
CONSTANTS
    MaxInt = 15
    IntBits = 5
    TimezoneOffset = 1
    MessageClasses <- Classes
    ColumnType <- Types
    ColumnFilters <- SomeColumnFilters
    MaxDepth = 7
    Rows <- AllRows
    Leaves <- SomeLeaves
    MaxStack = 2
    MaxHeaders = 5
    Lines <- EveryLine
    Archives <- SomeArchives
    AllTexts <- EveryText
    Now = 3
    KnownHosts = {"a", "c"}
    KnownServices <- SomeServices
    Users <- SomeUsers
    NoUser = NoUser
    GroupsOf <- SomeGroups
    Limits <- OneOrAll
CHECK_DEADLOCK FALSE
INVARIANTS
    SelectsWhatWasMeant
    PartialFilterIsWeaker
    StringRestrictionSound
    EvenBoundsSound
    LogAnswerExact
    UsersSeeTheirHosts
    NotificationsReadAlike
    ReportReadsItsFrame
