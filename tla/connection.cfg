\* All streams of five bytes and some longer ones; the buffer grows from two bytes to four.
SPECIFICATION Spec
CONSTANTS
    Letters = {"G", "C"}
    InitialSize = 2
    MaximumSize = 5
    QueryTimeout = TRUE
    IdleTimeout = TRUE
    Streams <- SomeStreams
INVARIANTS
    BufferHoldsStream
    RequestsAsSent
    OnlyTheLastReplyIsCut
PROPERTY
    ImplementsRequestReader
