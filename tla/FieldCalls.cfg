SPECIFICATION Spec
CONSTANTS
    AmountDigits = 4
    Instants = 3
    PANs <- SomePANs
    Dates <- SomeDates
    Months <- SomeMonths
    Starts <- AllStarts
    Lengths <- SomeLengths
    Amounts <- SomeAmounts
    TagLists <- SomeTagLists
    Bytes = {0, 1, 2, 95, 128, 129, 130, 149}
    MaxData = 5
    Word = 65536
    Base = 3
    HeaderLen = 2
    MaxPacket = 5
    Streams <- SomeStreams
INVARIANTS LuhnCatchesTypos ExpiryThroughMonth SchemesAsDocumented AmountsExact
INVARIANTS TagsSurvive TruncationLosesTheTail FramesReadBack TablesAgree
CHECK_DEADLOCK FALSE
