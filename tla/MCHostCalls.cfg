SPECIFICATION MCSpec
CONSTANTS
    Base = 6
    WordBytes = 2
    Absent = Absent
    MaxNameBytes = 2
    MaxIovecs = 2
    MaxRandomBytes = 2
    PairLimits <- MCPairLimits
    RequiredHeaders <- MCRequired
    SpansOf <- MCSpansOf
    PtrsOf <- MCPtrsOf
    Numbers = {0, 1, 3}
    Allocations = {0, 6, 20, 35}
    FirstMemory <- MCFirstMemory
    MaxMemory = 30
    MaxCalls = 1
    MaxDepth = 2
    NestedFunctions <- MCNested
    Places <- MCPlaces
    Held <- MCHeld
    Values <- MCValues
    Payloads <- MCPayloads
    Configuration <- MCConfiguration
    MaxLogBytes = 3
    MaxOpened = 1
    MaxMapPairs = 3
    MaxBuffer = 3
INVARIANTS
    TypeOK
    OkMeansDone
    EmbedderAskedLast
    LogIsPrefix
    CodecStrict
    EditsAreExact
PROPERTIES
    FailedCallHasNoEffect
