CONSTANTS
    MaxContextId = 3
    RootIds = {"p"}
    MaxCalloutId = 2
    MaxOpenCallouts = 1
SPECIFICATION PartsSpec
INVARIANTS
    ContextTree
    RootIsolation
    CalloutsOwned
    LentStateKept
PROPERTIES
    OneFamilyPerStream
