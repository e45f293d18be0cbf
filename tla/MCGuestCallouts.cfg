CONSTANTS
    MaxContextId = 2
    RootIds = {"p"}
    MaxCalloutId = 3
    MaxOpenCallouts = 2
SPECIFICATION FairCalloutSpec
INVARIANTS
    LedgerAgrees
    OpenCalloutsBounded
PROPERTIES
    GuestHearsEveryEnd
    TrapAccounts
    MethodsReturn
