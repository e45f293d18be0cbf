CONSTANTS
    MaxContextId = 2
    RootIds = {"p"}
    MaxCalloutId = 1
    MaxOpenCallouts = 1
SPECIFICATION Spec
INVARIANTS
    RefusedGuestNeverRuns
