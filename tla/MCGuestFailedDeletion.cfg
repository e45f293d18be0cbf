CONSTANTS
    MaxContextId = 2
    RootIds = {"p"}
    MaxCalloutId = 2
    MaxOpenCallouts = 2
SPECIFICATION CalloutSpec
PROPERTIES
    FailedDeletionAccounts
