CONSTANTS
    MaxCalloutId = 4
    MaxOpenCallouts = 3
SPECIFICATION Spec
INVARIANTS
    IssuedFalseAfterWrap
