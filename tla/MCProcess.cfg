CONSTANTS
    HostTestsHold <- HostTestsPass
    Absent = Absent
    MaxCalloutId = 4
    MaxOpenCallouts = 3
    Period = 2
    CpuTime = 3
    Fuel = 2
    MaxTicks = 5
    MaxLate = 1
    Callbacks = {"proxy_on_vm_start"}
    Offers = {{"0.1.0"}, {"0.2.0"}, {"0.2.0", "0.2.1"}}
    Count = 2
    Queues = {"q1"}
    MaxRequests = 2
    MaxItems = 2
    MaxBuilds = 4
SPECIFICATION MCSpec
INVARIANTS
    IdentifiersSound
    CpuTimeKept
    GuestCodeFindsHost
    RoutesLead
    PoolAccounts
PROPERTIES
    CallsEnd
    JobsServed
CHECK_DEADLOCK FALSE
