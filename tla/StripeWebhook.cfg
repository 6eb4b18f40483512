SPECIFICATION FairSpec
CONSTANTS
    Sub = {s1, s2}
    Customer = {c1}
    CustomerOf <- OneCustomer
    Worker = {w1, w2}
    MaxEvents = 2
    MaxSecond = 1
INVARIANTS
    AcknowledgedIsApplied
PROPERTIES
    ImplementsLedger
    EveryEventLands
