SPECIFICATION Spec
CONSTANTS
    Query = {q1, q2, q3, q4}
    Slots = 2
    Limit = 3
    LapsedLimit = 1
    FetchLimit = 2
    Grace = 1
    Month = 2
    MaxDay = 2
    MaxRows = 3
    StripeStatus = {"active", "past_due", "unpaid", "incomplete"}
    None = None
SYMMETRY Symmetry
CONSTRAINT FewOfEach
CHECK_DEADLOCK FALSE
INVARIANTS
    OvershootBounded
    FullAllowance
    PayingIsServed
