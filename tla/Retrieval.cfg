SPECIFICATION Spec
CONSTANTS
    None = None
    Chunk <- Corpus
    Known <- Unions
    Limit <- Scaled
    Question <- Questions
    Order <- Orders
    Document <- Documents
    MaxChanges = 2
CHECK_DEADLOCK FALSE
INVARIANTS
    WindowSound
    PassesHeard
    PinnedIsExact
    ReadsAsOne
