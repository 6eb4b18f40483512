SPECIFICATION Spec
CONSTANTS
    Proc = {p1, p2}
    Name = {n1, n2}
    blank = blank
    short = short
    long = long
    Version = {blank, short, long}
    Chunks <- MCChunks
    MaxIds = 2
    None = None
SYMMETRY Symmetry
CONSTRAINT Telling
INVARIANTS
    OneRowPerFile
    NothingOrphaned
    WholeOrNothing
    CleanRunsStand
PROPERTY ImplementsLibrary
