SPECIFICATION Spec
CONSTANTS
    Proc = {p1, p2}
    agreement = agreement
    schedule = schedule
    Manifest <- MCManifest
    Linked = {agreement}
    Converted = {agreement}
    Command <- MCCommand
    Editions = 2
    Reissued = {agreement}
SYMMETRY Symmetry
CONSTRAINT Telling
INVARIANTS
    HitIsFresh
    NothingTorn
PROPERTY RunRepairs
