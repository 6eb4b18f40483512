SPECIFICATION Spec
CONSTANTS
    Token = {t1, t2, t3}
    Request = {r1, r2}
    None = None
SYMMETRY Symmetry
INVARIANTS
    AtMostOneActive
    SingleSuccessor
    SpentHasSuccessor
    RevocationCoversAncestors
    AnsweredBurnIsEffective
PROPERTIES
    ImplementsSession
