SPECIFICATION FairSpec
CONSTANTS
    Token = {t1, t2}
    Request = {r1, r2}
    None = None
PROPERTY EveryRequestEnds
