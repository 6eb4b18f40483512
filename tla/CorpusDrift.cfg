SPECIFICATION DriftSpec
CONSTANTS
    early = early
    early2 = early2
    late = late
    form = form
    deal = deal
    File <- MCFile
    Rank <- MCRank
    Identity <- MCIdentity
    Agreement <- MCAgreement
    Filed <- MCFiled
    Content <- MCContent
    Pages <- MCPages
    NoFile = NoFile
INVARIANTS
    DriftAccounted
    WorkedOffIsCurrent
