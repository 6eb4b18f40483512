SPECIFICATION Spec
CONSTANTS
    MaxTokens = 3
    OverlapTokens = 1
    CharsPerToken = 2
    Search = 3
    LeadChars = 7
    NoName = NoName
    MaxNotesChars = 6
    SumTolerance = 0
    MinGutter = 2
    LineTolerance = 1
    MinColumnLines = 2
    NoGutter = NoGutter
    Corpus <- MCCorpus
INVARIANTS NothingLost WithinLimit TablesWhole CitationsTrue RatesTrue WordsKept ColumnsApart
PROPERTY SplitShortens
