SPECIFICATION ServiceSpec
CONSTANTS
    SeqNums <- MCSeqNums
    Lengths <- MCLengths
    MaxTransferSize = 1
    MaxInflight = 2
    MaxToken = 6
    HeaderSize = 1
INVARIANTS
    TypeOK
    IndexesAgree
    AnsweredExactlyOnce
    SilenceOnlyAfterAnswer
PROPERTY ImplementsUrbService
