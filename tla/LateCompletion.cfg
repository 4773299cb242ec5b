SPECIFICATION LateSpec
CONSTANTS
    SeqNums = {1, 2}
    Lengths = {1}
    MaxTransferSize = 1
    MaxInflight = 1
    MaxToken = 6
    HeaderSize = 1
INVARIANT LateCompletionIgnored
CHECK_DEADLOCK FALSE
