SPECIFICATION FairSpec
CONSTANTS
    Role = "Exporter"
    MaxPdu = 3
    MaxInflight = 2
    TxWindowBytes = 2
    TxWindowPdus = 1
    RxWindowBytes = 4
    RxWindowPdus = 2
    MaxReassembly = 3
    MaxFragments = 2
    MaxTransferSize = 2
    PeerHellos <- MCLongerHellos
    MinPdu = 1
    SeqNums <- MCSeqNums
    Lengths <- MCLongerLengths
    MaxToken = 3
    HeaderSize = 1
    MaxFragmentSize = 3
    HardMaxPdu = 3
    PeerPduIds <- MCPeerPduIds
    OwnPduIds = {}
    OpaqueSizes <- MCOpaqueSizes
    FirstInternalId = 10
    MaxFrames = 4
    MaxEvents = 1
PROPERTY RequestsAnswered
CHECK_DEADLOCK FALSE
