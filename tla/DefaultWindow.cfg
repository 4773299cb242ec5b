SPECIFICATION Spec
CONSTANTS
    Role = "Exporter"
    MaxPdu = 2
    MaxInflight = 2
    TxWindowBytes = 16
    TxWindowPdus = 16
    RxWindowBytes = 4
    RxWindowPdus = 2
    MaxReassembly = 2
    MaxFragments = 2
    MaxTransferSize = 1
    PeerHellos <- MCSmallOffer
    MinPdu = 1
    SeqNums <- MCSeqNums
    Lengths <- MCLengths
    MaxToken = 3
    HeaderSize = 1
    MaxFragmentSize = 1
    HardMaxPdu = 3
    PeerPduIds <- MCPeerPduIds
    OwnPduIds <- MCOwnPduIds
    OpaqueSizes <- MCOpaqueSizes
    FirstInternalId = 10
    MaxFrames = 5
    MaxEvents = 2
INVARIANT RepliesWaitOnlyForTheWindow
CHECK_DEADLOCK FALSE
