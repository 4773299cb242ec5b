SPECIFICATION BrokerSpec
CONSTANTS
    PeerHellos <- MCPeerHellos
    Sizes <- MCSizes
    MinPdu = 2
    MaxPdu = 3
    MaxInflight = 3
    TxWindowBytes = 5
    TxWindowPdus = 2
    RxWindowBytes = 7
    RxWindowPdus = 4
INVARIANTS
    BrokerTypeOK
    WithinWindows
    CreditNeedsSession
PROPERTY HandshakeOnce
CHECK_DEADLOCK FALSE
