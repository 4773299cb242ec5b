SPECIFICATION LinkSpec
CONSTANTS
    Role = "Exporter"
    MaxPdu = 2
    MaxInflight = 3
    TxWindowBytes = 3
    TxWindowPdus = 2
    RxWindowBytes = 4
    RxWindowPdus = 2
    MaxReassembly = 2
    MaxFragments = 2
    MaxTransferSize = 1
    PeerHellos = {}
    MinPdu = 1
    SeqNums = {1, 2}
    Lengths = {1}
    MaxToken = 3
    HeaderSize = 1
    MaxFragmentSize = 1
    HardMaxPdu = 3
    PeerPduIds <- MCImporterIds
    OwnPduIds <- MCExporterIds
    OpaqueSizes = {1}
    FirstInternalId = 10
    MaxFrames = 9
    MaxEvents = 2
    PeerHello <- MCHello
    PeerPdus <- MCImporterPdus
    ImporterPdus <- MCImporterPdus
    ExporterPdus <- MCExporterPdus
    MaxInTransit = 1
INVARIANT HonestExporterNeverFailsImporter
CHECK_DEADLOCK FALSE
