-------------------------------- MODULE Link --------------------------------
(***************************************************************************)
(* An exporter's engine and an importer's engine joined by a stream in     *)
(* each direction.  An owner writes each OutputHello and OutputFrame event *)
(* it takes to its stream, and feeds its engine with what it reads from    *)
(* the other; the streams lose and reorder nothing, as the transport under *)
(* RUSB promises, and either owner may close at any moment.                *)
(*                                                                         *)
(* The variables without a prefix are those of the exporter.               *)
(***************************************************************************)
EXTENDS Endpoint

CONSTANTS
    ImporterPdus,    \* PDUs the importer's owner sends, each once: id -> content
    ExporterPdus,    \* and the exporter's owner
    MaxInTransit     \* bound: messages on their way in one direction

ASSUME LinkAssumption ==
    /\ Role = "Exporter" /\ PeerPdus = ImporterPdus
    /\ OwnPduIds = DOMAIN ExporterPdus /\ PeerPduIds = DOMAIN ImporterPdus
    /\ DOMAIN ImporterPdus \subseteq Nat \ {0}
    /\ \A id \in DOMAIN ExporterPdus : ExporterPdus[id] \in Pdus

VARIABLES
    importerState,
    importerBrokerState, importerNonceConsumed,
    importerMaxPdu, importerMaxInflight,
    importerTxBytes, importerTxPdus, importerRxBytes, importerRxPdus,
    importerNextToken, importerPendingBySequence, importerSequenceByToken,
    importerRetiredTokens,
    importerActivePdu, importerTotalLength, importerFragments, importerReceived,
    importerNextRx, importerNextTx, importerNextInternalId,
    importerOutputReservations, importerPendingReplies, importerEvents, importerFramed,
    toImporter, toExporter,     \* messages in transit
    written,     \* history: PDUs each side has written to its stream to the end
    taken        \* history: PDUs each side has put together and handled

\* (EndpointProofs is Endpoint with the lemmas about it, which then hold for the
\* importer too.)
Importer == INSTANCE EndpointProofs WITH
    Role <- "Importer", PeerPdus <- ExporterPdus,
    OwnPduIds <- DOMAIN ImporterPdus, PeerPduIds <- DOMAIN ExporterPdus,
    state <- importerState,
    brokerState <- importerBrokerState, nonceConsumed <- importerNonceConsumed,
    negotiatedMaxPdu <- importerMaxPdu, negotiatedMaxInflight <- importerMaxInflight,
    txBytes <- importerTxBytes, txPdus <- importerTxPdus,
    rxBytes <- importerRxBytes, rxPdus <- importerRxPdus,
    nextToken <- importerNextToken, pendingBySequence <- importerPendingBySequence,
    sequenceByToken <- importerSequenceByToken, retiredTokens <- importerRetiredTokens,
    activePdu <- importerActivePdu, totalLength <- importerTotalLength,
    fragments <- importerFragments, received <- importerReceived,
    nextRx <- importerNextRx, nextTx <- importerNextTx,
    nextInternalId <- importerNextInternalId,
    outputReservations <- importerOutputReservations,
    pendingReplies <- importerPendingReplies, events <- importerEvents,
    framed <- importerFramed

importerVars ==
    <<importerState,
      importerBrokerState, importerNonceConsumed, importerMaxPdu, importerMaxInflight,
      importerTxBytes, importerTxPdus, importerRxBytes, importerRxPdus,
      importerNextToken, importerPendingBySequence, importerSequenceByToken,
      importerRetiredTokens,
      importerActivePdu, importerTotalLength, importerFragments, importerReceived,
      importerNextRx, importerNextTx, importerNextInternalId,
      importerOutputReservations, importerPendingReplies, importerEvents, importerFramed>>
linkVars == <<vars, importerVars, toImporter, toExporter, written, taken>>

-----------------------------------------------------------------------------
\* The PDUs whose last frame is in a queue of messages.
PduOf(m) ==
    IF IsFrame(m) /\ m.type = "UsbIpData" /\ ~m.more
    THEN <<[id |-> m.id, size |-> m.total]>> ELSE <<>>
PdusOf(messages) == FlattenSeq([i \in DOMAIN messages |-> PduOf(messages[i])])

\* The PDUs a side has sent: written already, or waiting for its owner.
ExporterSent == written.exporter \o PdusOf(events)
ImporterSent == written.importer \o PdusOf(importerEvents)

LinkInit ==
    /\ Init /\ Importer!Init
    /\ toImporter = <<>> /\ toExporter = <<>>
    /\ written = [exporter |-> <<>>, importer |-> <<>>]
    /\ taken = [exporter |-> <<>>, importer |-> <<>>]

streamVars == <<toImporter, toExporter, written, taken>>

\* An owner, or the platform behind the exporter, calls its engine.  The PDUs
\* of an owner are sent once each.
Unsent(id, pdus) == \A i \in DOMAIN pdus : pdus[i].id # id
ExporterCall ==
    /\ \/ OwnerCall
       \/ PlatformStep
       \/ \E id \in OwnPduIds : Unsent(id, ExporterSent) /\ SendPdu(id, PduSize(ExporterPdus[id]))
    /\ UNCHANGED <<importerVars, streamVars>>
ImporterCall ==
    /\ \/ Importer!OwnerCall
       \/ \E id \in DOMAIN ImporterPdus :
             Unsent(id, ImporterSent) /\ Importer!SendPdu(id, PduSize(ImporterPdus[id]))
    /\ UNCHANGED <<vars, streamVars>>

\* An owner takes an event and, if it is output, writes it.
IsOutput(e) == e.kind \in {"OutputHello", "OutputFrame"}
Outgoing(queue) == IF IsOutput(Head(queue)) THEN <<Head(queue)>> ELSE <<>>
ExporterWrites ==
    /\ NextEvent
    /\ Len(toImporter) < MaxInTransit
    /\ toImporter' = toImporter \o Outgoing(events)
    /\ written' = [written EXCEPT !.exporter = @ \o PdusOf(Outgoing(events))]
    /\ UNCHANGED <<importerVars, toExporter, taken>>
ImporterWrites ==
    /\ Importer!NextEvent
    /\ Len(toExporter) < MaxInTransit
    /\ toExporter' = toExporter \o Outgoing(importerEvents)
    /\ written' = [written EXCEPT !.importer = @ \o PdusOf(Outgoing(importerEvents))]
    /\ UNCHANGED <<vars, toImporter, taken>>

\* An owner feeds its engine with the next message of its peer.
ExporterReads ==
    /\ toExporter # <<>>
    /\ AcceptMessage(Head(toExporter))
    /\ toExporter' = Tail(toExporter)
    /\ taken' = [taken EXCEPT !.exporter =
                   IF InSequence(Head(toExporter)) /\ Expects(Head(toExporter))
                   THEN @ \o PdusOf(<<Head(toExporter)>>) ELSE @]
    /\ UNCHANGED <<importerVars, toImporter, written>>
ImporterReads ==
    /\ toImporter # <<>>
    /\ Importer!AcceptMessage(Head(toImporter))
    /\ toImporter' = Tail(toImporter)
    /\ taken' = [taken EXCEPT !.importer =
                   IF Importer!InSequence(Head(toImporter)) /\ Importer!Expects(Head(toImporter))
                   THEN @ \o PdusOf(<<Head(toImporter)>>) ELSE @]
    /\ UNCHANGED <<vars, toExporter, written>>

\* Something is written or read as long as there is something to write or read.
Transmit == ExporterWrites \/ ExporterReads \/ ImporterWrites \/ ImporterReads

LinkNext == ExporterCall \/ ImporterCall \/ Transmit

LinkSpec == LinkInit /\ [][LinkNext]_linkVars

FairLinkSpec == LinkSpec /\ WF_linkVars(Transmit)

-----------------------------------------------------------------------------
\* The stream is intact: what is on its way to a session that still receives,
\* and what its peer has queued for it, are the frames it has not taken, in
\* their order and without a gap.
StreamIntact ==
    /\ Receiving => Stream(toExporter \o importerEvents, nextRx, importerNextTx)
    /\ Importer!Receiving => Stream(toImporter \o events, importerNextRx, nextTx)

\* The importer's engine keeps what is checked of the exporter's: its credit is
\* what its owner has still to acknowledge, its frames are numbered without a
\* gap, and it opens only after the handshake.
ImporterEngineSafe ==
    /\ Importer!CreditMatchesReservations
    /\ Importer!SequencesContiguous
    /\ Importer!OpenNeedsHandshake

\* The importer's engine says nothing more once its session has ended, whether
\* its owner, the exporter or a refused OPEN ended it.
ImporterSilentOnceEnded == Importer!SilentOnceEnded

\* An importer that keeps to the protocol never makes the exporter's session
\* fail, whatever crosses on the way: a frame is refused only once the session
\* is closed, when the CLOSE frames of the two sides cross.
HonestImporterNeverFailsExporter ==
    [][state' = "Failed" => state \in {"Closed", "Closing", "Failed"}]_linkVars

\* The two engines and their streams implement the abstract session.
Phase(s) ==
    CASE s = "Running" -> "Open"
      [] s \in {"Closing", "Closed", "Failed"} -> "Ended"
      [] OTHER -> "Opening"
Attachment == INSTANCE Attachment WITH
    phase <- [Exporter |-> Phase(state), Importer |-> Phase(importerState)],
    sent <- [Exporter |-> ExporterSent, Importer |-> ImporterSent],
    taken <- [Exporter |-> taken.exporter, Importer |-> taken.importer]
ImplementsAttachment == Attachment!AttachmentSpec

\* A side that closes takes the other with it: its CLOSE always arrives.
CloseReachesPeer ==
    /\ state = "Closed" ~> importerState # "Running"
    /\ importerState = "Closed" ~> state # "Running"

\* RUSB forwards RET_SUBMIT and RET_UNLINK (contract, section 8): an exporter
\* that keeps to the protocol never makes the importer's session fail.
HonestExporterNeverFailsImporter ==
    importerState = "Failed" => importerBrokerState # "Established"
=============================================================================
