------------------------------ MODULE Endpoint ------------------------------
(***************************************************************************)
(* The session engine with a peer that is an engine as well: what          *)
(* accept_hello() and accept_frame() (src/src/transport.rs) do with the    *)
(* message that has arrived, where Transport lets any message arrive.      *)
(*                                                                         *)
(* A message is an OutputHello or OutputFrame event of the peer.  The      *)
(* bytes of a PDU are not in its frames: PeerPdus gives the content of     *)
(* each PDU that the peer's owner sends by its id, and the other ids are   *)
(* those of replies, which the peer's engine makes.                        *)
(***************************************************************************)
EXTENDS Transport

CONSTANTS
    PeerHello,      \* the HELLO the peer's engine sends
    PeerPdus        \* PDU id -> content of the PDU

\* A PDU is a USB/IP control message, a SUBMIT or an UNLINK.
Pdus ==
    [kind : {"Opaque"}, size : Nat]
    \cup [kind : {"Submit"}, request : Executor!SubmitRequest]
    \cup [kind : {"Unlink"}, unlink : SeqNums, target : SeqNums]

ASSUME EndpointAssumption ==
    /\ PeerHello \in [decodes : BOOLEAN, identity : BOOLEAN, maxPdu : Nat, maxInflight : Nat]
    /\ \A id \in DOMAIN PeerPdus : PeerPdus[id] \in Pdus

\* The owner reads the first message of the stream as a HELLO.  Anything else
\* does not decode as one.
Garbage == [PeerHello EXCEPT !.decodes = FALSE]
AcceptHelloMessage(m) ==
    /\ state = "AwaitHello"
    /\ IF Broker!AwaitsHello
       THEN AcceptHello(IF m.kind = "OutputHello" THEN PeerHello ELSE Garbage)
       ELSE UNCHANGED vars

-----------------------------------------------------------------------------
FragmentOf(m) ==
    [id |-> m.id, total |-> m.total, offset |-> m.offset, len |-> m.len, more |-> m.more]

\* handle_pdu(): which PDUs are handled without an error.  Request::decode does
\* not know replies.
Handles(id) ==
    /\ id \in DOMAIN PeerPdus
    /\ LET pdu == PeerPdus[id]
       IN  CASE pdu.kind = "Opaque" -> TRUE
             [] pdu.kind = "Submit" -> Executor!CanAdmit(pdu.request)
             [] pdu.kind = "Unlink" ->
                   Executor!IsPending(pdu.target) => Executor!CanUnlink(pdu.target)

\* A fragment is taken within the agreed limit, and the last one of a PDU
\* within the receive window.
TakesFragment(f) ==
    /\ state = "Running"
    /\ f.total <= negotiatedMaxPdu
    /\ Reassembler!CanPush(f)
    /\ ~f.more => /\ Broker!ReserveReceiveResult(f.total, rxBytes, rxPdus) = "Ok"
                  /\ Handles(f.id)

\* The frames that accept_frame_inner() takes in the present state.
Expects(m) ==
    \/ m.type = "Capability" /\ Role = "Importer" /\ state = "AwaitCapability"
    \/ m.type = "Open" /\ Role = "Exporter" /\ state = "AwaitOpen"
    \/ m.type \in {"OpenOk", "OpenReject"} /\ Role = "Importer" /\ state = "AwaitOpenReply"
    \/ m.type = "Close"
    \/ m.type = "UsbIpData" /\ TakesFragment(FragmentOf(m))

InSequence(m) == Receiving /\ IsFrame(m) /\ m.seq = nextRx

HandlePdu(f) ==
    LET pdu == PeerPdus[f.id]
    IN  \/ pdu.kind = "Opaque" /\ ReceiveOpaque(f, f.total)
        \/ pdu.kind = "Submit" /\ ReceiveSubmit(f, pdu.request)
        \/ /\ pdu.kind = "Unlink"
           /\ \/ ReceiveUnlink(f, pdu.unlink, pdu.target)
              \/ ReceiveUnlinkOfUnknown(f, pdu.unlink, pdu.target)

TakeFrame(m) ==
    \/ m.type = "Capability" /\ ReceiveCapability
    \/ m.type = "Open" /\ ReceiveOpen
    \/ m.type = "OpenOk" /\ ReceiveOpenOk
    \/ m.type = "OpenReject" /\ ReceiveOpenReject
    \/ m.type = "Close" /\ ReceiveClose
    \/ /\ m.type = "UsbIpData"
       /\ IF m.more THEN ReceiveFragment(FragmentOf(m)) ELSE HandlePdu(FragmentOf(m))

\* accept_frame() of the message at hand.
AcceptFrame(m) ==
    /\ state \notin {"New", "AwaitHello"}
    /\ \/ InSequence(m) /\ Expects(m) /\ TakeFrame(m)
       \/ InSequence(m) /\ ~Expects(m) /\ RefuseFrame
       \/ ~InSequence(m) /\ RejectFrame

AcceptMessage(m) == AcceptHelloMessage(m) \/ AcceptFrame(m)

\* The bytes of a PDU of an owner.
PduSize(pdu) ==
    CASE pdu.kind = "Opaque" -> pdu.size
      [] pdu.kind = "Submit" -> SubmitSize(pdu.request)
      [] pdu.kind = "Unlink" -> HeaderSize

-----------------------------------------------------------------------------
\* The frames of a queue carry the numbers from .. to - 1, in this order.
Stream(queue, from, to) ==
    LET frames == {i \in DOMAIN queue : IsFrame(queue[i])}
    IN  /\ from <= to
        /\ {queue[i].seq : i \in frames} = from .. to - 1
        /\ \A i, j \in frames : i < j => queue[i].seq < queue[j].seq
=============================================================================
