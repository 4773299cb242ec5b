------------------------------ MODULE UrbCodec ------------------------------
(***************************************************************************)
(* The codec of URB PDUs (src/src/pdu.rs), as what it accepts and what it  *)
(* keeps.  A PDU on the wire is the fields of its header that some check   *)
(* looks at and the number of bytes behind it; fields copied both ways     *)
(* without a look (device id, flags, status, setup, ...) are left out.     *)
(***************************************************************************)
EXTENDS Integers

CONSTANTS
    UrbSeqNums, Endpoints,  \* sequence numbers (0 is none) and endpoints tried
    MaxUrbTransfer          \* MAX_TRANSFER_SIZE
ASSUME UrbAssumption ==
    UrbSeqNums \subseteq Nat /\ Endpoints \subseteq Nat /\ MaxUrbTransfer \in Nat

Commands == 1 .. 5          \* Command, and a number that is none
OutDirection == 0
InDirection == 1

\* One field stands for all the bytes that a command reserves as zero.
WireUrb == [command : Commands, seq : UrbSeqNums, direction : 0 .. 2,
            endpoint : Endpoints, target : UrbSeqNums,
            length : -1 .. MaxUrbTransfer + 1, packets : -1 .. 1,
            zeros : BOOLEAN, data : 0 .. MaxUrbTransfer + 1]
NonIsoPackets == -1

UrbSubmit == [command : {1}, seq : UrbSeqNums, direction : {OutDirection, InDirection},
              endpoint : Endpoints, length : 0 .. MaxUrbTransfer + 1,
              data : 0 .. MaxUrbTransfer + 1]
UrbUnlink == [command : {2}, seq : UrbSeqNums, direction : {OutDirection, InDirection},
              endpoint : Endpoints, target : UrbSeqNums]
UrbSubmitReply == [command : {3}, seq : UrbSeqNums, direction : {OutDirection, InDirection},
                   length : 0 .. MaxUrbTransfer + 1, data : 0 .. MaxUrbTransfer + 1]
UrbUnlinkReply == [command : {4}, seq : UrbSeqNums]

Encodable == UrbSubmit \cup UrbUnlink \cup UrbSubmitReply \cup UrbUnlinkReply

VARIABLE urb                \* what is handed to the codec: a value or a PDU
NoUrb == [command |-> 0]

UrbInit == urb = NoUrb
UrbNext == urb = NoUrb /\ urb' \in Encodable \cup WireUrb

ValidCommon(v) == v.seq # 0 /\ v.endpoint <= 15

\* OUT requests and IN replies carry their data.
Carries(v, direction) == v.data = IF v.direction = direction THEN v.length ELSE 0

-----------------------------------------------------------------------------
(* Encoding: which values are encoded, and as what.                        *)

EncodesRequest(r) ==
    /\ ValidCommon(r)
    /\ r.command = 1 => r.length <= MaxUrbTransfer /\ Carries(r, OutDirection)
    /\ r.command = 2 => r.target # 0

\* Fields that a command does not use are zero.
EncodeRequest(r) ==
    IF r.command = 1
    THEN [command |-> 1, seq |-> r.seq, direction |-> r.direction,
          endpoint |-> r.endpoint, target |-> 0, length |-> r.length,
          packets |-> NonIsoPackets, zeros |-> TRUE, data |-> r.data]
    ELSE [command |-> 2, seq |-> r.seq, direction |-> r.direction,
          endpoint |-> r.endpoint, target |-> r.target, length |-> 0,
          packets |-> 0, zeros |-> TRUE, data |-> 0]

EncodesReply(r) ==
    /\ r.seq # 0
    /\ r.command = 3 => r.length <= MaxUrbTransfer /\ Carries(r, InDirection)

EncodeReply(r) ==
    LET submitted == r.command = 3
    IN  [command |-> r.command, seq |-> r.seq, direction |-> 0, endpoint |-> 0,
         target |-> 0, length |-> IF submitted THEN r.length ELSE 0,
         packets |-> IF submitted THEN NonIsoPackets ELSE 0, zeros |-> TRUE,
         data |-> IF submitted THEN r.data ELSE 0]

-----------------------------------------------------------------------------
(* Decoding.  What stays behind a field left out by a command is zero.     *)

\* As a variant, the length of an OUT request is not compared with its data.
DecodesSubmitOfAnyLength(w) ==
    /\ w.direction \in {OutDirection, InDirection}
    /\ ValidCommon(w)
    /\ w.length >= 0 /\ w.packets \in {NonIsoPackets, 0}
    /\ w.length <= MaxUrbTransfer
DecodesSubmit(w) ==
    /\ w.direction \in {OutDirection, InDirection}
    /\ ValidCommon(w)
    /\ w.length >= 0 /\ w.packets \in {NonIsoPackets, 0}
    /\ w.length <= MaxUrbTransfer
    /\ Carries(w, OutDirection)

DecodesUnlink(w) ==
    /\ w.data = 0 /\ w.length = 0 /\ w.packets = 0 /\ w.zeros
    /\ w.direction \in {OutDirection, InDirection}
    /\ ValidCommon(w)
    /\ w.target # 0

DecodesRequest(w) ==
    \/ w.command = 1 /\ DecodesSubmit(w)
    \/ w.command = 2 /\ DecodesUnlink(w)

\* The reply header has no direction: it is inferred from the data.  As a
\* variant, a reply without data is taken for one of an OUT request.
InferOutFirst(w) == IF w.data = 0 THEN OutDirection ELSE InDirection
InferDirection(w) == IF w.data = w.length THEN InDirection ELSE OutDirection

DecodesReply(w) ==
    /\ w.zeros /\ w.seq # 0
    /\ w.direction = 0 /\ w.endpoint = 0
    /\ \/ /\ w.command = 3
          /\ w.length >= 0 /\ w.packets \in {NonIsoPackets, 0}
          /\ w.data \in {0, w.length} /\ w.data <= MaxUrbTransfer
       \/ w.command = 4 /\ w.data = 0 /\ w.length = 0 /\ w.packets = 0

DecodeRequest(w) ==
    IF w.command = 1
    THEN [command |-> 1, seq |-> w.seq, direction |-> w.direction,
          endpoint |-> w.endpoint, length |-> w.length, data |-> w.data]
    ELSE [command |-> 2, seq |-> w.seq, direction |-> w.direction,
          endpoint |-> w.endpoint, target |-> w.target]

DecodeReply(w) ==
    IF w.command = 3
    THEN [command |-> 3, seq |-> w.seq, direction |-> InferDirection(w),
          length |-> w.length, data |-> w.data]
    ELSE [command |-> 4, seq |-> w.seq]

-----------------------------------------------------------------------------
\* Requests mean the same on both sides: whatever a peer encodes is decoded to
\* itself.  A decoded UNLINK encodes to the very PDU it came from, and a decoded
\* SUBMIT to one that says the same in every field but those it does not keep:
\* a packet count of zero that is taken as "none", and the bytes left out.
RequestsMeanTheSame ==
    /\ urb \in UrbSubmit \cup UrbUnlink /\ EncodesRequest(urb) =>
          DecodesRequest(EncodeRequest(urb)) /\ DecodeRequest(EncodeRequest(urb)) = urb
    /\ urb \in WireUrb /\ DecodesRequest(urb) =>
          LET again == EncodeRequest(DecodeRequest(urb))
          IN  /\ EncodesRequest(DecodeRequest(urb))
              /\ urb.command = 2 => again = urb
              /\ \A field \in DOMAIN urb \ {"packets", "zeros", "target"} :
                    again[field] = urb[field]

\* A reply comes back as it was encoded, save that one that moved no bytes has
\* lost its direction and counts as IN: only the executor, which kept the
\* request, knows it.
RepliesKeepTheirMeaning ==
    urb \in UrbSubmitReply \cup UrbUnlinkReply /\ EncodesReply(urb) =>
        LET back == DecodeReply(EncodeReply(urb))
        IN  /\ DecodesReply(EncodeReply(urb))
            /\ DOMAIN back = DOMAIN urb
            /\ \A field \in DOMAIN urb :
                  back[field] = IF field = "direction" /\ urb.length = 0
                                THEN InDirection ELSE urb[field]
=============================================================================
