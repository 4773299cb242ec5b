----------------------------- MODULE Transport -----------------------------
(***************************************************************************)
(* The session engine (src/src/transport.rs): one endpoint of a RUSB       *)
(* stream.  It composes the broker (handshake and windows), the executor   *)
(* (requests) and the reassembler (incoming PDUs) and adds the session's   *)
(* own state machine, its frame sequences, the reservations of output not  *)
(* yet acknowledged, the replies the window holds back, and the queue of   *)
(* events its owner takes one at a time.                                   *)
(*                                                                         *)
(* Every public call and every frame of the peer is one action.  Three     *)
(* parties act: the peer (HELLOs, frames), the owner (Start, Send*,        *)
(* NextEvent, AckOutput, Close) and the platform (Complete, CompleteCancel)*)
(* A call that returns an error without touching the session is a stutter. *)
(***************************************************************************)
EXTENDS Integers, Sequences, FiniteSets, SequencesExt

CONSTANTS
    Role,                                       \* "Exporter" or "Importer"
    MaxPdu, MaxInflight,                        \* the local HELLO's limits
    TxWindowBytes, TxWindowPdus, RxWindowBytes, RxWindowPdus,
    MaxReassembly, MaxFragments, MaxTransferSize,
    PeerHellos, MinPdu,                         \* see Broker
    SeqNums, Lengths, MaxToken, HeaderSize,     \* see Executor
    MaxFragmentSize, HardMaxPdu,                \* see Reassembler
    PeerPduIds,          \* PDU ids the peer uses
    OwnPduIds,           \* PDU ids the owner passes to send_pdu
    OpaqueSizes,         \* sizes of USB/IP control PDUs
    FirstInternalId,     \* first PDU id the engine gives a reply (2^63)
    MaxFrames,           \* bound: frames received, and frames sent by choice
    MaxEvents            \* bound: events waiting when a frame is received

\* Transport::new accepts the configuration, and the parts accept theirs (see
\* their modules).  Nothing keeps an owner's PDU ids apart from the engine's.
ASSUME ConfigAssumption ==
    /\ Role \in {"Exporter", "Importer"}
    /\ {MinPdu, MaxPdu, MaxInflight, MaxReassembly, MaxFragments, MaxTransferSize,
        TxWindowBytes, TxWindowPdus, RxWindowBytes, RxWindowPdus,
        HeaderSize, MaxFragmentSize, MaxToken, FirstInternalId} \subseteq Nat \ {0}
    /\ MaxReassembly <= MaxPdu
    /\ MaxTransferSize <= MaxReassembly - HeaderSize
    /\ PeerHellos \subseteq [decodes : BOOLEAN, identity : BOOLEAN,
                             maxPdu : Nat, maxInflight : Nat]
    /\ OwnPduIds \subseteq Nat \ {0} /\ OpaqueSizes \subseteq Nat
    /\ SeqNums \subseteq Nat \ {0} /\ Lengths \subseteq Nat

VARIABLES
    state,
    brokerState, nonceConsumed, negotiatedMaxPdu, negotiatedMaxInflight,
    txBytes, txPdus, rxBytes, rxPdus,
    nextToken, pendingBySequence, sequenceByToken, retiredTokens,
    activePdu, totalLength, fragments, received,
    nextRx, nextTx,        \* next_rx_sequence, next_tx_sequence
    nextInternalId,        \* next_internal_pdu_id
    outputReservations,    \* PDUs sent and not acknowledged: id -> size
    pendingReplies,        \* replies waiting for the send window
    events,                \* events the owner has not taken yet
    framed                 \* history: framed[t], RET_SUBMITs of t turned into frames

Executor == INSTANCE Executor
Broker == INSTANCE Broker WITH Sizes <- 0 .. MaxPdu
Reassembler == INSTANCE Reassembler WITH PduIds <- PeerPduIds

handshakeVars == <<brokerState, nonceConsumed, negotiatedMaxPdu, negotiatedMaxInflight>>
rxVars == <<rxBytes, rxPdus>>
brokerVars == <<handshakeVars, txBytes, txPdus, rxVars>>
executorVars == <<nextToken, pendingBySequence, sequenceByToken, retiredTokens>>
reassemblerVars == <<activePdu, totalLength, fragments, received>>
queueVars == <<nextTx, nextInternalId, outputReservations, pendingReplies, events, framed>>
vars == <<state, brokerVars, executorVars,
          reassemblerVars, nextRx, queueVars>>

Tokens == Executor!Tokens

States == {"New", "AwaitHello", "AwaitCapability", "AwaitOpen", "AwaitOpenReply",
           "Running", "Closing", "Closed", "Failed"}

-----------------------------------------------------------------------------
(* Events, and the frames among them.                                      *)

Event(kind) == [kind |-> kind]
TokenEvent(kind, t) == [kind |-> kind, token |-> t]
Frame(type, id, seq) ==
    [kind |-> "OutputFrame", type |-> type, id |-> id, seq |-> seq,
     total |-> 0, offset |-> 0, len |-> 0, more |-> FALSE]
IsFrame(e) == e.kind = "OutputFrame"

\* Control frames carry no reservation.
NoId == 0

\* fragment_and_queue(): how many frames a PDU takes, and when it is refused.
FrameCount(size) == (size + MaxFragmentSize - 1) \div MaxFragmentSize
CanFragment(size) ==
    /\ size > 0 /\ size <= negotiatedMaxPdu /\ size <= MaxReassembly
    /\ FrameCount(size) <= MaxFragments

\* The i-th frame of a PDU carries the i-th fragment of it.
DataFrame(id, size, seq, i) ==
    LET offset == (i - 1) * MaxFragmentSize
    IN  [kind |-> "OutputFrame", type |-> "UsbIpData", id |-> id, seq |-> seq + i - 1,
         total |-> size, offset |-> offset, len |-> Min({MaxFragmentSize, size - offset}),
         more |-> i < FrameCount(size)]

\* As variants, the frames of a PDU share a sequence number, or all are marked
\* MORE.
DataFramesSameSequence(id, size, seq) ==
    [i \in 1 .. FrameCount(size) |-> [DataFrame(id, size, seq, i) EXCEPT !.seq = seq]]
DataFramesAllMore(id, size, seq) ==
    [i \in 1 .. FrameCount(size) |-> [DataFrame(id, size, seq, i) EXCEPT !.more = TRUE]]
DataFrames(id, size, seq) ==
    [i \in 1 .. FrameCount(size) |-> DataFrame(id, size, seq, i)]

-----------------------------------------------------------------------------
(* The output side of the session as one value, so that a handler can be   *)
(* written as a chain of what it does to it.                               *)

Output == [bytes |-> txBytes, pdus |-> txPdus, reservations |-> outputReservations,
           replies |-> pendingReplies, seq |-> nextTx, id |-> nextInternalId,
           events |-> events, framed |-> framed]

\* (The quantifier only names the value, so that it is computed once.)
SetOutput(value) ==
    \E o \in {value} :
        /\ txBytes' = o.bytes /\ txPdus' = o.pdus
        /\ outputReservations' = o.reservations
        /\ pendingReplies' = o.replies
        /\ nextTx' = o.seq /\ nextInternalId' = o.id
        /\ events' = o.events /\ framed' = o.framed

Notify(o, notices) == [o EXCEPT !.events = @ \o notices]

\* queue_control(): one frame, no reservation.  As a variant, it uses up no
\* sequence number.
ControlSameSequence(o, type) ==
    [o EXCEPT !.events = Append(@, Frame(type, NoId, o.seq))]
Control(o, type) ==
    [o EXCEPT !.events = Append(@, Frame(type, NoId, o.seq)), !.seq = @ + 1]

\* What send_pdu() reports for a PDU when o is the output side.  As a variant,
\* the device need not be open.
SendResultUnopened(id, size, o) ==
    IF id \in DOMAIN o.reservations THEN "Duplicate"
    ELSE LET reserved == Broker!ReserveSendResult(size, o.bytes, o.pdus)
         IN  IF reserved = "Ok" /\ ~CanFragment(size) THEN "LimitExceeded" ELSE reserved
SendResult(id, size, o) ==
    IF state # "Running" THEN "InvalidState"
    ELSE IF id \in DOMAIN o.reservations THEN "Duplicate"
    ELSE LET reserved == Broker!ReserveSendResult(size, o.bytes, o.pdus)
         IN  IF reserved = "Ok" /\ ~CanFragment(size) THEN "LimitExceeded" ELSE reserved

\* send_pdu() when it succeeds.
Sent(o, id, size) ==
    [o EXCEPT !.bytes = @ + size, !.pdus = @ + 1,
              !.reservations = Executor!Insert(@, id, size),
              !.seq = @ + FrameCount(size),
              !.events = @ \o DataFrames(id, size, o.seq)]

\* handle_executor_events(): replies join the queue under fresh PDU ids.  As a
\* variant, they jump it.
EnqueueFirst(o, replies) ==
    [o EXCEPT !.id = @ + Len(replies),
              !.replies = [i \in 1 .. Len(replies) |->
                             [id |-> o.id + i - 1, kind |-> replies[i].kind,
                              token |-> replies[i].token, size |-> replies[i].size]] \o @]
Enqueue(o, replies) ==
    [o EXCEPT !.id = @ + Len(replies),
              !.replies = @ \o [i \in 1 .. Len(replies) |->
                                  [id |-> o.id + i - 1, kind |-> replies[i].kind,
                                   token |-> replies[i].token, size |-> replies[i].size]]]

\* drain_pending_replies(): the reply at the front is sent and leaves, again and
\* again, until none is left or send_pdu() refuses the front one.  (The sets of
\* one element only name the value, so that it is computed once.)
FrontResult(o) == SendResult(Head(o.replies).id, Head(o.replies).size, o)

FrontSent(o) ==
    LET reply == Head(o.replies)
    IN  [Sent(o, reply.id, reply.size) EXCEPT
           !.replies = Tail(@),
           !.framed = [t \in Tokens |->
                         @[t] + (IF reply.kind = "RetSubmit" /\ reply.token = t THEN 1 ELSE 0)]]

DrainTurn(o) ==
    IF o.replies # <<>> /\ FrontResult(o) = "Ok" THEN FrontSent(o) ELSE o

Drained(o) ==
    LET after[n \in 0 .. Len(o.replies)] ==
            IF n = 0 THEN o ELSE CHOOSE p \in {DrainTurn(q) : q \in {after[n - 1]}} : TRUE
    IN  after[Len(o.replies)]

\* The loop ends well when nothing is left or the window is exhausted; any
\* other refusal of the front reply is an error of the call that drains.
DrainError(o) == o.replies # <<>> /\ FrontResult(o) # "WindowExhausted"

\* The executor's events are handled: notices first, replies queued, drained.
AfterExecutor(o, notices, replies) == Drained(Enqueue(Notify(o, notices), replies))

-----------------------------------------------------------------------------
Init ==
    /\ state = "New"
    /\ Broker!BrokerInit
    /\ Executor!ExecutorInit
    /\ Reassembler!ReassemblerInit
    /\ nextRx = 1 /\ nextTx = 1
    /\ nextInternalId = FirstInternalId
    /\ outputReservations = Executor!EmptyMap
    /\ pendingReplies = <<>>
    /\ events = <<>>
    /\ framed = [t \in Tokens |-> 0]

(* The handshake and the opening of the device.                            *)

Start ==
    /\ state = "New"
    /\ Broker!MarkHelloSent
    /\ SetOutput(Notify(Output, <<Event("OutputHello")>>))
    /\ state' = "AwaitHello"
    /\ UNCHANGED <<executorVars, reassemblerVars, nextRx>>

\* A refused HELLO fails the broker only; the session's own state stays.  As a
\* variant, the session moves on without looking at the result.
AcceptHelloUnchecked(h) ==
    /\ state = "AwaitHello"
    /\ Broker!AcceptHello(h)
    /\ state' = "AwaitCapability"
    /\ UNCHANGED <<executorVars, reassemblerVars, nextRx,
                   nextTx, nextInternalId, outputReservations, pendingReplies,
                   events, framed>>
AcceptHello(h) ==
    /\ state = "AwaitHello"
    /\ Broker!AcceptHello(h)
    /\ state' = IF Broker!ValidHello(h) THEN "AwaitCapability" ELSE state
    /\ UNCHANGED <<executorVars, reassemblerVars, nextRx,
                   nextTx, nextInternalId, outputReservations, pendingReplies,
                   events, framed>>

\* send_capability, send_open, send_open_ok and send_open_reject: a step of
\* the opening that one role takes by sending a control frame.
SendControl(role, from, type, to, notices) ==
    /\ Role = role /\ state = from
    /\ SetOutput(Notify(Control(Output, type), notices))
    /\ state' = to
    /\ UNCHANGED <<handshakeVars, rxVars, executorVars,
                   reassemblerVars, nextRx>>

SendCapability == SendControl("Exporter", "AwaitCapability", "Capability", "AwaitOpen", <<>>)
SendOpen == SendControl("Importer", "AwaitOpen", "Open", "AwaitOpenReply", <<>>)
SendOpenOk ==
    SendControl("Exporter", "AwaitOpenReply", "OpenOk", "Running", <<Event("Opened")>>)
SendOpenReject ==
    SendControl("Exporter", "AwaitOpenReply", "OpenReject", "Closed", <<>>)

-----------------------------------------------------------------------------
(* Frames of the peer.  accept_frame() turns every error into Failed.      *)

Receiving ==
    /\ state \in {"AwaitCapability", "AwaitOpen", "AwaitOpenReply", "Running"}
    /\ brokerState = "Established"

\* The peer sends one more frame; the bounds are on the peer, not the code.
FrameArrives == nextRx <= MaxFrames /\ Len(events) <= MaxEvents

Fail ==
    /\ state' = "Failed"
    /\ Reassembler!Clear
    /\ UNCHANGED <<brokerVars, executorVars, queueVars>>

\* A frame in a state that takes none, or one whose header, length, session
\* token or sequence number is wrong.
RejectFrame == FrameArrives /\ Fail /\ UNCHANGED nextRx

\* A frame in sequence that a later check refuses: a message type the state or
\* the role does not expect, a payload that does not decode, a foreign lease,
\* a fragment the reassembler cannot push, a PDU above the receive window, an
\* unsupported or refused request.
RefuseFrame ==
    /\ FrameArrives /\ Receiving
    /\ Fail
    /\ nextRx' = nextRx + 1

\* The frames that open the device.
ReceiveControl(role, from, to, notices) ==
    /\ FrameArrives /\ Receiving
    /\ Role = role /\ state = from
    /\ nextRx' = nextRx + 1
    /\ SetOutput(Notify(Output, notices))
    /\ state' = to
    /\ UNCHANGED <<handshakeVars, rxVars, executorVars,
                   reassemblerVars>>

ReceiveCapability ==
    ReceiveControl("Importer", "AwaitCapability", "AwaitOpen", <<Event("Capability")>>)
ReceiveOpen ==
    ReceiveControl("Exporter", "AwaitOpen", "AwaitOpenReply", <<Event("Open")>>)
ReceiveOpenOk ==
    ReceiveControl("Importer", "AwaitOpenReply", "Running", <<Event("Opened")>>)
ReceiveOpenReject ==
    ReceiveControl("Importer", "AwaitOpenReply", "Closed", <<Event("OpenRejected")>>)

\* The peer's CLOSE ends the session and its windows; the executor keeps its
\* requests.
ReceiveClose ==
    /\ FrameArrives /\ Receiving
    /\ nextRx' = nextRx + 1
    /\ state' = "Closed"
    /\ Broker!CloseBroker
    /\ Reassembler!Clear
    /\ events' = Append(events, Event("Closed"))
    /\ UNCHANGED <<executorVars, nextTx, nextInternalId,
                   outputReservations, pendingReplies, framed>>

\* Fragments the peer may send in well-formed frames.
PeerFragments ==
    {f \in [id : PeerPduIds, total : 1 .. HardMaxPdu, offset : 0 .. HardMaxPdu,
            len : 1 .. MaxFragmentSize, more : BOOLEAN] : Reassembler!WellFormed(f)}

\* A fragment that does not complete its PDU.
ReceiveFragment(f) ==
    /\ FrameArrives /\ Receiving
    /\ state = "Running"
    /\ f.total <= negotiatedMaxPdu
    /\ Reassembler!PushPartial(f)
    /\ nextRx' = nextRx + 1
    /\ UNCHANGED <<state, brokerVars, executorVars, queueVars>>

\* The fragment that completes a PDU of the given size, within the receive
\* window; handling it leaves the output side as o and may have failed, and
\* the window is given back before the call returns either way.
ReceivePdu(f, size, o, failed) ==
    /\ FrameArrives /\ Receiving
    /\ state = "Running"
    /\ f.total <= negotiatedMaxPdu
    /\ Reassembler!PushLast(f)
    /\ f.total = size
    /\ Broker!ReserveReceiveResult(size, rxBytes, rxPdus) = "Ok"
    /\ nextRx' = nextRx + 1
    /\ SetOutput(o)
    /\ state' = IF failed THEN "Failed" ELSE state
    /\ UNCHANGED <<handshakeVars, rxVars>>

\* handle_pdu(): USB/IP control messages are passed through.
ReceiveOpaque(f, size) ==
    /\ ReceivePdu(f, size, Notify(Output, <<Event("OpaquePdu")>>), FALSE)
    /\ UNCHANGED executorVars

\* handle_pdu(): requests go to the executor, whose events are then handled.
\* Replies held back by the window are tried again, whatever the request was.
ReceiveRequest(f, size, notices, replies) ==
    LET o == AfterExecutor(Output, notices, replies)
    IN  ReceivePdu(f, size, o, DrainError(o))

\* An OUT request carries its data.
SubmitSize(r) == HeaderSize + (IF r.dir = "Out" THEN r.len ELSE 0)

ReceiveSubmit(f, r) ==
    /\ ReceiveRequest(f, SubmitSize(r), <<TokenEvent("Submit", nextToken)>>, <<>>)
    /\ Executor!AcceptSubmit(r)

ReceiveUnlink(f, unlink, target) ==
    /\ Executor!AcceptUnlink(unlink, target)
    /\ ReceiveRequest(f, HeaderSize,
                      <<TokenEvent("Cancel", pendingBySequence[target].token)>>, <<>>)

\* Replies with their sizes; only a completed RET_SUBMIT may carry data.
Sized(replies, submitSize) ==
    [i \in DOMAIN replies |->
        [kind |-> replies[i].kind, token |-> replies[i].token,
         size |-> IF replies[i].kind = "RetSubmit" THEN submitSize ELSE HeaderSize]]

ReceiveUnlinkOfUnknown(f, unlink, target) ==
    /\ ~Executor!IsPending(target)
    /\ ReceiveRequest(f, HeaderSize, <<>>,
                      Sized(<<Executor!NoEntryReply(unlink)>>, HeaderSize))
    /\ UNCHANGED executorVars

-----------------------------------------------------------------------------
(* Calls of the owner and of the platform in a running session.            *)

\* send_pdu() when it succeeds; refused calls leave no trace.  As a variant, the
\* PDU ids in flight are not looked at.
SendPduAgain(id, size) ==
    /\ nextTx <= MaxFrames
    /\ SendResult(NoId, size, Output) = "Ok"
    /\ SetOutput(Sent(Output, id, size))
    /\ UNCHANGED <<state, handshakeVars, rxVars, executorVars,
                   reassemblerVars, nextRx>>
SendPdu(id, size) ==
    /\ nextTx <= MaxFrames
    /\ SendResult(id, size, Output) = "Ok"
    /\ SetOutput(Sent(Output, id, size))
    /\ UNCHANGED <<state, handshakeVars, rxVars, executorVars,
                   reassemblerVars, nextRx>>

\* The owner acknowledges a PDU once it has taken and written all its frames.
Written(id) == \A i \in DOMAIN events : ~(IsFrame(events[i]) /\ events[i].id = id)

\* ack_output(): the reservation goes first.  If the broker still counts it,
\* its credit returns and waiting replies use it; otherwise (the broker is
\* closed) the call ends in an error.  As a variant, the waiting replies are not
\* tried again.
AckOutputWithoutDrain(id) ==
    LET size == outputReservations[id]
        rest == [Output EXCEPT !.reservations = Executor!Remove(@, {id})]
    IN  /\ id \in DOMAIN outputReservations /\ Written(id)
        /\ SetOutput(IF Broker!CanConsume(size, txBytes, txPdus)
                     THEN [rest EXCEPT !.bytes = @ - size, !.pdus = @ - 1]
                     ELSE rest)
        /\ UNCHANGED <<state, handshakeVars, rxVars,
                       executorVars, reassemblerVars, nextRx>>
AckOutput(id) ==
    LET size == outputReservations[id]
        rest == [Output EXCEPT !.reservations = Executor!Remove(@, {id})]
    IN  /\ id \in DOMAIN outputReservations /\ Written(id)
        /\ SetOutput(IF Broker!CanConsume(size, txBytes, txPdus)
                     THEN Drained([rest EXCEPT !.bytes = @ - size, !.pdus = @ - 1])
                     ELSE rest)
        /\ UNCHANGED <<state, handshakeVars, rxVars,
                       executorVars, reassemblerVars, nextRx>>

\* The owner, or the platform behind it, has been told of a token.
Told(kind, t) ==
    \A i \in DOMAIN events : ~(events[i].kind = kind /\ events[i].token = t)

\* The executor's replies to a call of the platform are queued and drained;
\* an error of the drain is returned and leaves the session running.
PlatformCall(replies) ==
    /\ state = "Running"
    /\ SetOutput(AfterExecutor(Output, <<>>, replies))
    /\ UNCHANGED <<state, handshakeVars, rxVars,
                   reassemblerVars, nextRx>>

Complete(t, actual) ==
    /\ Told("Submit", t)
    /\ \E dataLength \in Executor!ByteCounts : Executor!Complete(t, actual, dataLength)
    /\ PlatformCall(Sized(Executor!CompletionReplies(t),
                          Executor!SubmitReplySize(t, actual)))

CompleteCancel(t) ==
    /\ Told("Submit", t) /\ Told("Cancel", t)
    /\ Executor!CompleteCancel(t)
    /\ PlatformCall(Sized(Executor!CancelReplies(t), HeaderSize))

\* A completion of a retired token is ignored, but still tries the replies.
CompleteLate(t) ==
    /\ t \in retiredTokens \ Executor!LiveTokens
    /\ PlatformCall(<<>>)
    /\ UNCHANGED executorVars

\* The owner takes the oldest event.
NextEvent ==
    /\ events # <<>>
    /\ events' = Tail(events)
    /\ UNCHANGED <<state, brokerVars, executorVars,
                   reassemblerVars, nextRx, nextTx, nextInternalId,
                   outputReservations, pendingReplies, framed>>

-----------------------------------------------------------------------------
(* close().  It does nothing in a session that has ended.                  *)

\* The CLOSE frame goes out, the broker closes, the owner is told.  As
\* variants, the replies held back are discarded, or the peer is not told.
TerminateQuietly(o) ==
    /\ SetOutput(Notify([o EXCEPT !.bytes = 0, !.pdus = 0], <<Event("Closed")>>))
    /\ Broker!CloseBroker
    /\ Reassembler!Clear
    /\ state' = "Closed"
    /\ UNCHANGED nextRx
TerminateDiscarding(o) ==
    /\ SetOutput(Notify([Control(o, "Close") EXCEPT !.bytes = 0, !.pdus = 0, !.replies = <<>>],
                        <<Event("Closed")>>))
    /\ Broker!CloseBroker
    /\ Reassembler!Clear
    /\ state' = "Closed"
    /\ UNCHANGED nextRx
Terminate(o) ==
    /\ SetOutput(Notify([Control(o, "Close") EXCEPT !.bytes = 0, !.pdus = 0],
                        <<Event("Closed")>>))
    /\ Broker!CloseBroker
    /\ Reassembler!Clear
    /\ state' = "Closed"
    /\ UNCHANGED nextRx

\* A running session cancels its requests first.  If draining their replies
\* ends in an error, close() returns it: the requests are gone, the session
\* still runs and no CLOSE was sent.
CloseRunning(order) ==
    LET replies == FlattenSeq([i \in DOMAIN order |-> Executor!CloseReplies(order[i])])
        o == AfterExecutor(Output, <<>>, Sized(replies, HeaderSize))
    IN  /\ state = "Running"
        /\ Executor!CloseExecutor(order)
        /\ IF DrainError(o)
           THEN /\ SetOutput(o)
                /\ UNCHANGED <<state, handshakeVars, rxVars,
                               reassemblerVars, nextRx>>
           ELSE Terminate(o)

\* As a variant, an ended session can be closed again.
CloseUnopenedAgain ==
    /\ state # "Running"
    /\ brokerState # "Failed"
    /\ nextTx <= MaxFrames
    /\ Terminate(Output)
    /\ UNCHANGED executorVars
CloseUnopened ==
    /\ state \notin {"Running", "Closed", "Failed"}
    /\ brokerState # "Failed"
    /\ Terminate(Output)
    /\ UNCHANGED executorVars

\* The broker of a refused HELLO cannot be closed: the CLOSE frame is queued,
\* the call ends in an error, and the session stays in Closing.
CloseRefused ==
    /\ state \notin {"Running", "Closed", "Failed"}
    /\ brokerState = "Failed"
    /\ nextTx <= MaxFrames
    /\ SetOutput(Control(Output, "Close"))
    /\ state' = "Closing"
    /\ UNCHANGED <<handshakeVars, rxVars, executorVars,
                   reassemblerVars, nextRx>>

-----------------------------------------------------------------------------
OwnerCall ==
    \/ Start \/ SendCapability \/ SendOpen \/ SendOpenOk \/ SendOpenReject
    \/ \E id \in DOMAIN outputReservations : AckOutput(id)
    \/ \E order \in Executor!Orders(Executor!FoundTokens) : CloseRunning(order)
    \/ CloseUnopened \/ CloseRefused

OwnerStep ==
    \/ OwnerCall
    \/ \E id \in OwnPduIds, size \in OpaqueSizes : SendPdu(id, size)
    \/ NextEvent

PlatformStep ==
    \/ \E t \in Executor!LiveTokens, actual \in Executor!ByteCounts : Complete(t, actual)
    \/ \E t \in Executor!LiveTokens : CompleteCancel(t)
    \/ \E t \in retiredTokens : CompleteLate(t)

PeerStep ==
    \/ \E h \in PeerHellos : AcceptHello(h)
    \/ RejectFrame \/ RefuseFrame
    \/ ReceiveCapability \/ ReceiveOpen \/ ReceiveOpenOk \/ ReceiveOpenReject
    \/ ReceiveClose
    \/ \E f \in PeerFragments :
          \/ ReceiveFragment(f)
          \/ \E size \in OpaqueSizes : ReceiveOpaque(f, size)
          \/ \E r \in Executor!SubmitRequest : ReceiveSubmit(f, r)
          \/ \E unlink, target \in SeqNums :
                ReceiveUnlink(f, unlink, target) \/ ReceiveUnlinkOfUnknown(f, unlink, target)

Next == OwnerStep \/ PlatformStep \/ PeerStep

Spec == Init /\ [][Next]_vars

\* The owner keeps taking events and acknowledging what it has written, and
\* the platform completes every request it was told of.  The engine has no
\* thread: nothing else makes it move.
Fairness ==
    /\ WF_vars(NextEvent)
    /\ WF_vars(\E id \in DOMAIN outputReservations : AckOutput(id))
    /\ \A t \in Tokens : WF_vars(\E actual \in Executor!ByteCounts : Complete(t, actual))

FairSpec == Spec /\ Fairness

-----------------------------------------------------------------------------
\* The bytes of the PDUs that the owner has still to acknowledge.
ReservedBytes ==
    UNION {{id} \X (1 .. outputReservations[id]) : id \in DOMAIN outputReservations}

\* The places of frames, and of frames of replies, among the events that wait.
FramesAt == {i \in DOMAIN events : IsFrame(events[i])}
ReplyFramesAt ==
    {i \in FramesAt : events[i].id \notin OwnPduIds /\ events[i].id >= FirstInternalId}

LiveTokens == Executor!LiveTokens

\* The session's own fields hold values of their types.
TypeOK ==
    /\ state \in States
    /\ Broker!BrokerTypeOK
    /\ nextRx \in Nat \ {0} /\ nextTx \in Nat \ {0}
    /\ nextInternalId \in Nat /\ nextInternalId >= FirstInternalId
    /\ \A id \in DOMAIN outputReservations :
          outputReservations[id] \in 1 .. MaxReassembly
    /\ \A i \in DOMAIN pendingReplies : pendingReplies[i].size \in Nat \ {0}
    /\ framed \in [Tokens -> Nat]

\* Credit and reservations tell the same story: while the session is
\* established, the broker counts exactly the PDUs and bytes that the owner
\* has still to acknowledge, so no credit leaks and none is returned twice,
\* and the window is kept.
CreditMatchesReservations ==
    /\ brokerState = "Established" =>
          /\ txPdus = Cardinality(DOMAIN outputReservations)
          /\ txBytes = Cardinality(ReservedBytes)
    /\ Broker!WithinWindows

\* The frames waiting for the owner carry consecutive sequence numbers that
\* end just below the next one, whatever mix of control frames, owner PDUs and
\* drained replies made them.
SequencesContiguous ==
    /\ \A i, j \in FramesAt :
          i < j /\ (\A k \in FramesAt : k <= i \/ j <= k)
              => events[j].seq = events[i].seq + 1
    /\ \A i \in FramesAt :
          (\A k \in FramesAt : k <= i) => events[i].seq = nextTx - 1

\* Frames of a PDU are never torn apart: what follows a frame marked MORE, with
\* no other event between, is the next frame of the same PDU.
PdusContiguous ==
    \A i \in FramesAt :
        events[i].more => i + 1 \in FramesAt /\ events[i + 1].id = events[i].id

\* Replies leave in the order the executor gave them: PDU ids grow along the
\* frames of replies and on through the replies still held back.
RepliesInOrder ==
    /\ \A i, j \in ReplyFramesAt : i < j => events[i].id <= events[j].id
    /\ \A i \in DOMAIN pendingReplies :
          pendingReplies[i].id = nextInternalId - Len(pendingReplies) + i - 1
    /\ pendingReplies # <<>> =>
          \A i \in ReplyFramesAt : events[i].id < Head(pendingReplies).id

\* Every admitted request is in exactly one place: live in the executor, or
\* with its RET_SUBMIT held back, or with its RET_SUBMIT turned into frames
\* once, through back-pressure, cancellation, errors and close.
AnsweredExactlyOnce ==
    \A t \in Tokens :
        framed[t] + Cardinality({i \in DOMAIN pendingReplies :
                                   pendingReplies[i].kind = "RetSubmit"
                                   /\ pendingReplies[i].token = t})
            = (IF t < nextToken /\ t \notin LiveTokens THEN 1 ELSE 0)

\* No wake-up is lost: while the session runs, a reply is held back only if
\* sending it now would be refused, by the window, by a limit agreed with the
\* peer, or because the owner uses its PDU id.
NoLostWakeup ==
    state = "Running" /\ pendingReplies # <<>> => FrontResult(Output) # "Ok"

\* The states after the handshake are those of an established broker, so no
\* frame is taken or sent on behalf of a session whose HELLO was not accepted.
OpenNeedsHandshake ==
    state \in {"AwaitCapability", "AwaitOpen", "AwaitOpenReply", "Running"}
        => brokerState = "Established"

\* A session that has ended says nothing more: once it is closed or failed no
\* frame is made, no request admitted, and no state but Failed is entered.
SilentOnceEnded ==
    [][(state \in {"Closed", "Failed"}) =>
         /\ state' \in {state, "Failed"}
         /\ UNCHANGED <<nextTx, nextToken, pendingReplies, framed>>]_vars

\* A refused HELLO never lets a later one in: after the broker has failed, the
\* only frames the session can still make are CLOSE frames.
RefusedHelloIsFinal ==
    [][brokerState = "Failed" =>
         /\ brokerState' = "Failed"
         /\ nextTx' # nextTx => Last(events').type = "Close"]_vars

\* The reply at the head can never be sent: it is larger than the peer's limit
\* or than the whole byte window.
Stuck ==
    /\ pendingReplies # <<>>
    /\ Head(pendingReplies).size > Min({negotiatedMaxPdu, TxWindowBytes})

\* A request the platform was given is answered on the wire, unless the session
\* stops running: with an owner that acknowledges what it writes, a reply is
\* held back for ever only at or behind one that no window can ever let through.
RequestsAnswered ==
    \A t \in Tokens : t \in LiveTokens ~> framed[t] > 0 \/ state # "Running" \/ Stuck

-----------------------------------------------------------------------------
(* What the contract or a test says of the session and the code does not   *)
(* do; each has a run that shows how.                                      *)

\* Back-pressure does not turn into an error (the unit test
\* executor_replies_survive_output_backpressure): while the session runs, a
\* reply is held back only for the send window.
RepliesWaitOnlyForTheWindow ==
    state = "Running" /\ pendingReplies # <<>> =>
        FrontResult(Output) = "WindowExhausted"

\* Shutdown retires the active requests (contract, section 10), also when it
\* is the peer that sends CLOSE.
ClosedSessionHasNoRequests == state = "Closed" => LiveTokens = {}

\* close() sends the cancellations before the CLOSE frame (the unit test
\* close_emits_cancellation_before_close_frame): once CLOSE is queued, no reply
\* is left behind it.
CancellationsPrecedeClose ==
    (\E i \in DOMAIN events : IsFrame(events[i]) /\ events[i].type = "Close")
        => pendingReplies = <<>>
=============================================================================
