----------------------------- MODULE WireSession -----------------------------
(***************************************************************************)
(* The wire session (WireSession of src/src/wire.rs): a passive checker    *)
(* that numbers the frames of one stream and follows the conversation they *)
(* make, from CAPABILITY to CLOSE.                                         *)
(*                                                                         *)
(* A frame is its type, its number and whether it is sound: its header and *)
(* payload are well formed, and every token in them is the session's.      *)
(***************************************************************************)
EXTENDS Integers, Sequences, SequencesExt

CONSTANT MaxSequence        \* the largest sequence number, u64::MAX
ASSUME WireAssumption == MaxSequence \in Nat /\ MaxSequence > 2

VARIABLES
    wirePhase,      \* WireSession::phase
    wireRx, wireTx, \* next_rx_sequence, next_tx_sequence
    accepted        \* history: the frames accepted

wireVars == <<wirePhase, wireRx, wireTx, accepted>>

MessageTypes == {"Capability", "Open", "OpenOk", "OpenReject", "UsbIpData", "Close"}
WireFrame == [type : MessageTypes, seq : 1 .. MaxSequence - 1, sound : BOOLEAN]

WireInit ==
    wirePhase = "AwaitCapability" /\ wireRx = 1 /\ wireTx = 1 /\ accepted = <<>>

\* next_header(): a number is used up by every header that is made; the last
\* number is never given.  A refused header uses none.
NextHeader ==
    /\ wireTx # MaxSequence
    /\ wireTx' = wireTx + 1
    /\ UNCHANGED <<wirePhase, wireRx, accepted>>

\* The phase that follows the one at hand when a frame of the type comes.  As a
\* variant, a rejected opening runs.
PhaseAfterReject(phase, type) ==
    IF phase = "AwaitCapability" /\ type = "Capability" THEN "AwaitOpen"
    ELSE IF phase = "AwaitOpen" /\ type = "Open" THEN "AwaitOpenReply"
    ELSE IF phase = "AwaitOpenReply" /\ type \in {"OpenOk", "OpenReject"} THEN "Running"
    ELSE IF phase = "Running" /\ type = "UsbIpData" THEN "Running"
    ELSE IF phase \notin {"Closed", "Failed"} /\ type = "Close" THEN "Closed"
    ELSE "Failed"
PhaseAfter(phase, type) ==
    IF phase = "AwaitCapability" /\ type = "Capability" THEN "AwaitOpen"
    ELSE IF phase = "AwaitOpen" /\ type = "Open" THEN "AwaitOpenReply"
    ELSE IF phase = "AwaitOpenReply" /\ type = "OpenOk" THEN "Running"
    ELSE IF phase = "AwaitOpenReply" /\ type = "OpenReject" THEN "Closed"
    ELSE IF phase = "Running" /\ type = "UsbIpData" THEN "Running"
    ELSE IF phase \notin {"Closed", "Failed"} /\ type = "Close" THEN "Closed"
    ELSE "Failed"

\* The number after the last but one is refused as well, once the frame has
\* been looked at.
CanAccept(f) ==
    /\ f.sound
    /\ f.seq = wireRx
    /\ PhaseAfter(wirePhase, f.type) # "Failed"
    /\ wireRx + 1 # MaxSequence

\* accept(): any error fails the session, also one that had ended.
AcceptWireFrame(f) ==
    IF CanAccept(f)
    THEN /\ wirePhase' = PhaseAfter(wirePhase, f.type)
         /\ wireRx' = wireRx + 1
         /\ accepted' = Append(accepted, f)
         /\ UNCHANGED wireTx
    ELSE /\ wirePhase' = "Failed"
         /\ UNCHANGED <<wireRx, wireTx, accepted>>

WireNext == NextHeader \/ \E f \in WireFrame : AcceptWireFrame(f)

-----------------------------------------------------------------------------
(* The conversations of the contract, section 6.2: CAPABILITY, OPEN, then  *)
(* one of OPEN_OK and OPEN_REJECT; USB/IP data only after OPEN_OK; CLOSE   *)
(* last.                                                                   *)

Opening == <<"Capability", "Open">>
Legal(types) ==
    LET closed == types # <<>> /\ Last(types) = "Close"
        talk == IF closed THEN Front(types) ELSE types
        data == SubSeq(talk, 4, Len(talk))
    IN  \/ IsPrefix(talk, Opening)
        \/ talk = Append(Opening, "OpenReject") /\ ~closed
        \/ /\ IsPrefix(Append(Opening, "OpenOk"), talk)
           /\ \A i \in DOMAIN data : data[i] = "UsbIpData"

\* What the session has accepted, whatever else was offered to it in between,
\* is a legal conversation in consecutive numbers; nothing follows what ends it.
AcceptedIsLegal ==
    /\ Legal([i \in DOMAIN accepted |-> accepted[i].type])
    /\ \A i \in DOMAIN accepted : accepted[i].seq = i /\ accepted[i].sound
    /\ wireRx = Len(accepted) + 1
=============================================================================
