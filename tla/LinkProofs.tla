----------------------------- MODULE LinkProofs -----------------------------
(***************************************************************************)
(* What module Link states about two joined engines, proved for every set  *)
(* of PDUs, window, limit and number of messages on their way.             *)
(***************************************************************************)
EXTENDS Link, EndpointProofs

\* The importer is an endpoint as its module assumes: its configuration is the
\* exporter's but for the role, and the PDUs of the two sides change places.
LEMMA ImporterConfig ==
    /\ "Importer" \in {"Exporter", "Importer"}
    /\ {MinPdu, MaxPdu, MaxInflight, MaxReassembly, MaxFragments, MaxTransferSize,
        TxWindowBytes, TxWindowPdus, RxWindowBytes, RxWindowPdus,
        HeaderSize, MaxFragmentSize, MaxToken, FirstInternalId} \subseteq Nat \ {0}
    /\ MaxReassembly <= MaxPdu
    /\ MaxTransferSize <= MaxReassembly - HeaderSize
    /\ PeerHellos \subseteq [decodes : BOOLEAN, identity : BOOLEAN,
                             maxPdu : Nat, maxInflight : Nat]
    /\ DOMAIN ImporterPdus \subseteq Nat \ {0} /\ OpaqueSizes \subseteq Nat
    /\ SeqNums \subseteq Nat \ {0} /\ Lengths \subseteq Nat
    /\ PeerHello \in [decodes : BOOLEAN, identity : BOOLEAN, maxPdu : Nat, maxInflight : Nat]
    /\ \A id \in DOMAIN ExporterPdus : ExporterPdus[id] \in Importer!Pdus
  <1>1. Importer!Pdus = Pdus
    BY DEF Pdus, Importer!Pdus, Executor!SubmitRequest, Importer!Executor!SubmitRequest,
           Executor!Directions, Importer!Executor!Directions
  <1>. QED
    BY <1>1, ConfigAssumption, EndpointAssumption, LinkAssumption

\* The bytes of a PDU are a natural number.
LEMMA PduSizeType ==
    ASSUME NEW pdu \in Pdus
    PROVE  PduSize(pdu) \in Nat /\ Importer!PduSize(pdu) \in Nat
  <1>1. HeaderSize \in Nat /\ Lengths \subseteq Nat
    BY ConfigAssumption
  <1>2. pdu.kind = "Submit" => pdu.request.len \in Nat
    BY <1>1 DEF Pdus, Executor!SubmitRequest
  <1>3. pdu.kind = "Opaque" => pdu.size \in Nat
    BY DEF Pdus
  <1>4. pdu.kind \in {"Opaque", "Submit", "Unlink"}
    BY DEF Pdus
  <1>. QED
    BY <1>1, <1>2, <1>3, <1>4 DEF PduSize, SubmitSize, Importer!PduSize, Importer!SubmitSize

-----------------------------------------------------------------------------
(* Each step of the link is a step of one engine.                          *)

\* What the importer's engine does in a step of the link.
ImporterStep ==
    \/ UNCHANGED importerVars
    \/ Importer!OwnerCall
    \/ \E id \in DOMAIN ImporterPdus : \E size \in Nat : Importer!SendPdu(id, size)
    \/ Importer!NextEvent
    \/ \E m : Importer!AcceptMessage(m)

\* A step of the link is such a step.
LEMMA LinkStepOfImporter ==
    ASSUME [LinkNext]_linkVars
    PROVE  ImporterStep
  <1>1. CASE ImporterCall
    <2>1. ASSUME NEW id \in DOMAIN ImporterPdus
          PROVE  PduSize(ImporterPdus[id]) \in Nat
      <3>1. ImporterPdus[id] \in Pdus
        BY EndpointAssumption, LinkAssumption
      <3>. QED
        BY <3>1, PduSizeType
    <2>. QED
      BY <1>1, <2>1 DEF ImporterCall, ImporterStep
  <1>2. CASE ImporterWrites
    BY <1>2 DEF ImporterWrites, ImporterStep
  <1>3. CASE ImporterReads
    BY <1>3 DEF ImporterReads, ImporterStep
  <1>4. CASE ExporterCall \/ ExporterWrites \/ ExporterReads
    BY <1>4 DEF ExporterCall, ExporterWrites, ExporterReads, ImporterStep
  <1>5. CASE UNCHANGED linkVars
    BY <1>5 DEF linkVars, ImporterStep
  <1>. QED
    BY <1>1, <1>2, <1>3, <1>4, <1>5 DEF LinkNext, Transmit

\* It keeps the engine's invariant.
LEMMA ImporterStepInv ==
    ASSUME Importer!Inv, ImporterStep
    PROVE  Importer!Inv'
  <1>1. CASE UNCHANGED importerVars
    <2>1. UNCHANGED Importer!vars
      BY <1>1 DEF importerVars, Importer!vars, Importer!brokerVars, Importer!handshakeVars,
                  Importer!rxVars, Importer!executorVars, Importer!reassemblerVars,
                  Importer!queueVars
    <2>. QED
      BY <2>1, Importer!StutterInv, ImporterConfig DEF Importer!StutterInv
  <1>2. CASE Importer!OwnerCall
    BY <1>2, Importer!OwnerCallInv, ImporterConfig DEF Importer!OwnerCallInv
  <1>3. CASE \E id \in DOMAIN ImporterPdus : \E size \in Nat : Importer!SendPdu(id, size)
    BY <1>3, Importer!SendPduInv, ImporterConfig DEF Importer!SendPduInv
  <1>4. CASE Importer!NextEvent
    BY <1>4, Importer!NextEventInv, ImporterConfig DEF Importer!NextEventInv
  <1>5. CASE \E m : Importer!AcceptMessage(m)
    BY <1>5, Importer!AcceptMessageInv, ImporterConfig DEF Importer!AcceptMessageInv
  <1>. QED
    BY <1>1, <1>2, <1>3, <1>4, <1>5 DEF ImporterStep

\* The importer's engine keeps the invariant of the session engine.
THEOREM ImporterInvariant == LinkSpec => []Importer!Inv
  <1>1. LinkInit => Importer!Inv
    BY Importer!InitInv, ImporterConfig DEF Importer!InitInv, LinkInit
  <1>2. Importer!Inv /\ [LinkNext]_linkVars => Importer!Inv'
    BY LinkStepOfImporter, ImporterStepInv
  <1>. QED
    BY <1>1, <1>2, PTL DEF LinkSpec

\* The importer's engine counts its credit, numbers its frames and opens as the
\* exporter's does, whatever the two owners and the streams do meanwhile.
THEOREM ImporterIsSafe == LinkSpec => []ImporterEngineSafe
  <1>1. ASSUME Importer!Inv
        PROVE  ImporterEngineSafe
    <2>1. Importer!CreditMatchesReservations
      BY <1>1, Importer!InvCredit, ImporterConfig DEF Importer!InvCredit
    <2>2. Importer!SequencesContiguous
      BY <1>1, Importer!InvNumbers, ImporterConfig DEF Importer!InvNumbers
    <2>3. Importer!OpenNeedsHandshake
      BY <1>1 DEF Importer!Inv
    <2>. QED
      BY <2>1, <2>2, <2>3 DEF ImporterEngineSafe
  <1>. QED
    BY <1>1, ImporterInvariant, PTL

\* An importer that has ended says nothing more, also when it was the exporter's
\* CLOSE, or a frame of its that was refused, that ended it.
THEOREM ImporterFallsSilent == LinkSpec => ImporterSilentOnceEnded
  <1>1. ASSUME Importer!Inv, importerState \in {"Closed", "Failed"}, ImporterStep
        PROVE  Importer!Silence
    <2>1. \A id, size : ~ Importer!SendPdu(id, size)
      BY <1>1, Importer!QuietOwner, ImporterConfig DEF Importer!QuietOwner
    <2>2. \A m : Importer!AcceptMessage(m) => Importer!RejectFrame
      BY <1>1, Importer!EndedTakesNothing, ImporterConfig DEF Importer!EndedTakesNothing
    <2>3. UNCHANGED importerVars => UNCHANGED Importer!vars
      BY DEF importerVars, Importer!vars, Importer!brokerVars, Importer!handshakeVars,
             Importer!rxVars, Importer!executorVars, Importer!reassemblerVars,
             Importer!queueVars
    <2>4. \/ Importer!OwnerCall \/ Importer!NextEvent \/ Importer!RejectFrame
          \/ UNCHANGED Importer!vars
      BY <1>1, <2>1, <2>2, <2>3 DEF ImporterStep
    <2>. QED
      BY <1>1, <2>4, Importer!SilentSteps, ImporterConfig DEF Importer!SilentSteps
  <1>2. Importer!Inv /\ [LinkNext]_linkVars
          => [(importerState \in {"Closed", "Failed"}) => Importer!Silence]_(Importer!vars)
    BY <1>1, LinkStepOfImporter
  <1>3. LinkSpec => [][(importerState \in {"Closed", "Failed"}) => Importer!Silence]_(Importer!vars)
    BY <1>2, ImporterInvariant, PTL DEF LinkSpec
  <1>. QED
    BY <1>3 DEF ImporterSilentOnceEnded, Importer!SilentOnceEnded, Importer!Silence

-----------------------------------------------------------------------------
(* The two streams.                                                        *)

\* A queue is its head and its tail.
LEMMA HeadAndTail ==
    ASSUME NEW queue \in Seq(Events), queue # <<>>
    PROVE  <<Head(queue)>> \in Seq(Events) /\ <<Head(queue)>> \o Tail(queue) = queue
  <1>. DEFINE first == <<Head(queue)>>
              rest == Tail(queue)
              whole == first \o rest
  <1>1. /\ Head(queue) \in Events /\ rest \in Seq(Events) /\ Head(queue) = queue[1]
        /\ Len(queue) \in Nat /\ Len(rest) = Len(queue) - 1
        /\ \A i \in 1 .. Len(rest) : rest[i] = queue[i + 1]
        /\ DOMAIN queue = 1 .. Len(queue) /\ Len(queue) # 0
    BY HeadTailProperties, LenProperties, EmptySeq
  <1>2. first \in Seq(Events) /\ Len(first) = 1 /\ first[1] = queue[1]
    BY <1>1
  <1>. HIDE DEF first, rest
  <1>3. /\ whole \in Seq(Events)
        /\ DOMAIN whole = 1 .. 1 + Len(rest)
        /\ \A i \in 1 .. 1 : whole[i] = first[i]
        /\ \A i \in 1 .. Len(rest) : whole[1 + i] = rest[i]
    <2>1. /\ whole \in Seq(Events)
          /\ DOMAIN whole = 1 .. Len(first) + Len(rest)
          /\ \A i \in 1 .. Len(first) : whole[i] = first[i]
          /\ \A i \in 1 .. Len(rest) : whole[Len(first) + i] = rest[i]
      BY <1>1, <1>2, ConcatParts
    <2>. QED
      BY <1>2, <2>1
  <1>. HIDE DEF whole
  <1>4. DOMAIN whole = DOMAIN queue
    BY <1>1, <1>3
  <1>5. ASSUME NEW i \in DOMAIN queue
        PROVE  whole[i] = queue[i]
    <2>1. CASE i = 1
      BY <1>2, <1>3, <2>1
    <2>2. CASE i # 1
      <3>1. i - 1 \in 1 .. Len(rest) /\ 1 + (i - 1) = i /\ (i - 1) + 1 = i
        BY <1>1, <2>2
      <3>. QED
        BY <1>1, <1>3, <3>1
    <2>. QED
      BY <2>1, <2>2
  <1>6. whole = [i \in DOMAIN whole |-> whole[i]] /\ queue = [i \in DOMAIN queue |-> queue[i]]
    BY <1>3, LenProperties
  <1>7. whole = queue
    BY <1>4, <1>5, <1>6
  <1>. QED
    BY <1>2, <1>7 DEF first, rest, whole

\* What an owner writes, and what it keeps to itself, leaves the stream as it is.
LEMMA WritingKeepsStream ==
    ASSUME NEW transit \in Seq(Events), NEW queue \in Seq(Events), queue # <<>>,
           NEW from, NEW to, Stream(transit \o queue, from, to)
    PROVE  /\ transit \o Outgoing(queue) \in Seq(Events)
           /\ Stream((transit \o Outgoing(queue)) \o Tail(queue), from, to)
  <1>. DEFINE first == <<Head(queue)>>
  <1>1. Head(queue) \in Events /\ Tail(queue) \in Seq(Events)
    BY HeadTailProperties
  <1>2. first \in Seq(Events) /\ first \o Tail(queue) = queue
    BY <1>1, HeadAndTail
  <1>. HIDE DEF first
  <1>3. CASE IsOutput(Head(queue))
    <2>1. Outgoing(queue) = first
      BY <1>3 DEF Outgoing, first
    <2>2. (transit \o first) \o Tail(queue) = transit \o (first \o Tail(queue))
      BY <1>1, <1>2, EventsAssociative
    <2>. QED
      BY <1>2, <2>1, <2>2, ConcatProperties
  <1>4. CASE ~ IsOutput(Head(queue))
    <2>1. Outgoing(queue) = <<>> /\ ~ IsFrame(Head(queue))
      BY <1>4 DEF Outgoing, IsOutput, IsFrame
    <2>2. transit \o <<>> = transit
      BY ConcatEmptySeq
    <2>. QED
      BY <2>1, <2>2, DropNotice
  <1>. QED
    BY <1>3, <1>4

\* A message that is taken leaves the rest: one frame less, if it is a frame.
LEMMA ReadingKeepsStream ==
    ASSUME NEW transit \in Seq(Events), transit # <<>>, NEW queue \in Seq(Events),
           NEW from \in Nat, NEW to \in Nat, Stream(transit \o queue, from, to)
    PROVE  /\ Tail(transit) \in Seq(Events)
           /\ Stream(Tail(transit) \o queue,
                     IF IsFrame(Head(transit)) THEN from + 1 ELSE from, to)
  <1>. DEFINE whole == transit \o queue
  <1>1. /\ whole \in Seq(Events) /\ whole # <<>> /\ Head(whole) = Head(transit)
        /\ Tail(whole) = Tail(transit) \o queue /\ Tail(transit) \in Seq(Events)
    BY ConcatProperties, HeadTailProperties, EmptySeq, LenProperties
  <1>. HIDE DEF whole
  <1>2. Stream(whole, from, to)
    BY DEF whole
  <1>3. CASE IsFrame(Head(transit))
    <2>1. Stream(Tail(whole), from + 1, to)
      BY <1>1, <1>2, <1>3, DropFrame
    <2>. QED
      BY <1>1, <1>3, <2>1
  <1>4. CASE ~ IsFrame(Head(transit))
    <2>1. <<>> \in Seq(Events) /\ <<>> \o whole = whole
      BY <1>1, ConcatEmptySeq
    <2>2. <<>> \o Tail(whole) = Tail(whole)
      <3>1. Tail(whole) \in Seq(Events)
        BY <1>1, HeadTailProperties
      <3>. QED
        BY <3>1, ConcatEmptySeq
    <2>. QED
      BY <1>1, <1>2, <1>4, <2>1, <2>2, DropNotice
  <1>. QED
    BY <1>3, <1>4

\* What is on its way to a session that still expects messages, and what its
\* peer has queued for it, are the frames it has not taken.
ExporterStream ==
    Expecting => Stream(toExporter \o importerEvents, nextRx, importerNextTx)
ImporterStream ==
    Importer!Expecting => Stream(toImporter \o events, importerNextRx, nextTx)

LinkInv ==
    /\ Inv /\ Importer!Inv
    /\ toExporter \in Seq(Events) /\ toImporter \in Seq(Events)
    /\ ExporterStream /\ ImporterStream

\* The two engines speak of the same events and streams.
LEMMA SameWords ==
    /\ Importer!Events = Events
    /\ \A queue, from, to : Importer!Stream(queue, from, to) <=> Stream(queue, from, to)
    /\ \A m : Importer!IsFrame(m) <=> IsFrame(m)
  <1>1. Importer!Events = Events
    BY DEF Importer!Events, Importer!Frames, Importer!Notices, Importer!FrameTypes,
           Importer!NoticeKinds, Events, Frames, Notices, FrameTypes, NoticeKinds
  <1>2. \A queue, from, to : Importer!Stream(queue, from, to) <=> Stream(queue, from, to)
    BY DEF Importer!Stream, Stream, Importer!IsFrame, IsFrame
  <1>3. \A m : Importer!IsFrame(m) <=> IsFrame(m)
    BY DEF Importer!IsFrame, IsFrame
  <1>. QED
    BY <1>1, <1>2, <1>3

\* The queues and counters of the two engines have their types.
LEMMA LinkTypes ==
    ASSUME Inv, Importer!Inv
    PROVE  /\ events \in Seq(Events) /\ importerEvents \in Seq(Events)
           /\ nextRx \in Nat /\ importerNextRx \in Nat
           /\ nextTx \in Nat /\ importerNextTx \in Nat
  <1>1. events \in Seq(Events) /\ nextTx \in Nat /\ nextRx \in Nat
    BY InvFacts, OutputNow, FieldsOfOutput
  <1>2. /\ Importer!Output \in Importer!Outputs /\ importerNextRx \in Nat
    <2>1. Importer!Output \in Importer!Outputs /\ importerNextRx \in Nat \ {0}
      BY Importer!InvFacts, ImporterConfig DEF Importer!InvFacts
    <2>. QED
      BY <2>1
  <1>3. Importer!Output.events = importerEvents /\ Importer!Output.seq = importerNextTx
    BY DEF Importer!Output
  <1>4. importerEvents \in Seq(Importer!Events) /\ importerNextTx \in Nat
    BY <1>2, <1>3 DEF Importer!Outputs
  <1>. QED
    BY <1>1, <1>2, <1>4, SameWords

\* What an engine says in a step, in the words of the exporter.
Adds(queue, next, queueAfter, nextAfter, types) ==
    \E added \in Seq(Events) :
        /\ queueAfter = queue \o added
        /\ Stream(added, next, nextAfter)
        /\ \A i \in At(added) : added[i].type \in types

\* An engine that continues its stream adds to it.
LEMMA EnginesAdd ==
    /\ Inv' /\ Continues => nextTx' \in Nat /\ Adds(events, nextTx, events', nextTx', Sayable)
    /\ Importer!Inv' /\ Importer!Continues
         => /\ importerNextTx' \in Nat
            /\ Adds(importerEvents, importerNextTx, importerEvents', importerNextTx',
                    Importer!Sayable)
  <1>1. ASSUME Inv', Continues
        PROVE  nextTx' \in Nat /\ Adds(events, nextTx, events', nextTx', Sayable)
    <2>1. Output' \in Outputs /\ Output'.seq = nextTx'
      BY <1>1 DEF Inv, Sound, Output
    <2>2. nextTx' \in Nat
      BY <2>1 DEF Outputs
    <2>. QED
      BY <1>1, <2>2 DEF Continues, Grown, Output, Adds
  <1>2. ASSUME Importer!Inv', Importer!Continues
        PROVE  /\ importerNextTx' \in Nat
               /\ Adds(importerEvents, importerNextTx, importerEvents', importerNextTx',
                       Importer!Sayable)
    <2>1. Importer!Output' \in Importer!Outputs /\ Importer!Output'.seq = importerNextTx'
      BY <1>2 DEF Importer!Inv, Importer!Sound, Importer!Output
    <2>2. importerNextTx' \in Nat
      BY <2>1 DEF Importer!Outputs
    <2>3. \A queue : Importer!At(queue) = At(queue)
      BY DEF Importer!At, At, Importer!IsFrame, IsFrame
    <2>. QED
      BY <1>2, <2>2, <2>3, SameWords
         DEF Importer!Continues, Importer!Grown, Importer!Output, Adds
  <1>. QED
    BY <1>1, <1>2

\* What is added to a queue joins the stream that it is the end of.
LEMMA StreamGoesOn ==
    ASSUME NEW transit \in Seq(Events), NEW queue \in Seq(Events), NEW queueAfter, NEW types,
           NEW from \in Nat, NEW next \in Nat, NEW nextAfter \in Nat,
           Adds(queue, next, queueAfter, nextAfter, types),
           Stream(transit \o queue, from, next)
    PROVE  Stream(transit \o queueAfter, from, nextAfter)
  <1>1. PICK added \in Seq(Events) : queueAfter = queue \o added /\ Stream(added, next, nextAfter)
    BY DEF Adds
  <1>2. (transit \o queue) \o added = transit \o (queue \o added)
    BY EventsAssociative
  <1>3. transit \o queue \in Seq(Events)
    BY ConcatProperties
  <1>4. Stream((transit \o queue) \o added, from, nextAfter)
    BY <1>1, <1>3, StreamsJoin
  <1>. QED
    BY <1>1, <1>2, <1>4

\* So does what an engine says in a step.
LEMMA StreamsContinue ==
    ASSUME Inv, Importer!Inv, NEW transit \in Seq(Events), NEW from \in Nat
    PROVE  /\ Inv' /\ Continues /\ Stream(transit \o events, from, nextTx)
                 => Stream(transit \o events', from, nextTx')
           /\ (Importer!Inv' /\ Importer!Continues
                 /\ Stream(transit \o importerEvents, from, importerNextTx))
                 => Stream(transit \o importerEvents', from, importerNextTx')
  <1>1. /\ events \in Seq(Events) /\ nextTx \in Nat
        /\ importerEvents \in Seq(Events) /\ importerNextTx \in Nat
    BY LinkTypes
  <1>2. Inv' /\ Continues /\ Stream(transit \o events, from, nextTx)
          => Stream(transit \o events', from, nextTx')
    <2>. HAVE Inv' /\ Continues /\ Stream(transit \o events, from, nextTx)
    <2>1. nextTx' \in Nat /\ Adds(events, nextTx, events', nextTx', Sayable)
      BY EnginesAdd
    <2>. QED
      BY <1>1, <2>1, StreamGoesOn
  <1>3. (Importer!Inv' /\ Importer!Continues
           /\ Stream(transit \o importerEvents, from, importerNextTx))
          => Stream(transit \o importerEvents', from, importerNextTx')
    <2>. HAVE /\ Importer!Inv' /\ Importer!Continues
              /\ Stream(transit \o importerEvents, from, importerNextTx)
    <2>1. /\ importerNextTx' \in Nat
          /\ Adds(importerEvents, importerNextTx, importerEvents', importerNextTx',
                  Importer!Sayable)
      BY EnginesAdd
    <2>. QED
      BY <1>1, <2>1, StreamGoesOn
  <1>. QED
    BY <1>2, <1>3

\* A step of one engine leaves the other as it is.
LEMMA EnginesApart ==
    /\ UNCHANGED importerVars
         => /\ Importer!Inv => Importer!Inv'
            /\ Importer!Expecting' <=> Importer!Expecting
            /\ UNCHANGED <<importerNextRx, importerNextTx, importerEvents>>
    /\ UNCHANGED vars
         => /\ Inv => Inv'
            /\ Expecting' <=> Expecting
            /\ UNCHANGED <<nextRx, nextTx, events>>
  <1>1. ASSUME UNCHANGED importerVars
        PROVE  /\ Importer!Inv => Importer!Inv'
               /\ Importer!Expecting' <=> Importer!Expecting
               /\ UNCHANGED <<importerNextRx, importerNextTx, importerEvents>>
    <2>1. Importer!Inv => Importer!Inv'
      BY <1>1, ImporterStepInv DEF ImporterStep
    <2>2. /\ UNCHANGED <<importerNextRx, importerNextTx, importerEvents>>
          /\ UNCHANGED <<importerState, importerBrokerState, importerNonceConsumed>>
      BY <1>1 DEF importerVars
    <2>. QED
      BY <2>1, <2>2 DEF Importer!Expecting, Importer!Receiving, Importer!Broker!AwaitsHello
  <1>2. ASSUME UNCHANGED vars
        PROVE  /\ Inv => Inv'
               /\ Expecting' <=> Expecting
               /\ UNCHANGED <<nextRx, nextTx, events>>
    <2>1. /\ UNCHANGED <<nextRx, nextTx, events>>
          /\ UNCHANGED <<state, brokerState, nonceConsumed>>
      BY <1>2 DEF vars, brokerVars, handshakeVars, queueVars
    <2>. QED
      BY <1>2, <2>1, StutterInv DEF Expecting, Receiving, Broker!AwaitsHello
  <1>. QED
    BY <1>1, <1>2

\* What a call of the exporter's owner or platform does to its engine,
LEMMA ExporterCalls ==
    ASSUME LinkInv, ExporterCall
    PROVE  /\ Inv' /\ Continues /\ Awaits /\ Moves
           /\ UNCHANGED importerVars /\ UNCHANGED <<toImporter, toExporter, written, taken>>
  <1>1. Inv' /\ Continues /\ Awaits /\ Moves
    <2>1. CASE OwnerCall
      BY <2>1, OwnerCallInv, OwnerCallContinues, OwnerCallAwaits, OwnerCallMoves DEF LinkInv
    <2>2. CASE PlatformStep
      BY <2>2, PlatformInv, PlatformContinues, OtherCallsAwait, OtherCallsStay
         DEF LinkInv, Moves
    <2>3. ASSUME NEW id \in OwnPduIds, SendPdu(id, PduSize(ExporterPdus[id]))
          PROVE  Inv' /\ Continues /\ Awaits /\ Moves
      <3>1. PduSize(ExporterPdus[id]) \in Nat
        BY LinkAssumption, PduSizeType
      <3>2. Moves
        BY <2>3, OtherCallsStay DEF Moves
      <3>. QED
        BY <2>3, <3>1, <3>2, SendPduInv, SendPduContinues, OtherCallsAwait DEF LinkInv
    <2>. QED
      BY <2>1, <2>2, <2>3 DEF ExporterCall
  <1>. QED
    BY <1>1 DEF ExporterCall, streamVars

\* and one of the importer's owner.
LEMMA ImporterCalls ==
    ASSUME LinkInv, ImporterCall
    PROVE  /\ Importer!Inv' /\ Importer!Continues /\ Importer!Awaits
           /\ Importer!Moves /\ ~ Importer!Begins
           /\ UNCHANGED vars /\ UNCHANGED <<toImporter, toExporter, written, taken>>
  <1>1. ImporterStep
    BY LinkStepOfImporter DEF LinkNext
  <1>2. Importer!Inv'
    BY <1>1, ImporterStepInv DEF LinkInv
  <1>3. /\ Importer!Continues /\ Importer!Awaits /\ Importer!Moves /\ ~ Importer!Begins
    <2>1. CASE Importer!OwnerCall
      <3>1. Importer!Continues
        BY <2>1, Importer!OwnerCallContinues, ImporterConfig
           DEF Importer!OwnerCallContinues, LinkInv
      <3>2. Importer!Awaits
        BY <2>1, Importer!OwnerCallAwaits, ImporterConfig DEF Importer!OwnerCallAwaits
      <3>3. Importer!Moves /\ ~ Importer!Begins
        BY <2>1, Importer!OwnerCallMoves, ImporterConfig DEF Importer!OwnerCallMoves
      <3>. QED
        BY <3>1, <3>2, <3>3
    <2>2. ASSUME NEW id \in DOMAIN ImporterPdus,
                 Importer!SendPdu(id, PduSize(ImporterPdus[id]))
          PROVE  /\ Importer!Continues /\ Importer!Awaits
                 /\ Importer!Moves /\ ~ Importer!Begins
      <3>1. PduSize(ImporterPdus[id]) \in Nat
        <4>1. ImporterPdus[id] \in Pdus
          BY EndpointAssumption, LinkAssumption
        <4>. QED
          BY <4>1, PduSizeType
      <3>2. Importer!Continues
        BY <2>2, <3>1, Importer!SendPduContinues, ImporterConfig
           DEF Importer!SendPduContinues, LinkInv
      <3>3. Importer!Awaits
        BY <2>2, Importer!OtherCallsAwait, ImporterConfig DEF Importer!OtherCallsAwait
      <3>4. importerState' = importerState
        BY <2>2, Importer!OtherCallsStay, ImporterConfig DEF Importer!OtherCallsStay
      <3>. QED
        BY <3>2, <3>3, <3>4 DEF Importer!Moves, Importer!Begins
    <2>. QED
      BY <2>1, <2>2 DEF ImporterCall
  <1>. QED
    BY <1>2, <1>3 DEF ImporterCall, streamVars

\* So calls keep the streams intact: those of the exporter's owner or platform,
LEMMA ExporterCallInv ==
    ASSUME LinkInv, ExporterCall
    PROVE  LinkInv'
  <1>1. /\ Inv' /\ Continues /\ Awaits
        /\ UNCHANGED importerVars /\ UNCHANGED <<toImporter, toExporter>>
    BY ExporterCalls
  <1>2. ExporterStream'
    BY <1>1, EnginesApart DEF LinkInv, ExporterStream, Awaits
  <1>3. ImporterStream'
    BY <1>1, EnginesApart, LinkTypes, StreamsContinue DEF LinkInv, ImporterStream
  <1>. QED
    BY <1>1, <1>2, <1>3, EnginesApart DEF LinkInv

\* and those of the importer's owner.
LEMMA ImporterCallInv ==
    ASSUME LinkInv, ImporterCall
    PROVE  LinkInv'
  <1>1. /\ Importer!Inv' /\ Importer!Continues /\ Importer!Awaits
        /\ UNCHANGED vars /\ UNCHANGED <<toImporter, toExporter>>
    BY ImporterCalls
  <1>2. ImporterStream'
    BY <1>1, EnginesApart DEF LinkInv, ImporterStream, Importer!Awaits
  <1>3. ExporterStream'
    BY <1>1, EnginesApart, LinkTypes, StreamsContinue DEF LinkInv, ExporterStream
  <1>. QED
    BY <1>1, <1>2, <1>3, EnginesApart DEF LinkInv

\* The streams stay intact when the exporter's owner writes an event,
LEMMA ExporterWritesInv ==
    ASSUME LinkInv, ExporterWrites
    PROVE  LinkInv'
  <1>1. /\ NextEvent /\ events # <<>> /\ events' = Tail(events) /\ nextTx' = nextTx
        /\ toImporter' = toImporter \o Outgoing(events)
        /\ UNCHANGED importerVars /\ toExporter' = toExporter
    BY DEF ExporterWrites, NextEvent
  <1>2. Inv' /\ Awaits
    BY <1>1, NextEventInv, OtherCallsAwait DEF LinkInv
  <1>3. events \in Seq(Events)
    BY LinkTypes DEF LinkInv
  <1>4. ExporterStream'
    BY <1>1, <1>2, EnginesApart DEF LinkInv, ExporterStream, Awaits
  <1>5. toImporter' \in Seq(Events)
    <2>1. CASE IsOutput(Head(events))
      <3>1. <<Head(events)>> \in Seq(Events)
        BY <1>1, <1>3, HeadAndTail
      <3>. QED
        BY <1>1, <2>1, <3>1, ConcatProperties DEF LinkInv, Outgoing
    <2>2. CASE ~ IsOutput(Head(events))
      BY <1>1, <2>2, ConcatEmptySeq DEF LinkInv, Outgoing
    <2>. QED
      BY <2>1, <2>2
  <1>6. ImporterStream'
    <2>1. Stream(toImporter \o events, importerNextRx, nextTx)
            => Stream((toImporter \o Outgoing(events)) \o Tail(events), importerNextRx, nextTx)
      BY <1>1, <1>3, WritingKeepsStream DEF LinkInv
    <2>. QED
      BY <1>1, <2>1, EnginesApart DEF LinkInv, ImporterStream
  <1>. QED
    BY <1>1, <1>2, <1>4, <1>5, <1>6, EnginesApart DEF LinkInv

\* and when the importer's does;
LEMMA ImporterWritesInv ==
    ASSUME LinkInv, ImporterWrites
    PROVE  LinkInv'
  <1>1. /\ Importer!NextEvent /\ importerEvents # <<>>
        /\ importerEvents' = Tail(importerEvents) /\ importerNextTx' = importerNextTx
        /\ toExporter' = toExporter \o Outgoing(importerEvents)
        /\ UNCHANGED vars /\ toImporter' = toImporter
    BY DEF ImporterWrites, Importer!NextEvent
  <1>2. Importer!Inv'
    BY <1>1, ImporterStepInv DEF LinkInv, ImporterStep
  <1>3. Importer!Awaits
    BY <1>1, Importer!OtherCallsAwait, ImporterConfig DEF Importer!OtherCallsAwait
  <1>4. importerEvents \in Seq(Events)
    BY LinkTypes DEF LinkInv
  <1>5. ImporterStream'
    BY <1>1, <1>3, EnginesApart DEF LinkInv, ImporterStream, Importer!Awaits
  <1>6. toExporter' \in Seq(Events)
    <2>1. CASE IsOutput(Head(importerEvents))
      <3>1. <<Head(importerEvents)>> \in Seq(Events)
        BY <1>1, <1>4, HeadAndTail
      <3>. QED
        BY <1>1, <2>1, <3>1, ConcatProperties DEF LinkInv, Outgoing
    <2>2. CASE ~ IsOutput(Head(importerEvents))
      BY <1>1, <2>2, ConcatEmptySeq DEF LinkInv, Outgoing
    <2>. QED
      BY <2>1, <2>2
  <1>7. ExporterStream'
    <2>1. Stream(toExporter \o importerEvents, nextRx, importerNextTx)
            => Stream((toExporter \o Outgoing(importerEvents)) \o Tail(importerEvents),
                      nextRx, importerNextTx)
      BY <1>1, <1>4, WritingKeepsStream DEF LinkInv
    <2>. QED
      BY <1>1, <2>1, EnginesApart DEF LinkInv, ExporterStream
  <1>. QED
    BY <1>1, <1>2, <1>5, <1>6, <1>7, EnginesApart DEF LinkInv

\* and when the exporter's owner reads a message,
LEMMA ExporterReadsInv ==
    ASSUME LinkInv, ExporterReads
    PROVE  LinkInv'
  <1>. DEFINE m == Head(toExporter)
  <1>1. /\ toExporter # <<>> /\ AcceptMessage(m) /\ toExporter' = Tail(toExporter)
        /\ UNCHANGED importerVars /\ toImporter' = toImporter
    BY DEF ExporterReads
  <1>2. Inv' /\ Took(m) /\ Continues
    BY <1>1, AcceptMessageInv, MessageTaken DEF LinkInv
  <1>3. /\ importerEvents \in Seq(Events) /\ nextRx \in Nat /\ importerNextTx \in Nat
        /\ toExporter \in Seq(Events)
    BY LinkTypes DEF LinkInv
  <1>4. toExporter' \in Seq(Events)
    BY <1>1, <1>3, HeadTailProperties
  <1>5. ImporterStream'
    BY <1>1, <1>2, EnginesApart, LinkTypes, StreamsContinue DEF LinkInv, ImporterStream
  <1>6. ExporterStream'
    <2>1. Stream(toExporter \o importerEvents, nextRx, importerNextTx)
            => Stream(Tail(toExporter) \o importerEvents,
                      IF IsFrame(m) THEN nextRx + 1 ELSE nextRx, importerNextTx)
      BY <1>1, <1>3, ReadingKeepsStream
    <2>. HIDE DEF m
    <2>. QED
      BY <1>1, <1>2, <2>1, EnginesApart DEF LinkInv, ExporterStream, Took
  <1>. QED
    BY <1>1, <1>2, <1>4, <1>5, <1>6, EnginesApart DEF LinkInv

\* and when the importer's does.
LEMMA ImporterReadsInv ==
    ASSUME LinkInv, ImporterReads
    PROVE  LinkInv'
  <1>. DEFINE m == Head(toImporter)
  <1>1. /\ toImporter # <<>> /\ Importer!AcceptMessage(m) /\ toImporter' = Tail(toImporter)
        /\ UNCHANGED vars /\ toExporter' = toExporter
    BY DEF ImporterReads
  <1>2. Importer!Inv'
    BY <1>1, ImporterStepInv DEF LinkInv, ImporterStep
  <1>3. Importer!Took(m) /\ Importer!Continues
    BY <1>1, Importer!MessageTaken, ImporterConfig DEF Importer!MessageTaken, LinkInv
  <1>4. /\ events \in Seq(Events) /\ importerNextRx \in Nat /\ nextTx \in Nat
        /\ toImporter \in Seq(Events)
    BY LinkTypes DEF LinkInv
  <1>5. toImporter' \in Seq(Events)
    BY <1>1, <1>4, HeadTailProperties
  <1>6. ExporterStream'
    BY <1>1, <1>2, <1>3, EnginesApart, LinkTypes, StreamsContinue DEF LinkInv, ExporterStream
  <1>7. ImporterStream'
    <2>1. Stream(toImporter \o events, importerNextRx, nextTx)
            => Stream(Tail(toImporter) \o events,
                      IF IsFrame(m) THEN importerNextRx + 1 ELSE importerNextRx, nextTx)
      BY <1>1, <1>4, ReadingKeepsStream
    <2>2. Importer!IsFrame(m) <=> IsFrame(m)
      BY SameWords
    <2>. HIDE DEF m
    <2>. QED
      BY <1>1, <1>3, <2>1, <2>2, EnginesApart DEF LinkInv, ImporterStream, Importer!Took
  <1>. QED
    BY <1>1, <1>2, <1>5, <1>6, <1>7, EnginesApart DEF LinkInv

\* The streams are empty, and intact, at first.
LEMMA LinkInitInv ==
    ASSUME LinkInit
    PROVE  LinkInv
  <1>1. /\ Inv /\ Importer!Inv
    BY InitInv, Importer!InitInv, ImporterConfig DEF Importer!InitInv, LinkInit
  <1>2. /\ toExporter = <<>> /\ toImporter = <<>> /\ events = <<>> /\ importerEvents = <<>>
        /\ nextRx = 1 /\ nextTx = 1 /\ importerNextRx = 1 /\ importerNextTx = 1
    BY DEF LinkInit, Init, Importer!Init
  <1>3. <<>> \in Seq(Events) /\ <<>> \o <<>> = <<>>
    OBVIOUS
  <1>4. Stream(<<>>, 1, 1)
    BY DEF Stream
  <1>. QED
    BY <1>1, <1>2, <1>3, <1>4 DEF LinkInv, ExporterStream, ImporterStream

\* The two engines and their streams keep the invariant.
THEOREM LinkInvariant == LinkSpec => []LinkInv
  <1>1. LinkInit => LinkInv
    BY LinkInitInv
  <1>2. LinkInv /\ [LinkNext]_linkVars => LinkInv'
    <2>1. ASSUME LinkInv, UNCHANGED linkVars
          PROVE  LinkInv'
      <3>1. /\ UNCHANGED vars /\ UNCHANGED importerVars
            /\ toExporter' = toExporter /\ toImporter' = toImporter
        BY <2>1 DEF linkVars
      <3>. QED
        BY <2>1, <3>1, EnginesApart DEF LinkInv, ExporterStream, ImporterStream
    <2>. QED
      BY <2>1, ExporterCallInv, ImporterCallInv, ExporterWritesInv, ImporterWritesInv,
         ExporterReadsInv, ImporterReadsInv DEF LinkNext, Transmit
  <1>. QED
    BY <1>1, <1>2, PTL DEF LinkSpec

\* What is on its way to a session that receives, and what its peer has queued
\* for it, are the frames it has not taken, in their order and without a gap.
THEOREM StreamsStayIntact == LinkSpec => []StreamIntact
  <1>1. LinkInv => StreamIntact
    BY DEF LinkInv, ExporterStream, ImporterStream, StreamIntact, Expecting,
           Importer!Expecting
  <1>. QED
    BY <1>1, LinkInvariant, PTL

-----------------------------------------------------------------------------
(* The PDUs in a queue.                                                    *)

\* What is known of a PDU by the last of its frames.
Marks == {[id |-> e.id, size |-> e.total] : e \in Events}

\* A queue without frames of a type.
Without(queue, type) == \A i \in At(queue) : queue[i].type # type

\* A message tells of one PDU or of none,
LEMMA PduOfMessage ==
    ASSUME NEW m \in Events
    PROVE  PduOf(m) \in Seq(Marks)
  <1>1. [id |-> m.id, size |-> m.total] \in Marks
    BY DEF Marks
  <1>. HIDE DEF Marks
  <1>2. <<[id |-> m.id, size |-> m.total]>> \in Seq(Marks)
    BY <1>1
  <1>3. <<>> \in Seq(Marks)
    BY EmptySeq
  <1>. QED
    BY <1>2, <1>3 DEF PduOf

\* and so do the messages of a queue one by one.
LEMMA PdusOfMessages ==
    ASSUME NEW queue \in Seq(Events)
    PROVE  [i \in DOMAIN queue |-> PduOf(queue[i])] \in Seq(Seq(Marks))
  <1>1. Len(queue) \in Nat /\ DOMAIN queue = 1 .. Len(queue)
    BY LenProperties
  <1>2. \A i \in 1 .. Len(queue) : PduOf(queue[i]) \in Seq(Marks)
    BY ElementOfSeq, PduOfMessage
  <1>. QED
    BY <1>1, <1>2

\* The PDUs of two queues in a row are the one's and then the other's.
LEMMA PdusOfConcat ==
    ASSUME NEW front \in Seq(Events), NEW back \in Seq(Events)
    PROVE  /\ PdusOf(front \o back) = PdusOf(front) \o PdusOf(back)
           /\ PdusOf(front) \in Seq(Marks)
  <1>. DEFINE whole == front \o back
              n == Len(front)
              a == [i \in DOMAIN front |-> PduOf(front[i])]
              b == [i \in DOMAIN back |-> PduOf(back[i])]
              c == [i \in DOMAIN whole |-> PduOf(whole[i])]
  <1>1. /\ n \in Nat /\ Len(back) \in Nat
        /\ DOMAIN front = 1 .. n /\ DOMAIN back = 1 .. Len(back)
        /\ DOMAIN whole = 1 .. n + Len(back)
        /\ \A i \in 1 .. n : whole[i] = front[i]
        /\ \A i \in 1 .. Len(back) : whole[n + i] = back[i]
    BY ConcatParts
  <1>2. a \in Seq(Seq(Marks)) /\ b \in Seq(Seq(Marks))
    BY PdusOfMessages
  <1>3. DOMAIN a = 1 .. n /\ DOMAIN b = 1 .. Len(back) /\ DOMAIN c = 1 .. n + Len(back)
    BY <1>1
  <1>4. Len(a) = n /\ Len(b) = Len(back)
    BY <1>1, <1>2, <1>3, LenProperties
  <1>. HIDE DEF whole
  <1>5. /\ \A i \in 1 .. n : c[i] = a[i]
        /\ \A i \in 1 .. Len(back) : c[n + i] = b[i]
    BY <1>1
  <1>6. c = [i \in DOMAIN c |-> c[i]]
    OBVIOUS
  <1>. HIDE DEF a, b, c
  <1>. DEFINE joined == a \o b
  <1>7. /\ joined \in Seq(Seq(Marks))
        /\ DOMAIN joined = 1 .. n + Len(back)
        /\ \A i \in 1 .. n : joined[i] = a[i]
        /\ \A i \in 1 .. Len(back) : joined[n + i] = b[i]
    <2>1. /\ joined \in Seq(Seq(Marks))
          /\ DOMAIN joined = 1 .. Len(a) + Len(b)
          /\ \A i \in 1 .. Len(a) : joined[i] = a[i]
          /\ \A i \in 1 .. Len(b) : joined[Len(a) + i] = b[i]
      BY <1>2, ConcatParts
    <2>. HIDE DEF joined
    <2>. QED
      BY <1>4, <2>1
  <1>8. joined = [i \in DOMAIN joined |-> joined[i]]
    BY <1>7, LenProperties
  <1>. HIDE DEF joined, n
  <1>9. ASSUME NEW i \in 1 .. n + Len(back)
        PROVE  c[i] = joined[i]
    <2>1. CASE i <= n
      BY <1>1, <1>5, <1>7, <2>1
    <2>2. CASE i > n
      <3>1. i - n \in 1 .. Len(back) /\ n + (i - n) = i
        BY <1>1, <2>2
      <3>. QED
        BY <1>5, <1>7, <3>1
    <2>. QED
      BY <1>1, <2>1, <2>2
  <1>10. c = joined
    BY <1>3, <1>6, <1>7, <1>8, <1>9
  <1>11. /\ FlattenSeq(joined) = FlattenSeq(a) \o FlattenSeq(b)
         /\ FlattenSeq(a) \in Seq(Marks)
    BY <1>2, FlattenConcat DEF joined
  <1>. QED
    BY <1>10, <1>11 DEF PdusOf, a, b, c, whole

\* A single message has its PDU,
LEMMA PdusOfOne ==
    ASSUME NEW m \in Events
    PROVE  PdusOf(<<m>>) = PduOf(m)
  <1>. DEFINE seqs == [i \in DOMAIN <<m>> |-> PduOf(<<m>>[i])]
  <1>1. <<m>> \in Seq(Events)
    OBVIOUS
  <1>2. seqs \in Seq(Seq(Marks))
    BY <1>1, PdusOfMessages
  <1>3. DOMAIN seqs = {1} /\ seqs[1] = PduOf(m)
    OBVIOUS
  <1>4. Len(seqs) = 1
    <2>1. Len(seqs) \in Nat /\ DOMAIN seqs = 1 .. Len(seqs)
      BY <1>2, LenProperties
    <2>. HIDE DEF seqs
    <2>2. 1 \in 1 .. Len(seqs) /\ Len(seqs) \in 1 .. Len(seqs)
      BY <1>3, <2>1
    <2>. QED
      BY <1>3, <2>1, <2>2
  <1>. HIDE DEF seqs
  <1>5. seqs # <<>>
    BY <1>4, EmptySeq
  <1>6. PICK parts \in [1 .. Len(seqs) -> Seq(Marks)] :
           parts[1] = seqs[1] /\ FlattenSeq(seqs) = parts[Len(seqs)]
    BY <1>2, <1>5, FlattenFacts
  <1>. QED
    BY <1>3, <1>4, <1>6 DEF PdusOf, seqs

\* and a queue without data frames has none.
LEMMA PdusOfNone ==
    ASSUME NEW queue \in Seq(Events), Without(queue, "UsbIpData")
    PROVE  PdusOf(queue) = <<>>
  <1>. DEFINE seqs == [i \in DOMAIN queue |-> PduOf(queue[i])]
  <1>1. Len(queue) \in Nat /\ DOMAIN queue = 1 .. Len(queue)
    BY LenProperties
  <1>2. \A i \in 1 .. Len(queue) : PduOf(queue[i]) = <<>>
    BY <1>1 DEF PduOf, Without, At
  <1>3. <<>> \in Seq({})
    BY EmptySeq
  <1>4. seqs \in Seq(Seq({}))
    <2>1. \A i \in 1 .. Len(queue) : PduOf(queue[i]) \in Seq({})
      BY <1>2, <1>3
    <2>. QED
      BY <1>1, <2>1
  <1>. HIDE DEF seqs
  <1>5. FlattenSeq(seqs) \in Seq({})
    BY <1>3, <1>4, FlattenConcat
  <1>6. ASSUME NEW s \in Seq({})
        PROVE  s = <<>>
    <2>1. s # <<>> => 1 \in 1 .. Len(s)
      BY EmptySeq
    <2>. QED
      BY <2>1, ElementOfSeq
  <1>. QED
    BY <1>5, <1>6 DEF PdusOf, seqs

\* A concatenation is without frames of a type just if both parts are.
LEMMA WithoutConcat ==
    ASSUME NEW front \in Seq(Events), NEW back \in Seq(Events), NEW type
    PROVE  Without(front \o back, type) <=> Without(front, type) /\ Without(back, type)
  <1>. DEFINE whole == front \o back
              n == Len(front)
  <1>1. /\ \A i \in 1 .. n : whole[i] = front[i]
        /\ \A i \in 1 .. Len(back) : whole[n + i] = back[i]
        /\ DOMAIN back = 1 .. Len(back)
    BY ConcatParts
  <1>2. /\ At(front) \subseteq 1 .. n
        /\ \A i \in 1 .. n : i \in At(whole) <=> i \in At(front)
        /\ \A i \in 1 .. Len(back) : n + i \in At(whole) <=> i \in At(back)
        /\ \A i \in At(whole) : i \in At(front) \/ \E j \in At(back) : i = n + j
    BY FramesOfConcat
  <1>3. At(back) \subseteq 1 .. Len(back)
    BY <1>1 DEF At
  <1>. HIDE DEF whole, n
  <1>4. Without(whole, type) => Without(front, type)
    BY <1>1, <1>2 DEF Without
  <1>5. Without(whole, type) => Without(back, type)
    BY <1>1, <1>2, <1>3 DEF Without
  <1>6. Without(front, type) /\ Without(back, type) => Without(whole, type)
    <2>. HAVE Without(front, type) /\ Without(back, type)
    <2>1. ASSUME NEW i \in At(whole)
          PROVE  whole[i].type # type
      <3>1. CASE i \in At(front)
        BY <1>1, <1>2, <3>1 DEF Without
      <3>2. ASSUME NEW j \in At(back), i = n + j
            PROVE  whole[i].type # type
        BY <1>1, <1>3, <3>2 DEF Without
      <3>. QED
        BY <1>2, <3>1, <3>2
    <2>. QED
      BY <2>1 DEF Without
  <1>. QED
    BY <1>4, <1>5, <1>6 DEF whole

\* What an engine says in a step adds PDUs to those it has sent, if any.
LEMMA PdusAdded ==
    ASSUME NEW queue \in Seq(Events), NEW queueAfter, NEW next, NEW nextAfter, NEW types,
           Adds(queue, next, queueAfter, nextAfter, types)
    PROVE  /\ queueAfter \in Seq(Events)
           /\ \E more \in Seq(Marks) : /\ PdusOf(queueAfter) = PdusOf(queue) \o more
                                       /\ "UsbIpData" \notin types => more = <<>>
           /\ \A type : type \notin types /\ Without(queue, type) => Without(queueAfter, type)
  <1>1. PICK added \in Seq(Events) : /\ queueAfter = queue \o added
                                     /\ \A i \in At(added) : added[i].type \in types
    BY DEF Adds
  <1>2. queueAfter \in Seq(Events)
    BY <1>1, ConcatProperties
  <1>3. \A type : type \notin types => Without(added, type)
    BY <1>1 DEF Without
  <1>4. <<>> \in Seq(Events)
    BY EmptySeq
  <1>5. PdusOf(queueAfter) = PdusOf(queue) \o PdusOf(added) /\ PdusOf(added) \in Seq(Marks)
    BY <1>1, <1>4, PdusOfConcat
  <1>6. "UsbIpData" \notin types => PdusOf(added) = <<>>
    BY <1>3, PdusOfNone
  <1>7. ASSUME NEW type, type \notin types, Without(queue, type)
        PROVE  Without(queueAfter, type)
    BY <1>1, <1>3, <1>7, WithoutConcat
  <1>. QED
    BY <1>2, <1>5, <1>6, <1>7

-----------------------------------------------------------------------------
(* The content of the streams.                                             *)

\* The histories are sequences of PDUs.
Histories ==
    /\ written \in [exporter : Seq(Marks), importer : Seq(Marks)]
    /\ taken \in [exporter : Seq(Marks), importer : Seq(Marks)]

\* What one side has written is what the other has taken, as long as it expects
\* more, and what is on its way.
ExporterContent ==
    Expecting => written.importer = taken.exporter \o PdusOf(toExporter)
ImporterContent ==
    Importer!Expecting => written.exporter = taken.importer \o PdusOf(toImporter)

\* An exporter that has not opened has not said that it has.
Granted ==
    Phase(state) = "Opening" => Without(toImporter, "OpenOk") /\ Without(events, "OpenOk")

ContentInv ==
    /\ LinkInv
    /\ Histories /\ ExporterContent /\ ImporterContent /\ Granted

\* A session that opens goes on opening only while it does not run, and says
\* nothing then that opens its peer.
LEMMA StillOpening ==
    ASSUME Inv, Inv', Continues, Moves, Granted, toImporter' = toImporter
    PROVE  Granted'
  <1>1. SUFFICES ASSUME Phase(state') = "Opening"
                 PROVE  Without(toImporter, "OpenOk") /\ Without(events', "OpenOk")
    BY DEF Granted
  <1>2. state # "Running" /\ state' # "Running" /\ Phase(state) = "Opening"
    BY <1>1 DEF Phase, Moves
  <1>3. "OpenOk" \notin Sayable
    BY <1>2 DEF Sayable
  <1>4. Without(toImporter, "OpenOk") /\ Without(events, "OpenOk")
    BY <1>2 DEF Granted
  <1>5. events \in Seq(Events) /\ Adds(events, nextTx, events', nextTx', Sayable)
    BY InvFacts, OutputNow, FieldsOfOutput, EnginesAdd
  <1>. QED
    BY <1>3, <1>4, <1>5, PdusAdded

\* Nothing of an idle engine changes.
LEMMA EnginesIdle ==
    /\ UNCHANGED importerVars => UNCHANGED <<importerState, importerEvents>>
    /\ UNCHANGED vars => UNCHANGED <<state, events>>
  BY DEF importerVars, vars, queueVars

\* The content of the streams stays accounted for when the exporter's side calls,
LEMMA ExporterCallContent ==
    ASSUME ContentInv, ExporterCall
    PROVE  ContentInv'
  <1>1. /\ Inv' /\ Continues /\ Awaits /\ Moves
        /\ UNCHANGED importerVars /\ UNCHANGED <<toImporter, toExporter, written, taken>>
    BY ExporterCalls DEF ContentInv
  <1>2. LinkInv'
    BY ExporterCallInv DEF ContentInv
  <1>3. Granted'
    BY <1>1, StillOpening DEF ContentInv, LinkInv
  <1>4. ExporterContent' /\ ImporterContent' /\ Histories'
    BY <1>1, EnginesApart DEF ContentInv, ExporterContent, ImporterContent, Histories, Awaits
  <1>. QED
    BY <1>2, <1>3, <1>4 DEF ContentInv

\* and when the importer's does: calls leave the streams alone.
LEMMA ImporterCallContent ==
    ASSUME ContentInv, ImporterCall
    PROVE  ContentInv'
  <1>1. /\ Importer!Awaits /\ UNCHANGED vars
        /\ UNCHANGED <<toImporter, toExporter, written, taken>>
    BY ImporterCalls DEF ContentInv
  <1>2. LinkInv'
    BY ImporterCallInv DEF ContentInv
  <1>3. Granted'
    BY <1>1, EnginesIdle DEF ContentInv, Granted
  <1>4. ExporterContent' /\ ImporterContent' /\ Histories'
    BY <1>1, EnginesApart
       DEF ContentInv, ExporterContent, ImporterContent, Histories, Importer!Awaits
  <1>. QED
    BY <1>2, <1>3, <1>4 DEF ContentInv

\* The PDUs of a queue are those of what leaves it and of the rest.
LEMMA PdusOfQueue ==
    ASSUME NEW queue \in Seq(Events), queue # <<>>
    PROVE  /\ Outgoing(queue) \in Seq(Events) /\ Tail(queue) \in Seq(Events)
           /\ <<Head(queue)>> \in Seq(Events) /\ Head(queue) \in Events
           /\ PdusOf(queue) = PdusOf(Outgoing(queue)) \o PdusOf(Tail(queue))
           /\ PdusOf(queue) = PduOf(Head(queue)) \o PdusOf(Tail(queue))
           /\ PdusOf(<<Head(queue)>>) = PduOf(Head(queue))
           /\ \A type : Without(queue, type)
                  => Without(Outgoing(queue), type) /\ Without(Tail(queue), type)
  <1>1. Head(queue) \in Events /\ Tail(queue) \in Seq(Events) /\ <<>> \in Seq(Events)
    BY HeadTailProperties, EmptySeq
  <1>2. <<Head(queue)>> \in Seq(Events) /\ <<Head(queue)>> \o Tail(queue) = queue
    BY HeadAndTail
  <1>3. PdusOf(<<Head(queue)>>) = PduOf(Head(queue))
    BY <1>1, PdusOfOne
  <1>4. PdusOf(queue) = PduOf(Head(queue)) \o PdusOf(Tail(queue))
    BY <1>1, <1>2, <1>3, PdusOfConcat
  <1>5. \A type : Without(queue, type)
           => Without(<<Head(queue)>>, type) /\ Without(Tail(queue), type)
    BY <1>1, <1>2, WithoutConcat
  <1>6. CASE IsOutput(Head(queue))
    <2>1. Outgoing(queue) = <<Head(queue)>>
      BY <1>6 DEF Outgoing
    <2>. QED
      BY <1>1, <1>2, <1>3, <1>4, <1>5, <2>1
  <1>7. CASE ~ IsOutput(Head(queue))
    <2>1. Outgoing(queue) = <<>> /\ PduOf(Head(queue)) = <<>>
      BY <1>7 DEF Outgoing, IsOutput, PduOf, IsFrame
    <2>2. PdusOf(<<>>) = <<>> /\ \A type : Without(<<>>, type)
      <3>1. \A type : Without(<<>>, type)
        BY DEF Without, At
      <3>. QED
        BY <1>1, <3>1, PdusOfNone
    <2>. QED
      BY <1>1, <1>2, <1>3, <1>4, <1>5, <2>1, <2>2
  <1>. QED
    BY <1>6, <1>7

\* Sequences of PDUs may be joined in any order.
LEMMA MarksAssociative ==
    ASSUME NEW a \in Seq(Marks), NEW b \in Seq(Marks), NEW c \in Seq(Marks)
    PROVE  (a \o b) \o c = a \o (b \o c)
  <1>1. \A S : \A s, t, u \in Seq(S) : (s \o t) \o u = s \o (t \o u)
    BY ConcatAssociative
  <1>. HIDE DEF Marks
  <1>. QED
    BY <1>1

\* What the exporter writes was waiting, and is on its way then,
LEMMA ExporterWritesContent ==
    ASSUME ContentInv, ExporterWrites
    PROVE  ContentInv'
  <1>1. /\ NextEvent /\ events # <<>> /\ events' = Tail(events) /\ state' = state
        /\ toImporter' = toImporter \o Outgoing(events)
        /\ written' = [written EXCEPT !.exporter = @ \o PdusOf(Outgoing(events))]
        /\ UNCHANGED importerVars /\ toExporter' = toExporter /\ taken' = taken
    BY DEF ExporterWrites, NextEvent
  <1>2. LinkInv'
    BY ExporterWritesInv DEF ContentInv
  <1>3. events \in Seq(Events) /\ toImporter \in Seq(Events) /\ toExporter \in Seq(Events)
    BY LinkTypes DEF ContentInv, LinkInv
  <1>. DEFINE out == Outgoing(events)
  <1>4. /\ out \in Seq(Events) /\ PdusOf(out) \in Seq(Marks)
        /\ \A type : Without(events, type) => Without(out, type) /\ Without(Tail(events), type)
    BY <1>1, <1>3, PdusOfQueue, PdusOfConcat
  <1>5. /\ PdusOf(toImporter \o out) = PdusOf(toImporter) \o PdusOf(out)
        /\ PdusOf(toImporter) \in Seq(Marks)
    BY <1>3, <1>4, PdusOfConcat
  <1>6. \A type : Without(toImporter, type) /\ Without(out, type)
           => Without(toImporter \o out, type)
    BY <1>3, <1>4, WithoutConcat
  <1>7. /\ written.exporter \in Seq(Marks) /\ written.importer \in Seq(Marks)
        /\ taken.importer \in Seq(Marks)
    BY DEF ContentInv, Histories
  <1>. HIDE DEF out, Marks
  <1>8. /\ written'.exporter = written.exporter \o PdusOf(out)
        /\ written'.importer = written.importer
        /\ written' \in [exporter : Seq(Marks), importer : Seq(Marks)]
    <2>1. written.exporter \o PdusOf(out) \in Seq(Marks)
      BY <1>4, <1>7, ConcatProperties
    <2>2. written \in [exporter : Seq(Marks), importer : Seq(Marks)]
      BY DEF ContentInv, Histories
    <2>. QED
      BY <1>1, <2>1, <2>2 DEF out
  <1>9. Histories'
    BY <1>1, <1>8 DEF ContentInv, Histories
  <1>10. ExporterContent'
    <2>1. Expecting' => Expecting
      BY <1>1, OtherCallsAwait DEF Awaits
    <2>. QED
      BY <1>1, <1>8, <2>1 DEF ContentInv, ExporterContent
  <1>11. ImporterContent'
    <2>1. (taken.importer \o PdusOf(toImporter)) \o PdusOf(out)
            = taken.importer \o (PdusOf(toImporter) \o PdusOf(out))
      BY <1>4, <1>5, <1>7, MarksAssociative
    <2>2. toImporter' = toImporter \o out
      BY <1>1 DEF out
    <2>. QED
      BY <1>1, <1>5, <1>8, <2>1, <2>2, EnginesApart DEF ContentInv, ImporterContent
  <1>12. Granted'
    <2>1. toImporter' = toImporter \o out
      BY <1>1 DEF out
    <2>. QED
      BY <1>1, <1>4, <1>6, <2>1 DEF ContentInv, Granted
  <1>. QED
    BY <1>2, <1>9, <1>10, <1>11, <1>12 DEF ContentInv

\* as is what the importer writes.
LEMMA ImporterWritesContent ==
    ASSUME ContentInv, ImporterWrites
    PROVE  ContentInv'
  <1>1. /\ Importer!NextEvent /\ importerEvents # <<>>
        /\ toExporter' = toExporter \o Outgoing(importerEvents)
        /\ written' = [written EXCEPT !.importer = @ \o PdusOf(Outgoing(importerEvents))]
        /\ UNCHANGED vars /\ toImporter' = toImporter /\ taken' = taken
    BY DEF ImporterWrites, Importer!NextEvent
  <1>2. LinkInv'
    BY ImporterWritesInv DEF ContentInv
  <1>3. importerEvents \in Seq(Events) /\ toExporter \in Seq(Events)
    BY LinkTypes DEF ContentInv, LinkInv
  <1>. DEFINE out == Outgoing(importerEvents)
  <1>4. out \in Seq(Events) /\ PdusOf(out) \in Seq(Marks)
    BY <1>1, <1>3, PdusOfQueue, PdusOfConcat
  <1>5. /\ PdusOf(toExporter \o out) = PdusOf(toExporter) \o PdusOf(out)
        /\ PdusOf(toExporter) \in Seq(Marks)
    BY <1>3, <1>4, PdusOfConcat
  <1>7. /\ written.importer \in Seq(Marks) /\ written.exporter \in Seq(Marks)
        /\ taken.exporter \in Seq(Marks)
    BY DEF ContentInv, Histories
  <1>. HIDE DEF out, Marks
  <1>8. /\ written'.importer = written.importer \o PdusOf(out)
        /\ written'.exporter = written.exporter
        /\ written' \in [exporter : Seq(Marks), importer : Seq(Marks)]
    <2>1. written.importer \o PdusOf(out) \in Seq(Marks)
      BY <1>4, <1>7, ConcatProperties
    <2>2. written \in [exporter : Seq(Marks), importer : Seq(Marks)]
      BY DEF ContentInv, Histories
    <2>. QED
      BY <1>1, <2>1, <2>2 DEF out
  <1>9. Histories'
    BY <1>1, <1>8 DEF ContentInv, Histories
  <1>10. ImporterContent'
    <2>1. Importer!Expecting' => Importer!Expecting
      <3>1. Importer!Awaits
        BY <1>1, Importer!OtherCallsAwait, ImporterConfig DEF Importer!OtherCallsAwait
      <3>. QED
        BY <3>1 DEF Importer!Awaits
    <2>. QED
      BY <1>1, <1>8, <2>1 DEF ContentInv, ImporterContent
  <1>11. ExporterContent'
    <2>1. (taken.exporter \o PdusOf(toExporter)) \o PdusOf(out)
            = taken.exporter \o (PdusOf(toExporter) \o PdusOf(out))
      BY <1>4, <1>5, <1>7, MarksAssociative
    <2>2. toExporter' = toExporter \o out
      BY <1>1 DEF out
    <2>. QED
      BY <1>1, <1>5, <1>8, <2>1, <2>2, EnginesApart DEF ContentInv, ExporterContent
  <1>12. Granted'
    BY <1>1, EnginesIdle DEF ContentInv, Granted
  <1>. QED
    BY <1>2, <1>9, <1>10, <1>11, <1>12 DEF ContentInv

\* What the exporter takes was the next on its way,
LEMMA ExporterReadsContent ==
    ASSUME ContentInv, ExporterReads
    PROVE  ContentInv'
  <1>. DEFINE m == Head(toExporter)
              takes == InSequence(m) /\ Expects(m)
  <1>1. /\ toExporter # <<>> /\ AcceptMessage(m) /\ toExporter' = Tail(toExporter)
        /\ taken' = [taken EXCEPT !.exporter = IF takes THEN @ \o PdusOf(<<m>>) ELSE @]
        /\ UNCHANGED importerVars /\ toImporter' = toImporter /\ written' = written
    BY DEF ExporterReads
  <1>2. LinkInv'
    BY ExporterReadsInv DEF ContentInv
  <1>3. Inv' /\ Took(m) /\ Continues /\ Moves
    BY <1>1, AcceptMessageInv, MessageTaken, MessageMoves DEF ContentInv, LinkInv
  <1>4. toExporter \in Seq(Events)
    BY DEF ContentInv, LinkInv
  <1>5. /\ m \in Events /\ Tail(toExporter) \in Seq(Events)
        /\ PdusOf(toExporter) = PduOf(m) \o PdusOf(Tail(toExporter))
        /\ PdusOf(<<m>>) = PduOf(m)
    BY <1>1, <1>4, PdusOfQueue
  <1>6. PduOf(m) \in Seq(Marks) /\ PdusOf(Tail(toExporter)) \in Seq(Marks)
    BY <1>5, PduOfMessage, PdusOfConcat
  <1>7. /\ taken.exporter \in Seq(Marks) /\ taken.importer \in Seq(Marks)
        /\ written.importer \in Seq(Marks)
        /\ taken \in [exporter : Seq(Marks), importer : Seq(Marks)]
    BY DEF ContentInv, Histories
  <1>. HIDE DEF m, takes, Marks
  <1>8. /\ taken'.exporter = IF takes THEN taken.exporter \o PduOf(m) ELSE taken.exporter
        /\ taken'.importer = taken.importer
        /\ taken' \in [exporter : Seq(Marks), importer : Seq(Marks)]
    <2>1. taken.exporter \o PduOf(m) \in Seq(Marks)
      BY <1>6, <1>7, ConcatProperties
    <2>. QED
      BY <1>1, <1>5, <1>7, <2>1
  <1>9. Histories'
    BY <1>1, <1>8 DEF ContentInv, Histories
  <1>10. Granted'
    BY <1>1, <1>3, StillOpening DEF ContentInv, LinkInv
  <1>11. ImporterContent'
    BY <1>1, <1>8, EnginesApart DEF ContentInv, ImporterContent
  <1>12. ExporterContent'
    <2>1. SUFFICES ASSUME Expecting'
                   PROVE  written.importer = taken'.exporter \o PdusOf(Tail(toExporter))
      BY <1>1 DEF ExporterContent
    <2>2. Expecting /\ (IsFrame(m) => takes)
      BY <1>3, <2>1 DEF Took, takes
    <2>3. written.importer = taken.exporter \o (PduOf(m) \o PdusOf(Tail(toExporter)))
      BY <1>5, <2>2 DEF ContentInv, ExporterContent
    <2>4. CASE takes
      <3>1. (taken.exporter \o PduOf(m)) \o PdusOf(Tail(toExporter))
              = taken.exporter \o (PduOf(m) \o PdusOf(Tail(toExporter)))
        BY <1>6, <1>7, MarksAssociative
      <3>. QED
        BY <1>8, <2>3, <2>4, <3>1
    <2>5. CASE ~ takes
      <3>1. PduOf(m) = <<>>
        BY <2>2, <2>5 DEF PduOf
      <3>2. <<>> \o PdusOf(Tail(toExporter)) = PdusOf(Tail(toExporter))
        BY <1>6, ConcatEmptySeq
      <3>. QED
        BY <1>8, <2>3, <2>5, <3>1, <3>2
    <2>. QED
      BY <2>4, <2>5
  <1>. QED
    BY <1>2, <1>9, <1>10, <1>11, <1>12 DEF ContentInv

\* What the importer's engine does with a message: it keeps its invariant, takes what
\* it expects, says what it may, and begins to run on an OPEN_OK only.
LEMMA ImporterTakes ==
    ASSUME LinkInv, ImporterReads
    PROVE  LET m == Head(toImporter)
           IN  /\ Importer!Inv' /\ Importer!Took(m) /\ Importer!Continues /\ Importer!Moves
               /\ Importer!Begins => Importer!Receiving /\ IsFrame(m) /\ m.type = "OpenOk"
               /\ importerEvents \in Seq(Events)
               /\ toImporter \in Seq(Events)
  <1>. DEFINE m == Head(toImporter)
  <1>1. Importer!AcceptMessage(m)
    BY DEF ImporterReads
  <1>2. Importer!Inv'
    BY <1>1, ImporterStepInv DEF LinkInv, ImporterStep
  <1>3. Importer!Took(m) /\ Importer!Continues
    BY <1>1, Importer!MessageTaken, ImporterConfig DEF Importer!MessageTaken, LinkInv
  <1>4. /\ Importer!Moves
        /\ Importer!Begins => Importer!Receiving /\ Importer!IsFrame(m) /\ m.type = "OpenOk"
    BY <1>1, Importer!MessageMoves, ImporterConfig DEF Importer!MessageMoves
  <1>. QED
    BY <1>2, <1>3, <1>4, SameWords, LinkTypes DEF LinkInv

\* What the importer takes was the next on its way.
LEMMA ImporterReadsContent ==
    ASSUME ContentInv, ImporterReads
    PROVE  ContentInv'
  <1>. DEFINE m == Head(toImporter)
              takes == Importer!InSequence(m) /\ Importer!Expects(m)
  <1>1. /\ toImporter # <<>> /\ toImporter' = Tail(toImporter)
        /\ taken' = [taken EXCEPT !.importer = IF takes THEN @ \o PdusOf(<<m>>) ELSE @]
        /\ UNCHANGED vars /\ toExporter' = toExporter /\ written' = written
    BY DEF ImporterReads
  <1>2. LinkInv'
    BY ImporterReadsInv DEF ContentInv
  <1>3. Importer!Took(m) /\ toImporter \in Seq(Events)
    BY ImporterTakes DEF ContentInv
  <1>5. /\ m \in Events /\ Tail(toImporter) \in Seq(Events)
        /\ PdusOf(toImporter) = PduOf(m) \o PdusOf(Tail(toImporter))
        /\ PdusOf(<<m>>) = PduOf(m)
        /\ \A type : Without(toImporter, type) => Without(Tail(toImporter), type)
    BY <1>1, <1>3, PdusOfQueue
  <1>6. PduOf(m) \in Seq(Marks) /\ PdusOf(Tail(toImporter)) \in Seq(Marks)
    BY <1>5, PduOfMessage, PdusOfConcat
  <1>7. /\ taken.importer \in Seq(Marks) /\ taken.exporter \in Seq(Marks)
        /\ taken \in [exporter : Seq(Marks), importer : Seq(Marks)]
    BY DEF ContentInv, Histories
  <1>. HIDE DEF m, takes, Marks
  <1>8. /\ taken'.importer = IF takes THEN taken.importer \o PduOf(m) ELSE taken.importer
        /\ taken'.exporter = taken.exporter
        /\ taken' \in [exporter : Seq(Marks), importer : Seq(Marks)]
    <2>1. taken.importer \o PduOf(m) \in Seq(Marks)
      BY <1>6, <1>7, ConcatProperties
    <2>. QED
      BY <1>1, <1>5, <1>7, <2>1
  <1>9. Histories'
    BY <1>1, <1>8 DEF ContentInv, Histories
  <1>10. Granted'
    BY <1>1, <1>5, EnginesIdle DEF ContentInv, Granted
  <1>11. ExporterContent'
    BY <1>1, <1>8, EnginesApart DEF ContentInv, ExporterContent
  <1>12. ImporterContent'
    <2>1. SUFFICES ASSUME Importer!Expecting'
                   PROVE  written.exporter = taken'.importer \o PdusOf(Tail(toImporter))
      BY <1>1 DEF ImporterContent
    <2>2. Importer!Expecting /\ (IsFrame(m) => takes)
      BY <1>3, <2>1, SameWords DEF Importer!Took, takes
    <2>3. written.exporter = taken.importer \o (PduOf(m) \o PdusOf(Tail(toImporter)))
      BY <1>5, <2>2 DEF ContentInv, ImporterContent
    <2>4. CASE takes
      <3>1. (taken.importer \o PduOf(m)) \o PdusOf(Tail(toImporter))
              = taken.importer \o (PduOf(m) \o PdusOf(Tail(toImporter)))
        BY <1>6, <1>7, MarksAssociative
      <3>. QED
        BY <1>8, <2>3, <2>4, <3>1
    <2>5. CASE ~ takes
      <3>1. PduOf(m) = <<>>
        BY <2>2, <2>5 DEF PduOf
      <3>2. <<>> \o PdusOf(Tail(toImporter)) = PdusOf(Tail(toImporter))
        BY <1>6, ConcatEmptySeq
      <3>. QED
        BY <1>8, <2>3, <2>5, <3>1, <3>2
    <2>. QED
      BY <2>4, <2>5
  <1>. QED
    BY <1>2, <1>9, <1>10, <1>11, <1>12 DEF ContentInv

\* The two engines, their streams and what has been sent over them keep the invariant.
THEOREM ContentInvariant == LinkSpec => []ContentInv
  <1>1. LinkInit => ContentInv
    <2>1. ASSUME LinkInit
          PROVE  ContentInv
      <3>1. LinkInv
        BY <2>1, LinkInitInv
      <3>2. /\ toExporter = <<>> /\ toImporter = <<>> /\ events = <<>>
            /\ written = [exporter |-> <<>>, importer |-> <<>>]
            /\ taken = [exporter |-> <<>>, importer |-> <<>>]
        BY <2>1 DEF LinkInit, Init
      <3>3. /\ <<>> \in Seq(Events) /\ <<>> \in Seq(Marks) /\ <<>> \o <<>> = <<>>
            /\ \A type : Without(<<>>, type)
        <4>1. \A type : Without(<<>>, type)
          BY DEF Without, At
        <4>2. <<>> \in Seq(Events) /\ <<>> \in Seq(Marks)
          BY EmptySeq
        <4>. QED
          BY <4>1, <4>2
      <3>4. PdusOf(<<>>) = <<>>
        BY <3>3, PdusOfNone
      <3>. HIDE DEF Marks
      <3>5. Histories
        BY <3>2, <3>3 DEF Histories
      <3>. QED
        BY <3>1, <3>2, <3>3, <3>4, <3>5
           DEF ContentInv, ExporterContent, ImporterContent, Granted
    <2>. QED
      BY <2>1
  <1>2. ContentInv /\ [LinkNext]_linkVars => ContentInv'
    <2>1. ASSUME ContentInv, UNCHANGED linkVars
          PROVE  ContentInv'
      <3>1. /\ UNCHANGED vars /\ UNCHANGED importerVars
            /\ UNCHANGED <<toImporter, toExporter, written, taken>>
        BY <2>1 DEF linkVars
      <3>2. LinkInv'
        BY <2>1, <3>1, EnginesApart DEF ContentInv, LinkInv, ExporterStream, ImporterStream
      <3>. QED
        BY <2>1, <3>1, <3>2, EnginesApart, EnginesIdle
           DEF ContentInv, ExporterContent, ImporterContent, Granted, Histories
    <2>. QED
      BY <2>1, ExporterCallContent, ImporterCallContent, ExporterWritesContent,
         ImporterWritesContent, ExporterReadsContent, ImporterReadsContent
         DEF LinkNext, Transmit
  <1>. QED
    BY <1>1, <1>2, PTL DEF LinkSpec

-----------------------------------------------------------------------------
(* The abstract session.                                                   *)

\* A queue that has grown begins with what it was.
LEMMA PrefixOfConcat ==
    ASSUME NEW front \in Seq(Marks), NEW back \in Seq(Marks)
    PROVE  Attachment!IsPrefix(front, front \o back)
  <1>1. Len(front) \in Nat /\ Len(back) \in Nat /\ Len(front \o back) = Len(front) + Len(back)
    BY LenProperties, ConcatProperties
  <1>. HIDE DEF Marks
  <1>2. SubSeq(front \o back, 1, Len(front)) = SubSeq(front, 1, Len(front))
    BY <1>1, SubSeqOfConcat1
  <1>. QED
    BY <1>1, <1>2 DEF Attachment!IsPrefix

\* What follows what has been taken is the next to take.
LEMMA NextOne ==
    ASSUME NEW before \in Seq(Marks), NEW one \in Marks,
           NEW after \in Seq(Marks), NEW rest \in Seq(Marks),
           NEW whole, whole = (before \o (<<one>> \o after)) \o rest
    PROVE  /\ Len(before) + 1 <= Len(whole)
           /\ before \o <<one>> = Append(before, whole[Len(before) + 1])
  <1>. HIDE DEF Marks
  <1>1. <<one>> \in Seq(Marks) /\ Len(<<one>>) = 1
    OBVIOUS
  <1>. DEFINE n == Len(before)
              tail == <<one>> \o after
              sent == before \o tail
  <1>2. /\ tail \in Seq(Marks) /\ Len(tail) = 1 + Len(after) /\ tail[1] = one
        /\ Len(after) \in Nat /\ n \in Nat /\ Len(rest) \in Nat
    BY <1>1, ConcatProperties, LenProperties
  <1>. HIDE DEF tail
  <1>3. sent \in Seq(Marks) /\ Len(sent) = n + Len(tail) /\ sent[n + 1] = tail[1]
    <2>1. /\ sent \in Seq(Marks) /\ Len(sent) = Len(before) + Len(tail)
          /\ \A i \in 1 .. Len(before) + Len(tail) :
                sent[i] = IF i <= Len(before) THEN before[i] ELSE tail[i - Len(before)]
      BY <1>2, ConcatProperties
    <2>. HIDE DEF sent
    <2>2. n + 1 \in 1 .. n + Len(tail) /\ ~ (n + 1 <= n) /\ (n + 1) - n = 1
      BY <1>2
    <2>. QED
      BY <2>1, <2>2
  <1>. HIDE DEF sent
  <1>4. whole = sent \o rest
    BY DEF sent, tail
  <1>5. Len(whole) = Len(sent) + Len(rest) /\ whole[n + 1] = sent[n + 1]
    <2>1. /\ Len(whole) = Len(sent) + Len(rest)
          /\ \A i \in 1 .. Len(sent) + Len(rest) :
                whole[i] = IF i <= Len(sent) THEN sent[i] ELSE rest[i - Len(sent)]
      BY <1>3, <1>4, ConcatProperties
    <2>2. n + 1 \in 1 .. Len(sent) + Len(rest) /\ n + 1 <= Len(sent)
      BY <1>2, <1>3
    <2>. QED
      BY <2>1, <2>2
  <1>. HIDE DEF n
  <1>6. n + 1 <= Len(whole) /\ whole[n + 1] = one
    BY <1>2, <1>3, <1>5
  <1>7. before \o <<one>> = Append(before, one)
    BY AppendIsConcat
  <1>. QED
    BY <1>6, <1>7 DEF n

\* What is known of the two sides is changed one side at a time.
LEMMA OneSide ==
    ASSUME NEW a, NEW b, NEW x
    PROVE  /\ [[Exporter |-> a, Importer |-> b] EXCEPT !["Exporter"] = x]
                = [Exporter |-> x, Importer |-> b]
           /\ [[Exporter |-> a, Importer |-> b] EXCEPT !["Importer"] = x]
                = [Exporter |-> a, Importer |-> x]
  <1>. DEFINE Both(y, z) == [s \in {"Exporter", "Importer"} |-> IF s = "Exporter" THEN y ELSE z]
  <1>1. \A y, z : [Exporter |-> y, Importer |-> z] = Both(y, z)
    OBVIOUS
  <1>2. [[Exporter |-> a, Importer |-> b] EXCEPT !["Exporter"] = x] = Both(x, b)
    OBVIOUS
  <1>3. [[Exporter |-> a, Importer |-> b] EXCEPT !["Importer"] = x] = Both(a, x)
    OBVIOUS
  <1>. QED
    BY <1>1, <1>2, <1>3

\* What an engine does is a step of its side of the abstract session, if it sends
\* and takes only while it runs, and takes the next PDU that its peer has sent:
\* the exporter's,
LEMMA ExporterMoves ==
    ASSUME Moves, importerState' = importerState,
           NEW more \in Seq(Marks), ExporterSent \in Seq(Marks),
           ExporterSent' = ExporterSent \o more, ImporterSent' = ImporterSent,
           state # "Running" => more = <<>>,
           taken'.importer = taken.importer,
           \/ taken'.exporter = taken.exporter
           \/ /\ state = "Running" /\ Len(taken.exporter) + 1 <= Len(ImporterSent)
              /\ taken'.exporter
                   = Append(taken.exporter, ImporterSent[Len(taken.exporter) + 1])
    PROVE  [Attachment!AttachmentNext]_(Attachment!attachmentVars)
  <1>1. Attachment!IsPrefix(ExporterSent, ExporterSent')
    BY PrefixOfConcat
  <1>2. state # "Running" => ExporterSent' = ExporterSent
    BY ConcatEmptySeq
  <1>. HIDE DEF ExporterSent, ImporterSent, Marks
  <1>3. CASE state = "Running"
    <2>1. Phase(state) = "Open" /\ Phase(state') \in {"Open", "Ended"}
      BY <1>3 DEF Phase, Moves
    <2>2. Attachment!Exchange("Exporter")
      <3>. DEFINE phase == [Exporter |-> Phase(state), Importer |-> Phase(importerState)]
                  sent == [Exporter |-> ExporterSent, Importer |-> ImporterSent]
                  took == [Exporter |-> taken.exporter, Importer |-> taken.importer]
      <3>1. /\ phase["Exporter"] = "Open"
            /\ phase' \in {phase, [phase EXCEPT !["Exporter"] = "Ended"]}
        BY <2>1
      <3>2. /\ sent["Exporter"] = ExporterSent /\ sent["Importer"] = ImporterSent
            /\ sent' = [Exporter |-> ExporterSent', Importer |-> ImporterSent]
            /\ took["Exporter"] = taken.exporter
            /\ took' = [Exporter |-> taken'.exporter, Importer |-> taken.importer]
        OBVIOUS
      <3>3. sent' = [sent EXCEPT !["Exporter"] = sent'["Exporter"]]
        <4>1. sent'["Exporter"] = ExporterSent'
          BY <3>2
        <4>2. \A x : [sent EXCEPT !["Exporter"] = x] = [Exporter |-> x, Importer |-> ImporterSent]
          BY OneSide
        <4>. HIDE DEF sent
        <4>. QED
          BY <3>2, <4>1, <4>2
      <3>4. Attachment!IsPrefix(sent["Exporter"], sent'["Exporter"])
        <4>1. sent'["Exporter"] = ExporterSent'
          BY <3>2
        <4>. QED
          BY <1>1, <3>2, <4>1
      <3>5. \/ UNCHANGED took
            \/ /\ Len(took["Exporter"]) + 1 <= Len(sent["Importer"])
               /\ took' = [took EXCEPT !["Exporter"]
                      = Append(@, sent["Importer"][Len(took["Exporter"]) + 1])]
        <4>1. CASE taken'.exporter = taken.exporter
          BY <4>1
        <4>2. CASE taken'.exporter # taken.exporter
          <5>1. [took EXCEPT !["Exporter"] = taken'.exporter]
                  = [Exporter |-> taken'.exporter, Importer |-> taken.importer]
            BY OneSide
          <5>. QED
            BY <3>2, <4>2, <5>1
        <4>. QED
          BY <4>1, <4>2
      <3>. QED
        BY <3>1, <3>3, <3>4, <3>5 DEF Attachment!Exchange, Attachment!Peer
    <2>. QED
      BY <2>2 DEF Attachment!AttachmentNext, Attachment!Sides
  <1>4. CASE state # "Running" /\ Phase(state') = Phase(state)
    BY <1>2, <1>4 DEF Attachment!attachmentVars
  <1>5. CASE state # "Running" /\ Phase(state') # Phase(state)
    <2>1. Phase(state) = "Opening" /\ Phase(state') \in {"Open", "Ended"}
      BY <1>5 DEF Phase, Moves
    <2>2. CASE Phase(state') = "Open"
      <3>1. Attachment!Open("Exporter")
        BY <1>2, <1>5, <2>1, <2>2 DEF Attachment!Open
      <3>. QED
        BY <3>1 DEF Attachment!AttachmentNext, Attachment!Sides
    <2>3. CASE Phase(state') = "Ended"
      <3>1. Attachment!End("Exporter")
        BY <1>2, <1>5, <2>1, <2>3 DEF Attachment!End
      <3>. QED
        BY <3>1 DEF Attachment!AttachmentNext, Attachment!Sides
    <2>. QED
      BY <2>1, <2>2, <2>3
  <1>. QED
    BY <1>3, <1>4, <1>5

\* and the importer's, which opens once the exporter has.
LEMMA ImporterMoves ==
    ASSUME Importer!Moves, Importer!Begins => Phase(state) # "Opening", state' = state,
           NEW more \in Seq(Marks), ImporterSent \in Seq(Marks),
           ImporterSent' = ImporterSent \o more, ExporterSent' = ExporterSent,
           importerState # "Running" => more = <<>>,
           taken'.exporter = taken.exporter,
           \/ taken'.importer = taken.importer
           \/ /\ importerState = "Running" /\ Len(taken.importer) + 1 <= Len(ExporterSent)
              /\ taken'.importer
                   = Append(taken.importer, ExporterSent[Len(taken.importer) + 1])
    PROVE  [Attachment!AttachmentNext]_(Attachment!attachmentVars)
  <1>1. Attachment!IsPrefix(ImporterSent, ImporterSent')
    BY PrefixOfConcat
  <1>2. importerState # "Running" => ImporterSent' = ImporterSent
    BY ConcatEmptySeq
  <1>. HIDE DEF ImporterSent, ExporterSent, Marks
  <1>3. CASE importerState = "Running"
    <2>1. Phase(importerState) = "Open" /\ Phase(importerState') \in {"Open", "Ended"}
      BY <1>3 DEF Phase, Importer!Moves
    <2>2. Attachment!Exchange("Importer")
      <3>. DEFINE phase == [Exporter |-> Phase(state), Importer |-> Phase(importerState)]
                  sent == [Exporter |-> ExporterSent, Importer |-> ImporterSent]
                  took == [Exporter |-> taken.exporter, Importer |-> taken.importer]
      <3>1. /\ phase["Importer"] = "Open"
            /\ phase' \in {phase, [phase EXCEPT !["Importer"] = "Ended"]}
        BY <2>1
      <3>2. /\ sent["Importer"] = ImporterSent /\ sent["Exporter"] = ExporterSent
            /\ sent' = [Exporter |-> ExporterSent, Importer |-> ImporterSent']
            /\ took["Importer"] = taken.importer
            /\ took' = [Exporter |-> taken.exporter, Importer |-> taken'.importer]
        OBVIOUS
      <3>3. sent' = [sent EXCEPT !["Importer"] = sent'["Importer"]]
        <4>1. sent'["Importer"] = ImporterSent'
          BY <3>2
        <4>2. \A x : [sent EXCEPT !["Importer"] = x] = [Exporter |-> ExporterSent, Importer |-> x]
          BY OneSide
        <4>. HIDE DEF sent
        <4>. QED
          BY <3>2, <4>1, <4>2
      <3>4. Attachment!IsPrefix(sent["Importer"], sent'["Importer"])
        <4>1. sent'["Importer"] = ImporterSent'
          BY <3>2
        <4>. QED
          BY <1>1, <3>2, <4>1
      <3>5. \/ UNCHANGED took
            \/ /\ Len(took["Importer"]) + 1 <= Len(sent["Exporter"])
               /\ took' = [took EXCEPT !["Importer"]
                      = Append(@, sent["Exporter"][Len(took["Importer"]) + 1])]
        <4>1. CASE taken'.importer = taken.importer
          BY <4>1
        <4>2. CASE taken'.importer # taken.importer
          <5>1. [took EXCEPT !["Importer"] = taken'.importer]
                  = [Exporter |-> taken.exporter, Importer |-> taken'.importer]
            BY OneSide
          <5>. QED
            BY <3>2, <4>2, <5>1
        <4>. QED
          BY <4>1, <4>2
      <3>. QED
        BY <3>1, <3>3, <3>4, <3>5 DEF Attachment!Exchange, Attachment!Peer
    <2>. QED
      BY <2>2 DEF Attachment!AttachmentNext, Attachment!Sides
  <1>4. CASE importerState # "Running" /\ Phase(importerState') = Phase(importerState)
    BY <1>2, <1>4 DEF Attachment!attachmentVars
  <1>5. CASE importerState # "Running" /\ Phase(importerState') # Phase(importerState)
    <2>1. Phase(importerState) = "Opening" /\ Phase(importerState') \in {"Open", "Ended"}
      BY <1>5 DEF Phase, Importer!Moves
    <2>2. Importer!Begins \/ Phase(importerState') # "Open"
      BY <1>5 DEF Importer!Begins, Phase
    <2>3. CASE Phase(importerState') = "Open"
      <3>1. Attachment!Open("Importer")
        BY <1>2, <1>5, <2>1, <2>2, <2>3 DEF Attachment!Open
      <3>. QED
        BY <3>1 DEF Attachment!AttachmentNext, Attachment!Sides
    <2>4. CASE Phase(importerState') = "Ended"
      <3>1. Attachment!End("Importer")
        BY <1>2, <1>5, <2>1, <2>4 DEF Attachment!End
      <3>. QED
        BY <3>1 DEF Attachment!AttachmentNext, Attachment!Sides
    <2>. QED
      BY <2>1, <2>3, <2>4
  <1>. QED
    BY <1>3, <1>4, <1>5

\* What the two sides have sent are PDUs,
LEMMA SentSoFar ==
    ASSUME ContentInv
    PROVE  /\ ExporterSent \in Seq(Marks) /\ ImporterSent \in Seq(Marks)
           /\ PdusOf(events) \in Seq(Marks) /\ PdusOf(importerEvents) \in Seq(Marks)
  <1>1. events \in Seq(Events) /\ importerEvents \in Seq(Events)
    BY LinkTypes DEF ContentInv, LinkInv
  <1>2. PdusOf(events) \in Seq(Marks) /\ PdusOf(importerEvents) \in Seq(Marks)
    BY <1>1, PdusOfConcat
  <1>3. written.exporter \in Seq(Marks) /\ written.importer \in Seq(Marks)
    BY DEF ContentInv, Histories
  <1>. HIDE DEF Marks
  <1>. QED
    BY <1>2, <1>3, ConcatProperties DEF ExporterSent, ImporterSent

\* and an engine sends more of them only while it runs.
LEMMA EnginesSend ==
    ASSUME ContentInv, written' = written
    PROVE  /\ Inv' /\ Continues
                => \E more \in Seq(Marks) : /\ ExporterSent' = ExporterSent \o more
                                            /\ state # "Running" => more = <<>>
           /\ (Importer!Inv' /\ Importer!Continues)
                => \E more \in Seq(Marks) : /\ ImporterSent' = ImporterSent \o more
                                            /\ importerState # "Running" => more = <<>>
  <1>1. events \in Seq(Events) /\ importerEvents \in Seq(Events)
    BY LinkTypes DEF ContentInv, LinkInv
  <1>2. written.exporter \in Seq(Marks) /\ written.importer \in Seq(Marks)
    BY DEF ContentInv, Histories
  <1>3. PdusOf(events) \in Seq(Marks) /\ PdusOf(importerEvents) \in Seq(Marks)
    BY SentSoFar
  <1>4. ASSUME Inv', Continues
        PROVE  \E more \in Seq(Marks) : /\ ExporterSent' = ExporterSent \o more
                                        /\ state # "Running" => more = <<>>
    <2>1. Adds(events, nextTx, events', nextTx', Sayable)
      BY <1>4, EnginesAdd
    <2>2. PICK more \in Seq(Marks) : /\ PdusOf(events') = PdusOf(events) \o more
                                     /\ "UsbIpData" \notin Sayable => more = <<>>
      BY <1>1, <2>1, PdusAdded
    <2>3. state # "Running" => more = <<>>
      BY <2>2 DEF Sayable
    <2>4. ExporterSent' = written.exporter \o (PdusOf(events) \o more)
      BY <2>2 DEF ExporterSent
    <2>5. ExporterSent' = ExporterSent \o more
      BY <1>2, <1>3, <2>4, MarksAssociative DEF ExporterSent
    <2>. QED
      BY <2>3, <2>5
  <1>5. ASSUME Importer!Inv', Importer!Continues
        PROVE  \E more \in Seq(Marks) : /\ ImporterSent' = ImporterSent \o more
                                        /\ importerState # "Running" => more = <<>>
    <2>1. Adds(importerEvents, importerNextTx, importerEvents', importerNextTx',
               Importer!Sayable)
      BY <1>5, EnginesAdd
    <2>2. PICK more \in Seq(Marks) :
             /\ PdusOf(importerEvents') = PdusOf(importerEvents) \o more
             /\ "UsbIpData" \notin Importer!Sayable => more = <<>>
      BY <1>1, <2>1, PdusAdded
    <2>3. importerState # "Running" => more = <<>>
      BY <2>2 DEF Importer!Sayable
    <2>4. ImporterSent' = written.importer \o (PdusOf(importerEvents) \o more)
      BY <2>2 DEF ImporterSent
    <2>5. ImporterSent' = ImporterSent \o more
      BY <1>2, <1>3, <2>4, MarksAssociative DEF ImporterSent
    <2>. QED
      BY <2>3, <2>5
  <1>. QED
    BY <1>4, <1>5

\* An idle engine neither moves nor sends.
LEMMA IdleSends ==
    ASSUME written' = written
    PROVE  /\ UNCHANGED vars => ExporterSent' = ExporterSent /\ state' = state
           /\ UNCHANGED importerVars
                => ImporterSent' = ImporterSent /\ importerState' = importerState
  BY EnginesIdle DEF ExporterSent, ImporterSent

\* Calls implement the abstract session: a side opens, sends or ends.
LEMMA CallsImplement ==
    ASSUME ContentInv, ExporterCall \/ ImporterCall
    PROVE  [Attachment!AttachmentNext]_(Attachment!attachmentVars)
  <1>1. CASE ExporterCall
    <2>1. /\ Inv' /\ Continues /\ Moves /\ UNCHANGED importerVars
          /\ written' = written /\ taken' = taken
      BY <1>1, ExporterCalls DEF ContentInv
    <2>2. ImporterSent' = ImporterSent /\ importerState' = importerState
      BY <2>1, IdleSends
    <2>3. PICK more \in Seq(Marks) : /\ ExporterSent' = ExporterSent \o more
                                     /\ state # "Running" => more = <<>>
      BY <2>1, EnginesSend
    <2>. QED
      BY <2>1, <2>2, <2>3, SentSoFar, ExporterMoves
  <1>2. CASE ImporterCall
    <2>1. /\ Importer!Inv' /\ Importer!Continues /\ Importer!Moves /\ ~ Importer!Begins
          /\ UNCHANGED vars /\ written' = written /\ taken' = taken
      BY <1>2, ImporterCalls DEF ContentInv
    <2>2. ExporterSent' = ExporterSent /\ state' = state
      BY <2>1, IdleSends
    <2>3. PICK more \in Seq(Marks) : /\ ImporterSent' = ImporterSent \o more
                                     /\ importerState # "Running" => more = <<>>
      BY <2>1, EnginesSend
    <2>. QED
      BY <2>1, <2>2, <2>3, SentSoFar, ImporterMoves
  <1>. QED
    BY <1>1, <1>2

\* What is written has been sent already: writing is no step of the abstract session.
LEMMA WritesImplement ==
    ASSUME ContentInv, ExporterWrites \/ ImporterWrites
    PROVE  UNCHANGED Attachment!attachmentVars
  <1>1. /\ written.exporter \in Seq(Marks) /\ written.importer \in Seq(Marks)
        /\ written \in [exporter : Seq(Marks), importer : Seq(Marks)]
    BY DEF ContentInv, Histories
  <1>2. events \in Seq(Events) /\ importerEvents \in Seq(Events)
    BY LinkTypes DEF ContentInv, LinkInv
  <1>3. ASSUME ExporterWrites
        PROVE  /\ state' = state /\ importerState' = importerState /\ taken' = taken
               /\ ExporterSent' = ExporterSent /\ ImporterSent' = ImporterSent
    <2>. DEFINE out == PdusOf(Outgoing(events))
                rest == PdusOf(Tail(events))
    <2>1. /\ events # <<>> /\ events' = Tail(events) /\ state' = state /\ taken' = taken
          /\ written' = [written EXCEPT !.exporter = @ \o out]
          /\ importerEvents' = importerEvents /\ importerState' = importerState
      BY <1>3, EnginesIdle DEF ExporterWrites, NextEvent
    <2>2. /\ PdusOf(events) = out \o rest /\ out \in Seq(Marks) /\ rest \in Seq(Marks)
      BY <1>2, <2>1, PdusOfQueue, PdusOfConcat
    <2>3. PdusOf(events') = rest
      BY <2>1
    <2>. HIDE DEF out, rest, Marks
    <2>4. written'.exporter = written.exporter \o out /\ written'.importer = written.importer
      BY <1>1, <2>1
    <2>5. (written.exporter \o out) \o rest = written.exporter \o (out \o rest)
      BY <1>1, <2>2, MarksAssociative
    <2>. QED
      BY <2>1, <2>2, <2>3, <2>4, <2>5 DEF ExporterSent, ImporterSent
  <1>4. ASSUME ImporterWrites
        PROVE  /\ state' = state /\ importerState' = importerState /\ taken' = taken
               /\ ExporterSent' = ExporterSent /\ ImporterSent' = ImporterSent
    <2>. DEFINE out == PdusOf(Outgoing(importerEvents))
                rest == PdusOf(Tail(importerEvents))
    <2>1. /\ importerEvents # <<>> /\ importerEvents' = Tail(importerEvents)
          /\ importerState' = importerState /\ taken' = taken
          /\ written' = [written EXCEPT !.importer = @ \o out]
          /\ events' = events /\ state' = state
      BY <1>4, EnginesIdle DEF ImporterWrites, Importer!NextEvent
    <2>2. /\ PdusOf(importerEvents) = out \o rest
          /\ out \in Seq(Marks) /\ rest \in Seq(Marks)
      BY <1>2, <2>1, PdusOfQueue, PdusOfConcat
    <2>3. PdusOf(importerEvents') = rest
      BY <2>1
    <2>. HIDE DEF out, rest, Marks
    <2>4. written'.importer = written.importer \o out /\ written'.exporter = written.exporter
      BY <1>1, <2>1
    <2>5. (written.importer \o out) \o rest = written.importer \o (out \o rest)
      BY <1>1, <2>2, MarksAssociative
    <2>. QED
      BY <2>1, <2>2, <2>3, <2>4, <2>5 DEF ExporterSent, ImporterSent
  <1>. HIDE DEF ExporterSent, ImporterSent
  <1>. QED
    BY <1>3, <1>4 DEF Attachment!attachmentVars

\* Reading implements it too.  The exporter takes the next PDU of its peer, or ends.
LEMMA ExporterReadsImplement ==
    ASSUME ContentInv, ExporterReads
    PROVE  [Attachment!AttachmentNext]_(Attachment!attachmentVars)
  <1>. DEFINE m == Head(toExporter)
              takes == InSequence(m) /\ Expects(m)
              mark == [id |-> m.id, size |-> m.total]
  <1>1. /\ toExporter # <<>> /\ AcceptMessage(m)
        /\ taken' = [taken EXCEPT !.exporter = IF takes THEN @ \o PdusOf(<<m>>) ELSE @]
        /\ UNCHANGED importerVars /\ written' = written
    BY DEF ExporterReads
  <1>2. Inv' /\ Continues /\ Moves
    BY <1>1, AcceptMessageInv, MessageTaken, MessageMoves DEF ContentInv, LinkInv
  <1>3. toExporter \in Seq(Events)
    BY DEF ContentInv, LinkInv
  <1>4. /\ m \in Events /\ Tail(toExporter) \in Seq(Events)
        /\ PdusOf(toExporter) = PduOf(m) \o PdusOf(Tail(toExporter))
        /\ PdusOf(<<m>>) = PduOf(m)
    BY <1>1, <1>3, PdusOfQueue
  <1>5. PdusOf(Tail(toExporter)) \in Seq(Marks) /\ mark \in Marks
    BY <1>4, PdusOfConcat DEF Marks
  <1>6. /\ taken.exporter \in Seq(Marks)
        /\ taken \in [exporter : Seq(Marks), importer : Seq(Marks)]
    BY DEF ContentInv, Histories
  <1>7. PdusOf(importerEvents) \in Seq(Marks)
    BY SentSoFar
  <1>8. ImporterSent' = ImporterSent /\ importerState' = importerState
    BY <1>1, IdleSends
  <1>9. PICK more \in Seq(Marks) : /\ ExporterSent' = ExporterSent \o more
                                   /\ state # "Running" => more = <<>>
    BY <1>1, <1>2, EnginesSend
  <1>10. takes => Receiving /\ (m.type = "UsbIpData" => state = "Running")
    <2>1. ASSUME takes, m.type = "UsbIpData"
          PROVE  state = "Running"
      BY <2>1 DEF Expects, TakesFragment
    <2>. QED
      BY <2>1 DEF InSequence
  <1>. HIDE DEF takes, mark, m, Marks
  <1>11. taken'.importer = taken.importer
    BY <1>1, <1>6
  <1>12. CASE takes /\ PduOf(m) # <<>>
    <2>1. m.type = "UsbIpData" /\ PduOf(m) = <<mark>>
      BY <1>12 DEF PduOf, mark
    <2>2. state = "Running" /\ Expecting
      BY <1>10, <1>12, <2>1 DEF Expecting
    <2>3. written.importer = taken.exporter \o (<<mark>> \o PdusOf(Tail(toExporter)))
      BY <1>4, <2>1, <2>2 DEF ContentInv, ExporterContent
    <2>4. ImporterSent
            = (taken.exporter \o (<<mark>> \o PdusOf(Tail(toExporter)))) \o PdusOf(importerEvents)
      BY <2>3 DEF ImporterSent
    <2>5. /\ Len(taken.exporter) + 1 <= Len(ImporterSent)
          /\ taken.exporter \o <<mark>>
               = Append(taken.exporter, ImporterSent[Len(taken.exporter) + 1])
      BY <1>5, <1>6, <1>7, <2>4, NextOne
    <2>6. taken'.exporter = taken.exporter \o <<mark>>
      BY <1>1, <1>4, <1>6, <1>12, <2>1
    <2>. QED
      BY <1>2, <1>8, <1>9, <1>11, <2>2, <2>5, <2>6, SentSoFar, ExporterMoves
  <1>13. CASE ~ (takes /\ PduOf(m) # <<>>)
    <2>1. taken.exporter \o <<>> = taken.exporter
      BY <1>6, ConcatEmptySeq
    <2>2. taken'.exporter = taken.exporter
      BY <1>1, <1>4, <1>6, <1>13, <2>1
    <2>. QED
      BY <1>2, <1>8, <1>9, <1>11, <2>2, SentSoFar, ExporterMoves
  <1>. QED
    BY <1>12, <1>13

\* So does the importer's: it opens on an OPEN_OK, sent by an exporter that had opened.
LEMMA ImporterReadsImplement ==
    ASSUME ContentInv, ImporterReads
    PROVE  [Attachment!AttachmentNext]_(Attachment!attachmentVars)
  <1>. DEFINE m == Head(toImporter)
              takes == Importer!InSequence(m) /\ Importer!Expects(m)
              mark == [id |-> m.id, size |-> m.total]
  <1>1. /\ toImporter # <<>>
        /\ taken' = [taken EXCEPT !.importer = IF takes THEN @ \o PdusOf(<<m>>) ELSE @]
        /\ UNCHANGED vars /\ written' = written
    BY DEF ImporterReads
  <1>2. /\ Importer!Inv' /\ Importer!Continues /\ Importer!Moves
        /\ Importer!Begins => IsFrame(m) /\ m.type = "OpenOk"
    BY ImporterTakes DEF ContentInv
  <1>3. toImporter \in Seq(Events)
    BY DEF ContentInv, LinkInv
  <1>4. /\ m \in Events /\ Tail(toImporter) \in Seq(Events)
        /\ PdusOf(toImporter) = PduOf(m) \o PdusOf(Tail(toImporter))
        /\ PdusOf(<<m>>) = PduOf(m)
    BY <1>1, <1>3, PdusOfQueue
  <1>5. PdusOf(Tail(toImporter)) \in Seq(Marks) /\ mark \in Marks
    BY <1>4, PdusOfConcat DEF Marks
  <1>6. /\ taken.importer \in Seq(Marks)
        /\ taken \in [exporter : Seq(Marks), importer : Seq(Marks)]
    BY DEF ContentInv, Histories
  <1>7. PdusOf(events) \in Seq(Marks)
    BY SentSoFar
  <1>8. ExporterSent' = ExporterSent /\ state' = state
    BY <1>1, IdleSends
  <1>9. PICK more \in Seq(Marks) : /\ ImporterSent' = ImporterSent \o more
                                   /\ importerState # "Running" => more = <<>>
    BY <1>1, <1>2, EnginesSend
  <1>10. takes => Importer!Receiving /\ (m.type = "UsbIpData" => importerState = "Running")
    <2>1. ASSUME takes, m.type = "UsbIpData"
          PROVE  importerState = "Running"
      BY <2>1 DEF Importer!Expects, Importer!TakesFragment
    <2>. QED
      BY <2>1 DEF Importer!InSequence
  <1>11. Importer!Begins => Phase(state) # "Opening"
    <2>1. 1 \in DOMAIN toImporter /\ toImporter[1] = m
      BY <1>1, <1>3, LenProperties, EmptySeq
    <2>2. Importer!Begins => ~ Without(toImporter, "OpenOk")
      BY <1>2, <2>1 DEF Without, At
    <2>. QED
      BY <2>2 DEF ContentInv, Granted
  <1>. HIDE DEF takes, mark, m, Marks
  <1>12. taken'.exporter = taken.exporter
    BY <1>1, <1>6
  <1>13. CASE takes /\ PduOf(m) # <<>>
    <2>1. m.type = "UsbIpData" /\ PduOf(m) = <<mark>>
      BY <1>13 DEF PduOf, mark
    <2>2. importerState = "Running" /\ Importer!Expecting
      BY <1>10, <1>13, <2>1 DEF Importer!Expecting
    <2>3. written.exporter = taken.importer \o (<<mark>> \o PdusOf(Tail(toImporter)))
      BY <1>4, <2>1, <2>2 DEF ContentInv, ImporterContent
    <2>4. ExporterSent
            = (taken.importer \o (<<mark>> \o PdusOf(Tail(toImporter)))) \o PdusOf(events)
      BY <2>3 DEF ExporterSent
    <2>5. /\ Len(taken.importer) + 1 <= Len(ExporterSent)
          /\ taken.importer \o <<mark>>
               = Append(taken.importer, ExporterSent[Len(taken.importer) + 1])
      BY <1>5, <1>6, <1>7, <2>4, NextOne
    <2>6. taken'.importer = taken.importer \o <<mark>>
      BY <1>1, <1>4, <1>6, <1>13, <2>1
    <2>. QED
      BY <1>2, <1>8, <1>9, <1>11, <1>12, <2>2, <2>5, <2>6, SentSoFar, ImporterMoves
  <1>14. CASE ~ (takes /\ PduOf(m) # <<>>)
    <2>1. taken.importer \o <<>> = taken.importer
      BY <1>6, ConcatEmptySeq
    <2>2. taken'.importer = taken.importer
      BY <1>1, <1>4, <1>6, <1>14, <2>1
    <2>. QED
      BY <1>2, <1>8, <1>9, <1>11, <1>12, <2>2, SentSoFar, ImporterMoves
  <1>. QED
    BY <1>13, <1>14

\* A session starts with neither side open and nothing sent.
LEMMA LinkInitImplements ==
    ASSUME LinkInit
    PROVE  Attachment!AttachmentInit
  <1>1. /\ state = "New" /\ importerState = "New" /\ events = <<>> /\ importerEvents = <<>>
        /\ written = [exporter |-> <<>>, importer |-> <<>>]
        /\ taken = [exporter |-> <<>>, importer |-> <<>>]
    BY DEF LinkInit, Init, Importer!Init
  <1>2. Phase("New") = "Opening"
    BY DEF Phase
  <1>3. PdusOf(<<>>) = <<>>
    <2>1. <<>> \in Seq(Events) /\ Without(<<>>, "UsbIpData")
      BY EmptySeq DEF Without, At
    <2>. QED
      BY <2>1, PdusOfNone
  <1>4. ExporterSent = <<>> /\ ImporterSent = <<>>
    <2>1. written.exporter = <<>> /\ written.importer = <<>> /\ <<>> \o <<>> = <<>>
      BY <1>1
    <2>. QED
      BY <1>1, <1>3, <2>1 DEF ExporterSent, ImporterSent
  <1>. HIDE DEF ExporterSent, ImporterSent
  <1>. QED
    BY <1>1, <1>2, <1>4 DEF Attachment!AttachmentInit, Attachment!Sides

\* Two engines joined by their streams are the session that Attachment describes,
\* for every set of PDUs, window, limit and number of messages on their way.
THEOREM LinkImplementsAttachment == LinkSpec => ImplementsAttachment
  <1>1. LinkInit => Attachment!AttachmentInit
    BY LinkInitImplements
  <1>2. ContentInv /\ [LinkNext]_linkVars
          => [Attachment!AttachmentNext]_(Attachment!attachmentVars)
    <2>1. ASSUME ContentInv, UNCHANGED linkVars
          PROVE  UNCHANGED Attachment!attachmentVars
      <3>1. UNCHANGED vars /\ UNCHANGED importerVars /\ written' = written /\ taken' = taken
        BY <2>1 DEF linkVars
      <3>2. /\ state' = state /\ importerState' = importerState
            /\ ExporterSent' = ExporterSent /\ ImporterSent' = ImporterSent
        BY <3>1, IdleSends
      <3>. HIDE DEF ExporterSent, ImporterSent
      <3>. QED
        BY <3>1, <3>2 DEF Attachment!attachmentVars
    <2>. QED
      BY <2>1, CallsImplement, WritesImplement, ExporterReadsImplement,
         ImporterReadsImplement DEF LinkNext, Transmit
  <1>. QED
    BY <1>1, <1>2, ContentInvariant, PTL
       DEF LinkSpec, ImplementsAttachment, Attachment!AttachmentSpec
=============================================================================
