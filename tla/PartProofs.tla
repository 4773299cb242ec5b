----------------------------- MODULE PartProofs -----------------------------
(***************************************************************************)
(* What modules Broker and FragmentStream state about two parts of the     *)
(* session engine, proved for every set of HELLOs, PDU sizes and fragments *)
(* and for every width of the windows and limit of the reassembler.        *)
(***************************************************************************)
EXTENDS Broker, FragmentStream, SequenceTheorems, TLAPS

-----------------------------------------------------------------------------
(* The broker.  The windows alone are not inductive: a HELLO lowers the    *)
(* negotiated limits, and only because nothing is in flight before the     *)
(* session is established does that leave the counters within them.  The   *)
(* credit invariant is therefore part of the induction, and so is that the *)
(* limits never exceed the local offer.                                    *)

LimitsWithinOffer ==
    negotiatedMaxPdu <= MaxPdu /\ negotiatedMaxInflight <= MaxInflight

BrokerInv ==
    /\ BrokerTypeOK
    /\ LimitsWithinOffer
    /\ WithinWindows
    /\ CreditNeedsSession

\* The lesser of a window and a limit is within both.
LEMMA LeastFacts ==
    ASSUME NEW a \in Nat, NEW b \in Nat
    PROVE  Least(a, b) \in Nat /\ Least(a, b) <= a /\ Least(a, b) <= b
  BY DEF Least

-----------------------------------------------------------------------------
\* A broker starts with no credit taken and no limit agreed,
LEMMA BrokerInitInv == BrokerInit => BrokerInv
  <1> SUFFICES ASSUME BrokerInit PROVE BrokerInv
    OBVIOUS
  <1>1. BrokerTypeOK
    <2>1. nonceConsumed \in BOOLEAN
      BY DEF BrokerInit
    <2> QED BY <2>1, BrokerAssumption DEF BrokerInit, BrokerTypeOK, BrokerStates
  <1>2. WithinWindows
    BY BrokerAssumption DEF BrokerInit, WithinWindows, Least
  <1>3. LimitsWithinOffer /\ CreditNeedsSession
    BY BrokerAssumption DEF BrokerInit, LimitsWithinOffer, CreditNeedsSession
  <1> QED BY <1>1, <1>2, <1>3 DEF BrokerInv

\* The handshake keeps the invariant: the limits fall only while both windows
\* are empty.
LEMMA AcceptHelloInv ==
    ASSUME BrokerInv, NEW h \in PeerHellos, AcceptHello(h)
    PROVE  BrokerInv'
  <1>1. h.maxPdu \in Nat /\ h.maxInflight \in Nat
    BY BrokerAssumption
  <1>2. txBytes = 0 /\ txPdus = 0 /\ rxBytes = 0 /\ rxPdus = 0
    BY DEF BrokerInv, CreditNeedsSession, AcceptHello, AwaitsHello
  <1>3. UNCHANGED <<txBytes, txPdus, rxBytes, rxPdus>>
    BY DEF AcceptHello, txVars, rxVars
  <1>4. BrokerTypeOK' /\ LimitsWithinOffer'
    <2>1. CASE ValidHello(h)
      BY <1>1, <1>3, <2>1, BrokerAssumption, LeastFacts
      DEF AcceptHello, BrokerInv, BrokerTypeOK, BrokerStates, LimitsWithinOffer
    <2>2. CASE ~ValidHello(h)
      BY <1>3, <2>2
      DEF AcceptHello, BrokerInv, BrokerTypeOK, BrokerStates, LimitsWithinOffer
    <2> QED BY <2>1, <2>2
  <1>5. WithinWindows' /\ CreditNeedsSession'
    BY <1>2, <1>3, <1>4, BrokerAssumption
    DEF WithinWindows, CreditNeedsSession, BrokerTypeOK, Least
  <1> QED BY <1>4, <1>5 DEF BrokerInv

\* Reserving keeps to the windows,
LEMMA ReserveInv ==
    ASSUME BrokerInv, NEW size \in Sizes, ReserveSend(size) \/ ReserveReceive(size)
    PROVE  BrokerInv'
  <1>1. size \in Nat
    BY BrokerAssumption
  <1>2. CASE ReserveSend(size)
    <2>1. /\ brokerState = "Established" /\ size > 0
          /\ size <= TxWindowBytes - txBytes
          /\ txPdus < TxWindowPdus /\ txPdus < negotiatedMaxInflight
      BY <1>1, <1>2, BrokerAssumption
      DEF ReserveSend, ReserveSendResult, ReserveResult, Exceeds, BrokerInv, BrokerTypeOK
    <2> QED
      BY <1>1, <1>2, <2>1, BrokerAssumption
      DEF ReserveSend, handshakeVars, rxVars, BrokerInv, BrokerTypeOK, LimitsWithinOffer,
          WithinWindows, CreditNeedsSession, Least
  <1>3. CASE ReserveReceive(size)
    <2>1. /\ brokerState = "Established" /\ size > 0
          /\ size <= RxWindowBytes - rxBytes
          /\ rxPdus < RxWindowPdus /\ rxPdus < negotiatedMaxInflight
      BY <1>1, <1>3, BrokerAssumption
      DEF ReserveReceive, ReserveReceiveResult, ReserveResult, Exceeds, BrokerInv,
          BrokerTypeOK
    <2> QED
      BY <1>1, <1>3, <2>1, BrokerAssumption
      DEF ReserveReceive, handshakeVars, txVars, BrokerInv, BrokerTypeOK,
          LimitsWithinOffer, WithinWindows, CreditNeedsSession, Least
  <1> QED BY <1>2, <1>3

\* releasing takes no more than was reserved,
LEMMA ReleaseInv ==
    ASSUME BrokerInv, NEW size \in Sizes, AckSend(size) \/ ConsumeReceive(size)
    PROVE  BrokerInv'
  <1>1. size \in Nat
    BY BrokerAssumption
  <1>2. CASE AckSend(size)
    BY <1>1, <1>2, BrokerAssumption
    DEF AckSend, CanConsume, handshakeVars, rxVars, BrokerInv, BrokerTypeOK,
        LimitsWithinOffer, WithinWindows, CreditNeedsSession, Least
  <1>3. CASE ConsumeReceive(size)
    BY <1>1, <1>3, BrokerAssumption
    DEF ConsumeReceive, CanConsume, handshakeVars, txVars, BrokerInv, BrokerTypeOK,
        LimitsWithinOffer, WithinWindows, CreditNeedsSession, Least
  <1> QED BY <1>2, <1>3

\* and so every call preserves the invariant.
LEMMA BrokerStepInv == BrokerInv /\ [BrokerNext]_brokerVars => BrokerInv'
  <1> SUFFICES ASSUME BrokerInv, [BrokerNext]_brokerVars PROVE BrokerInv'
    OBVIOUS
  <1>1. CASE MarkHelloSent
    BY <1>1
    DEF MarkHelloSent, txVars, rxVars, BrokerInv, BrokerTypeOK, BrokerStates,
        LimitsWithinOffer, WithinWindows, CreditNeedsSession
  <1>2. CASE \E h \in PeerHellos : AcceptHello(h)
    BY <1>2, AcceptHelloInv
  <1>3. CASE \E size \in Sizes : ReserveSend(size) \/ AckSend(size)
    BY <1>3, ReserveInv, ReleaseInv
  <1>4. CASE \E size \in Sizes : ReserveReceive(size) \/ ConsumeReceive(size)
    BY <1>4, ReserveInv, ReleaseInv
  <1>5. CASE CloseBroker
    BY <1>5, BrokerAssumption
    DEF CloseBroker, BrokerInv, BrokerTypeOK, BrokerStates, LimitsWithinOffer,
        WithinWindows, CreditNeedsSession, Least
  <1>6. CASE UNCHANGED brokerVars
    BY <1>6
    DEF brokerVars, handshakeVars, txVars, rxVars, BrokerInv, BrokerTypeOK,
        LimitsWithinOffer, WithinWindows, CreditNeedsSession
  <1> QED BY <1>1, <1>2, <1>3, <1>4, <1>5, <1>6 DEF BrokerNext

\* In every reachable state of the broker the limits are within the local
\* offer, the windows within the limits, and credit only where a session is.
THEOREM BrokerInvariant == BrokerSpec => []BrokerInv
  BY BrokerInitInv, BrokerStepInv, PTL DEF BrokerSpec

\* The broker's fields always hold values of their types (BrokerSession).
THEOREM BrokerTypeCorrect == BrokerSpec => []BrokerTypeOK
  <1>1. BrokerInv => BrokerTypeOK
    BY DEF BrokerInv
  <1> QED BY <1>1, BrokerInvariant, PTL

\* reserve() and consume() never take a direction past its window, nor past the
\* limits the handshake agreed to.
THEOREM WindowsHold == BrokerSpec => []WithinWindows
  <1>1. BrokerInv => WithinWindows
    BY DEF BrokerInv
  <1> QED BY <1>1, BrokerInvariant, PTL

\* Only an established session holds credit: close() and a refused HELLO leave
\* none behind.
THEOREM CreditHasSession == BrokerSpec => []CreditNeedsSession
  <1>1. BrokerInv => CreditNeedsSession
    BY DEF BrokerInv
  <1> QED BY <1>1, BrokerInvariant, PTL

-----------------------------------------------------------------------------
(* The handshake happens once.                                             *)

SettledOnce ==
    /\ brokerState' = "Established" /\ brokerState # "Established"
         => ~nonceConsumed /\ nonceConsumed'
    /\ nonceConsumed => /\ nonceConsumed'
                        /\ UNCHANGED <<negotiatedMaxPdu, negotiatedMaxInflight>>
    /\ negotiatedMaxPdu' <= MaxPdu /\ negotiatedMaxInflight' <= MaxInflight

\* No call settles a handshake that is settled.
LEMMA StepSettlesOnce ==
    BrokerInv /\ BrokerInv' /\ [BrokerNext]_brokerVars => [SettledOnce]_brokerVars
  <1> SUFFICES ASSUME BrokerInv, BrokerInv', BrokerNext PROVE SettledOnce
    OBVIOUS
  <1>1. negotiatedMaxPdu' <= MaxPdu /\ negotiatedMaxInflight' <= MaxInflight
    BY DEF BrokerInv, LimitsWithinOffer
  <1>2. CASE MarkHelloSent
    BY <1>1, <1>2 DEF MarkHelloSent, SettledOnce
  <1>3. ASSUME NEW h \in PeerHellos, AcceptHello(h) PROVE SettledOnce
    <2>1. ~nonceConsumed
      BY <1>3 DEF AcceptHello, AwaitsHello
    <2>2. CASE ValidHello(h)
      BY <1>1, <1>3, <2>1, <2>2 DEF AcceptHello, SettledOnce
    <2>3. CASE ~ValidHello(h)
      BY <1>1, <1>3, <2>1, <2>3 DEF AcceptHello, SettledOnce
    <2> QED BY <2>2, <2>3
  <1>4. ASSUME NEW size \in Sizes,
               \/ ReserveSend(size) \/ AckSend(size)
               \/ ReserveReceive(size) \/ ConsumeReceive(size)
        PROVE  SettledOnce
    <2>1. UNCHANGED handshakeVars
      BY <1>4 DEF ReserveSend, AckSend, ReserveReceive, ConsumeReceive
    <2> QED BY <1>1, <2>1 DEF handshakeVars, SettledOnce
  <1>5. CASE CloseBroker
    BY <1>1, <1>5 DEF CloseBroker, SettledOnce
  <1> QED BY <1>2, <1>3, <1>4, <1>5 DEF BrokerNext

\* accept_peer_hello() settles the session once: it alone establishes, by
\* consuming the nonce, and what it agreed to never changes afterwards.
THEOREM HandshakeSettlesOnce == BrokerSpec => HandshakeOnce
  <1>1. BrokerSpec => [][SettledOnce]_brokerVars
    BY BrokerInvariant, StepSettlesOnce, PTL DEF BrokerSpec
  <1>2. [][SettledOnce]_brokerVars => HandshakeOnce
    BY DEF SettledOnce, HandshakeOnce
  <1> QED BY <1>1, <1>2

-----------------------------------------------------------------------------
(* The reassembler.  CountersMatchPieces is inductive once the histories   *)
(* are known to be sequences of fragments; what the reassembler hands over *)
(* follows from it at the step that takes the last fragment.               *)

StreamTypeOK ==
    /\ activePdu \in Nat /\ totalLength \in Nat
    /\ fragments \in Nat /\ received \in Nat
    /\ pieces \in Seq(Fragments) /\ handedOver \in Seq(Fragments)

StreamInv == StreamTypeOK /\ CountersMatchPieces /\ HandedOverWhole

-----------------------------------------------------------------------------
\* The fields of a fragment of an honest stream.
LEMMA FragmentFields ==
    ASSUME NEW f \in Fragments
    PROVE  /\ f.id \in Nat /\ f.id # NoPdu
           /\ f.total \in Nat /\ f.offset \in Nat /\ f.len \in Nat
           /\ EndOf(f) \in Nat
  <1>1. f.id \in PduIds /\ f.total \in Nat /\ f.offset \in Nat /\ f.len \in Nat
    BY ReassemblerAssumption DEF Fragments
  <1>2. f.id \in Nat /\ f.id # NoPdu
    BY <1>1, ReassemblerAssumption DEF NoPdu
  <1>3. EndOf(f) \in Nat
    BY <1>1 DEF EndOf
  <1> QED BY <1>1, <1>2, <1>3

\* A fragment that starts where the sequence stops extends it.
LEMMA ExtendEndToEnd ==
    ASSUME NEW s \in Seq(Fragments), EndToEnd(s), NEW f \in Fragments,
           s = <<>> => f.offset = 0,
           s # <<>> => LET g == s[Len(s)]
                       IN  f.offset = EndOf(g) /\ f.id = g.id /\ f.total = g.total
    PROVE  EndToEnd(Append(s, f))
  <1> DEFINE t == Append(s, f)
  <1>1. /\ Len(s) \in Nat /\ Len(t) = Len(s) + 1
        /\ \A i \in 1 .. Len(s) : t[i] = s[i]
        /\ t[Len(s) + 1] = f
    BY AppendProperties, LenProperties
  <1>2. s # <<>> => Len(s) > 0
    BY EmptySeq, LenProperties
  <1>3. t[1].offset = 0
    <2>1. CASE s = <<>>
      BY <1>1, <2>1, EmptySeq
    <2>2. CASE s # <<>>
      BY <1>1, <1>2, <2>2 DEF EndToEnd
    <2> QED BY <2>1, <2>2
  <1>4. ASSUME NEW i \in 1 .. Len(t) - 1
        PROVE  t[i + 1].offset = EndOf(t[i]) /\ t[i + 1].id = t[i].id
                 /\ t[i + 1].total = t[i].total
    <2> HIDE DEF t
    <2>1. CASE i = Len(s)
      <3>1. s # <<>> /\ t[i] = s[Len(s)] /\ t[i + 1] = f
        BY <1>1, <2>1, EmptySeq
      <3> QED BY <3>1
    <2>2. CASE i # Len(s)
      <3>1. i \in 1 .. Len(s) - 1 /\ t[i] = s[i] /\ t[i + 1] = s[i + 1]
        BY <1>1, <2>2
      <3> QED BY <3>1 DEF EndToEnd
    <2> QED BY <2>1, <2>2
  <1> QED BY <1>3, <1>4 DEF EndToEnd

\* What the reassembler takes follows on from what it took before.
LEMMA PushExtends ==
    ASSUME StreamInv, NEW f \in Fragments, CanPush(f)
    PROVE  /\ Append(pieces, f) \in Seq(Fragments)
           /\ EndToEnd(Append(pieces, f))
           /\ Len(Append(pieces, f)) = fragments + 1
           /\ Append(pieces, f)[fragments + 1] = f
           /\ Append(pieces, f) # <<>>
           /\ fragments + 1 <= MaxFragments
           /\ f.total <= MaxReassembly
           /\ EndOf(f) <= f.total
           /\ f.more <=> EndOf(f) < f.total
           /\ received + f.len = EndOf(f)
  <1>1. /\ Append(pieces, f) \in Seq(Fragments)
        /\ Append(pieces, f) # <<>>
        /\ Len(Append(pieces, f)) = Len(pieces) + 1
        /\ Append(pieces, f)[Len(pieces) + 1] = f
    BY AppendProperties DEF StreamInv, StreamTypeOK
  <1>2. /\ f.id # NoPdu
        /\ pieces = <<>> => activePdu = NoPdu /\ received = 0
        /\ pieces # <<>> =>
             LET g == pieces[Len(pieces)]
             IN  activePdu = g.id /\ activePdu # NoPdu /\ totalLength = g.total
                 /\ received = EndOf(g)
    <2>1. pieces # <<>> => pieces[Len(pieces)] \in Fragments
      BY ElementOfSeq, EmptySeq DEF StreamInv, StreamTypeOK
    <2> QED BY <2>1, FragmentFields DEF StreamInv, CountersMatchPieces
  <1>3. /\ pieces = <<>> => f.offset = 0
        /\ pieces # <<>> => LET g == pieces[Len(pieces)]
                            IN  f.offset = EndOf(g) /\ f.id = g.id /\ f.total = g.total
        /\ f.offset = received
    BY <1>2 DEF CanPush, Continues
  <1>4. EndToEnd(Append(pieces, f))
    BY <1>3, ExtendEndToEnd DEF StreamInv, StreamTypeOK, CountersMatchPieces
  <1>5. fragments = Len(pieces) /\ fragments + 1 <= MaxFragments
    BY ReassemblerAssumption
    DEF StreamInv, StreamTypeOK, CountersMatchPieces, CanPush
  <1>6. /\ f.total <= MaxReassembly /\ EndOf(f) <= f.total
        /\ f.more <=> EndOf(f) < f.total
    BY DEF CanPush, WellFormed, EndOf
  <1>7. received + f.len = EndOf(f)
    BY <1>3 DEF EndOf
  <1> QED BY <1>1, <1>4, <1>5, <1>6, <1>7

-----------------------------------------------------------------------------
\* A reassembler starts with no piece of a PDU,
LEMMA StreamInitInv == StreamInit => StreamInv
  <1> SUFFICES ASSUME StreamInit PROVE StreamInv
    OBVIOUS
  <1>1. pieces = <<>> /\ handedOver = <<>> /\ <<>> \in Seq(Fragments) /\ Len(<<>>) = 0
    BY EmptySeq DEF StreamInit
  <1>2. StreamTypeOK
    BY <1>1 DEF StreamInit, ReassemblerInit, StreamTypeOK, NoPdu
  <1>3. EndToEnd(<<>>)
    BY <1>1 DEF EndToEnd
  <1>4. CountersMatchPieces /\ HandedOverWhole
    BY <1>1, <1>3, ReassemblerAssumption
    DEF StreamInit, ReassemblerInit, CountersMatchPieces, HandedOverWhole
  <1> QED BY <1>2, <1>4 DEF StreamInv

\* takes a piece that continues the ones it has,
LEMMA TakeInv ==
    ASSUME StreamInv, NEW f \in Fragments, Take(f)
    PROVE  StreamInv'
  <1>1. CanPush(f) /\ f.more
    BY DEF Take, PushPartial
  <1>2. /\ pieces' = Append(pieces, f) /\ handedOver' = handedOver
        /\ activePdu' = f.id /\ totalLength' = f.total
        /\ fragments' = fragments + 1 /\ received' = EndOf(f)
    BY <1>1, PushExtends DEF Take, PushPartial
  <1>3. StreamTypeOK'
    BY <1>1, <1>2, PushExtends, FragmentFields DEF StreamInv, StreamTypeOK
  <1>4. CountersMatchPieces'
    BY <1>1, <1>2, PushExtends DEF CountersMatchPieces, EndOf, EndToEnd
  <1>5. HandedOverWhole'
    BY <1>2 DEF StreamInv, HandedOverWhole, EndOf, EndToEnd
  <1> QED BY <1>3, <1>4, <1>5 DEF StreamInv

\* hands the pieces over with the last one,
LEMMA HandOverInv ==
    ASSUME StreamInv, NEW f \in Fragments, HandOver(f)
    PROVE  StreamInv'
  <1>1. CanPush(f) /\ ~f.more
    BY DEF HandOver, PushLast
  <1>2. /\ pieces' = <<>> /\ handedOver' = Append(pieces, f)
        /\ activePdu' = NoPdu /\ totalLength' = 0 /\ fragments' = 0 /\ received' = 0
    BY DEF HandOver, PushLast, Clear
  <1>3. StreamTypeOK'
    BY <1>1, <1>2, PushExtends, EmptySeq DEF StreamTypeOK, NoPdu
  <1>4. CountersMatchPieces'
    BY <1>2, EmptySeq, ReassemblerAssumption DEF CountersMatchPieces, EndToEnd
  <1>5. HandedOverWhole'
    <2>1. EndOf(f) = f.total
      BY <1>1, PushExtends, FragmentFields
    <2> QED BY <1>1, <1>2, <2>1, PushExtends DEF HandedOverWhole, EndOf, EndToEnd
  <1> QED BY <1>3, <1>4, <1>5 DEF StreamInv

\* and gives them up when it refuses a piece.
LEMMA RefuseInv ==
    ASSUME StreamInv, NEW f \in Fragments, Refuse(f)
    PROVE  StreamInv'
  <1>1. CASE WellFormed(f)
    <2>1. /\ pieces' = <<>> /\ handedOver' = handedOver
          /\ activePdu' = NoPdu /\ totalLength' = 0 /\ fragments' = 0 /\ received' = 0
      BY <1>1 DEF Refuse, RefuseFragment, Clear
    <2>2. StreamTypeOK'
      BY <2>1, EmptySeq DEF StreamInv, StreamTypeOK, NoPdu
    <2>3. CountersMatchPieces'
      BY <2>1, EmptySeq, ReassemblerAssumption DEF CountersMatchPieces, EndToEnd
    <2>4. HandedOverWhole'
      BY <2>1 DEF StreamInv, HandedOverWhole, EndOf, EndToEnd
    <2> QED BY <2>2, <2>3, <2>4 DEF StreamInv
  <1>2. CASE ~WellFormed(f)
    <2>1. UNCHANGED streamVars
      BY <1>2 DEF Refuse, RefuseFragment, streamVars
    <2> QED
      BY <2>1 DEF streamVars, reassemblerVars, StreamInv, StreamTypeOK,
                  CountersMatchPieces, HandedOverWhole, EndOf, EndToEnd
  <1> QED BY <1>1, <1>2

\* So every step preserves the invariant.
LEMMA StreamStepInv == StreamInv /\ [StreamNext]_streamVars => StreamInv'
  <1> SUFFICES ASSUME StreamInv, [StreamNext]_streamVars PROVE StreamInv'
    OBVIOUS
  <1>1. CASE StreamNext
    BY <1>1, TakeInv, HandOverInv, RefuseInv DEF StreamNext
  <1>2. CASE UNCHANGED streamVars
    BY <1>2 DEF streamVars, reassemblerVars, StreamInv, StreamTypeOK,
                CountersMatchPieces, HandedOverWhole, EndOf, EndToEnd
  <1> QED BY <1>1, <1>2

\* The invariant of a stream of fragments (FragmentReassembler::push).
THEOREM StreamInvariant == StreamSpec => []StreamInv
  BY StreamInitInv, StreamStepInv, PTL DEF StreamSpec

\* Reassembler's counters describe the fragments of the PDU under way, whatever
\* stream of fragments push() is given.
THEOREM CountersMatch == StreamSpec => []CountersMatchPieces
  <1>1. StreamInv => CountersMatchPieces
    BY DEF StreamInv
  <1> QED BY <1>1, StreamInvariant, PTL

\* push() hands a PDU over only whole: from its first byte to its last, without
\* a gap, an overlap or a fragment of another PDU.
THEOREM HandsOverWhole == StreamSpec => []HandedOverWhole
  <1>1. StreamInv => HandedOverWhole
    BY DEF StreamInv
  <1> QED BY <1>1, StreamInvariant, PTL
=============================================================================
