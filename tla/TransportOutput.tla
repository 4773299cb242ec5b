-------------------------- MODULE TransportOutput ---------------------------
(***************************************************************************)
(* The output side of the session engine: the types of its fields, what    *)
(* each step of it does to them (see Transport: notices, control frames,   *)
(* PDUs sent, replies queued, replies sent from the front, and the loop    *)
(* that sends them), and that every step keeps what the queues promise:    *)
(* frames numbered without a gap, PDUs together, replies in order.         *)
(***************************************************************************)
EXTENDS Transport, FiniteSetTheorems, SequenceTheorems, NaturalsInduction,
        WellFoundedInduction, TLAPS

\* The events and the output sides that can be.
FrameTypes == {"UsbIpData", "Capability", "Open", "OpenOk", "OpenReject", "Close"}
Frames == [kind : {"OutputFrame"}, type : FrameTypes, id : Nat, seq : Nat,
           total : Nat, offset : Int, len : Int, more : BOOLEAN]
NoticeKinds == {"OutputHello", "Capability", "Open", "Opened", "OpenRejected", "OpaquePdu",
                "Submit", "Cancel", "Closed"}
Notices == [kind : NoticeKinds] \cup [kind : NoticeKinds, token : Nat]
Events == Frames \cup Notices

Replies == [id : Nat, kind : {"RetSubmit", "RetUnlink"}, token : Nat, size : Nat \ {0}]

Reservations == UNION {[ids -> 1 .. MaxReassembly] : ids \in SUBSET Nat}

Outputs == [bytes : Nat, pdus : Nat, reservations : Reservations,
            replies : Seq(Replies), seq : Nat \ {0}, id : Nat,
            events : Seq(Events), framed : [Tokens -> Nat]]

\* The fields of an output side.
OutputFields ==
    {"bytes", "pdus", "reservations", "replies", "seq", "id", "events", "framed"}

\* The fields of an output side have their types.
LEMMA FieldsOfOutput ==
    ASSUME NEW o \in Outputs
    PROVE  /\ DOMAIN o = OutputFields
           /\ o.bytes \in Nat /\ o.pdus \in Nat /\ o.reservations \in Reservations
           /\ o.replies \in Seq(Replies) /\ o.id \in Nat
           /\ o.seq \in Nat /\ o.seq \in Nat \ {0}
           /\ o.events \in Seq(Events) /\ o.framed \in [Tokens -> Nat]
  BY DEF Outputs, OutputFields

\* An event is a frame or a notice by its kind.
LEMMA EventFacts ==
    ASSUME NEW e \in Events
    PROVE  IsFrame(e) <=> e \in Frames
  BY DEF Events, Frames, Notices, NoticeKinds, IsFrame

\* A table of reservations maps some PDU ids to sizes.
LEMMA ReservationFacts ==
    /\ \A res \in Reservations :
          /\ DOMAIN res \subseteq Nat
          /\ \A id \in DOMAIN res : res[id] \in 1 .. MaxReassembly
    /\ \A ids \in SUBSET Nat : \A res \in [ids -> 1 .. MaxReassembly] : res \in Reservations
  BY DEF Reservations

\* The least element of a set of numbers.
LEMMA LeastElement ==
    ASSUME NEW S, S \subseteq Nat, S # {}
    PROVE  \E least \in S : \A n \in S : least <= n
  <1>. DEFINE before == OpToRel(<, Nat)
  <1>1. before = {pair \in Nat \X Nat : pair[1] < pair[2]}
    BY DEF OpToRel
  <1>2. IsWellFoundedOn(before, Nat)
    BY NatLessThanWellFounded
  <1>. HIDE DEF before
  <1>3. PICK least \in S : \A n \in S : ~ (<<n, least>> \in before)
    BY <1>2, WFMin
  <1>4. ASSUME NEW n \in S
        PROVE  least <= n
    <2>1. <<n, least>> \notin before /\ <<n, least>> \in Nat \X Nat
      BY <1>3
    <2>. QED
      BY <1>1, <2>1
  <1>. QED
    BY <1>4

\* Induction, for a property given by the set of the numbers that have it.
LEMMA SetInduction ==
    ASSUME NEW S, 0 \in S, \A n \in Nat : n \in S => n + 1 \in S
    PROVE  Nat \subseteq S
  <1>1. SUFFICES ASSUME Nat \ S # {} PROVE FALSE
    OBVIOUS
  <1>2. PICK least \in Nat \ S : \A n \in Nat \ S : least <= n
    <2>1. Nat \ S \subseteq Nat
      OBVIOUS
    <2>. QED
      BY <1>1, <2>1, LeastElement
  <1>3. least # 0
    BY <1>2
  <1>4. least - 1 \in Nat
    BY <1>2, <1>3
  <1>5. least - 1 \in S
    BY <1>2, <1>4
  <1>6. least - 1 + 1 = least
    BY <1>2
  <1>. QED
    BY <1>2, <1>4, <1>5, <1>6

-----------------------------------------------------------------------------
\* The loop that drains ends where a turn does nothing more, and what every turn
\* preserves holds after it.
Blocked(o) == o.replies = <<>> \/ FrontResult(o) # "Ok"

\* One turn of drain_pending_replies() changes nothing when the front reply is
\* blocked, and leaves one reply less otherwise.
LEMMA TurnShortens ==
    ASSUME NEW o \in Outputs
    PROVE  \/ Blocked(o) /\ DrainTurn(o) = o
           \/ o.replies # <<>> /\ Len(DrainTurn(o).replies) = Len(o.replies) - 1
  <1>1. CASE Blocked(o)
    BY <1>1 DEF Blocked, DrainTurn
  <1>2. CASE ~ Blocked(o)
    <2>1. DrainTurn(o) = FrontSent(o) /\ o.replies # <<>>
      BY <1>2 DEF Blocked, DrainTurn
    <2>2. o.replies \in Seq(Replies)
      BY DEF Outputs
    <2>3. Len(Tail(o.replies)) = Len(o.replies) - 1
      BY <2>1, <2>2, HeadTailProperties
    <2>4. FrontSent(o).replies = Tail(o.replies)
      BY DEF FrontSent, Sent, Outputs
    <2>. QED
      BY <1>2, <2>1, <2>3, <2>4
  <1>. QED
    BY <1>1, <1>2

\* What every turn of the loop preserves, the loop preserves; and the loop ends
\* only where it is blocked.  (Induction on the number of replies, over sets.)
LEMMA DrainLoop ==
    ASSUME NEW S \in SUBSET Outputs, NEW o \in S, \A p \in S : DrainTurn(p) \in S
    PROVE  Drained(o) \in S /\ Blocked(Drained(o))
  <1>. DEFINE N == Len(o.replies)
              Turn(p) == CHOOSE q \in {DrainTurn(r) : r \in {p}} : TRUE
              Loop(f) == [n \in 0 .. N |-> IF n = 0 THEN o ELSE Turn(f[n - 1])]
              after == CHOOSE f : f = Loop(f)
              Runs(n) == {g \in [0 .. n -> S] :
                            g[0] = o /\ \A i \in 1 .. n : g[i] = DrainTurn(g[i - 1])}
  <1>1. N \in Nat
    BY LenProperties, FieldsOfOutput
  <1>2. \A p : Turn(p) = DrainTurn(p)
    OBVIOUS
  <1>3. Drained(o) = after[N]
    BY DEF Drained
  <1>. HIDE DEF Turn
  <1>4. \E g : g \in Runs(N)
    <2>. DEFINE Long == {n \in Nat : Runs(n) # {}}
    <2>1. 0 \in Long
      <3>1. [i \in 0 .. 0 |-> o] \in Runs(0)
        OBVIOUS
      <3>. QED
        BY <3>1
    <2>2. ASSUME NEW n \in Nat, n \in Long
          PROVE  n + 1 \in Long
      <3>1. PICK g \in Runs(n) : TRUE
        BY <2>2
      <3>. DEFINE h == [i \in 0 .. n + 1 |-> IF i <= n THEN g[i] ELSE DrainTurn(g[n])]
      <3>2. g[n] \in S
        BY <3>1
      <3>3. h \in [0 .. n + 1 -> S]
        BY <3>1, <3>2
      <3>4. h[0] = o
        BY <3>1
      <3>5. ASSUME NEW i \in 1 .. n + 1
            PROVE  h[i] = DrainTurn(h[i - 1])
        BY <3>1
      <3>6. h \in Runs(n + 1)
        BY <3>3, <3>4, <3>5
      <3>. QED
        BY <3>6
    <2>3. Nat \subseteq Long
      BY <2>1, <2>2, SetInduction
    <2>. QED
      BY <1>1, <2>3
  <1>5. after = Loop(after)
    <2>1. PICK g : g \in Runs(N)
      BY <1>4
    <2>2. g = [n \in 0 .. N |-> g[n]]
      BY <2>1
    <2>3. ASSUME NEW n \in 0 .. N
          PROVE  g[n] = IF n = 0 THEN o ELSE Turn(g[n - 1])
      BY <1>1, <1>2, <2>1, <2>3
    <2>4. g = Loop(g)
      BY <2>2, <2>3
    <2>. QED
      BY <2>4
  <1>. HIDE DEF after
  <1>6. after[0] = o /\ \A n \in 1 .. N : after[n] = DrainTurn(after[n - 1])
    BY <1>1, <1>2, <1>5
  <1>. DEFINE Good == {n \in Nat : n <= N =>
                         /\ after[n] \in S
                         /\ Blocked(after[n]) \/ Len(after[n].replies) = N - n}
  <1>7. 0 \in Good
    BY <1>1, <1>6
  <1>8. ASSUME NEW n \in Nat, n \in Good
        PROVE  n + 1 \in Good
    <2>. SUFFICES ASSUME n + 1 <= N
                  PROVE  /\ after[n + 1] \in S
                         /\ \/ Blocked(after[n + 1])
                            \/ Len(after[n + 1].replies) = N - (n + 1)
      OBVIOUS
    <2>1. after[n] \in S /\ (Blocked(after[n]) \/ Len(after[n].replies) = N - n)
      BY <1>1, <1>8
    <2>2. after[n + 1] = DrainTurn(after[n])
      BY <1>1, <1>6
    <2>3. \/ Blocked(after[n]) /\ after[n + 1] = after[n]
          \/ Len(after[n + 1].replies) = Len(after[n].replies) - 1
      BY <2>1, <2>2, TurnShortens
    <2>4. Blocked(after[n + 1]) \/ Len(after[n + 1].replies) = N - (n + 1)
      <3>1. CASE Blocked(after[n])
        <4>1. DrainTurn(after[n]) = after[n]
          BY <3>1 DEF Blocked, DrainTurn
        <4>. QED
          BY <2>2, <3>1, <4>1
      <3>2. CASE ~ Blocked(after[n])
        <4>1. Len(after[n + 1].replies) = N - n - 1
          BY <2>1, <2>3, <3>2
        <4>2. N - n - 1 = N - (n + 1)
          BY <1>1
        <4>. QED
          BY <4>1, <4>2
      <3>. QED
        BY <3>1, <3>2
    <2>. QED
      BY <2>1, <2>2, <2>4
  <1>9. N \in Good
    <2>1. Nat \subseteq Good
      BY <1>7, <1>8, SetInduction
    <2>. QED
      BY <1>1, <2>1
  <1>10. after[N] \in S /\ (Blocked(after[N]) \/ Len(after[N].replies) = 0)
    BY <1>1, <1>9
  <1>11. Len(after[N].replies) = 0 => after[N].replies = <<>>
    BY <1>10, FieldsOfOutput, EmptySeq
  <1>. QED
    BY <1>3, <1>10, <1>11 DEF Blocked

-----------------------------------------------------------------------------
(* The frames of a PDU.                                                    *)

\* A PDU has a whole number of frames.
LEMMA FrameCountType ==
    ASSUME NEW size \in Nat \ {0}
    PROVE  FrameCount(size) \in Nat
  <1>1. MaxFragmentSize \in Nat \ {0}
    BY ConfigAssumption
  <1>. QED
    BY <1>1 DEF FrameCount

\* The fields of one frame of a PDU.
LEMMA DataFrameFields ==
    ASSUME NEW id \in Nat, NEW size \in Nat \ {0}, NEW seq \in Nat,
           NEW i \in 1 .. FrameCount(size)
    PROVE  /\ DataFrame(id, size, seq, i) \in Frames
           /\ DataFrame(id, size, seq, i).id = id
           /\ DataFrame(id, size, seq, i).seq = seq + i - 1
           /\ DataFrame(id, size, seq, i).more <=> (i < FrameCount(size))
  <1>. DEFINE offset == (i - 1) * MaxFragmentSize
              len == Min({MaxFragmentSize, size - offset})
  <1>1. MaxFragmentSize \in Nat \ {0} /\ FrameCount(size) \in Nat
    BY ConfigAssumption, FrameCountType
  <1>2. offset \in Int
    BY <1>1
  <1>. HIDE DEF offset
  <1>3. len \in Int
    <2>1. size - offset \in Int
      BY <1>2
    <2>2. \E x \in {MaxFragmentSize, size - offset} :
             \A y \in {MaxFragmentSize, size - offset} : x <= y
      BY <1>1, <2>1
    <2>3. Min({MaxFragmentSize, size - offset}) \in {MaxFragmentSize, size - offset}
      BY <2>2 DEF Min
    <2>. QED
      BY <1>1, <2>1, <2>3
  <1>. HIDE DEF len
  <1>4. DataFrame(id, size, seq, i) =
          [kind |-> "OutputFrame", type |-> "UsbIpData", id |-> id, seq |-> seq + i - 1,
           total |-> size, offset |-> offset, len |-> len, more |-> i < FrameCount(size)]
    BY DEF DataFrame, offset, len
  <1>6. seq + i - 1 \in Nat
    BY <1>1
  <1>. DEFINE more == i < FrameCount(size)
  <1>7. more \in BOOLEAN
    OBVIOUS
  <1>8. DataFrame(id, size, seq, i) =
          [kind |-> "OutputFrame", type |-> "UsbIpData", id |-> id, seq |-> seq + i - 1,
           total |-> size, offset |-> offset, len |-> len, more |-> more]
    BY <1>4
  <1>. HIDE DEF more
  <1>9. DataFrame(id, size, seq, i) \in Frames
    BY <1>2, <1>3, <1>6, <1>7, <1>8 DEF Frames, FrameTypes
  <1>10. /\ DataFrame(id, size, seq, i).id = id
         /\ DataFrame(id, size, seq, i).seq = seq + i - 1
         /\ DataFrame(id, size, seq, i).more = more
    BY <1>8
  <1>11. DataFrame(id, size, seq, i).more <=> i < FrameCount(size)
    BY <1>10 DEF more
  <1>. QED
    BY <1>9, <1>10, <1>11

\* The frames of a PDU, one after the other.
LEMMA DataFramesFacts ==
    ASSUME NEW id \in Nat, NEW size \in Nat \ {0}, NEW seq \in Nat
    PROVE  /\ DataFrames(id, size, seq) \in Seq(Events)
           /\ Len(DataFrames(id, size, seq)) = FrameCount(size)
           /\ \A i \in 1 .. FrameCount(size) :
                 /\ IsFrame(DataFrames(id, size, seq)[i])
                 /\ DataFrames(id, size, seq)[i].id = id
                 /\ DataFrames(id, size, seq)[i].seq = seq + i - 1
           /\ \A i \in 1 .. FrameCount(size) :
                 DataFrames(id, size, seq)[i].more => i < FrameCount(size)
  <1>1. FrameCount(size) \in Nat
    BY FrameCountType
  <1>2. \A i \in 1 .. FrameCount(size) :
           /\ DataFrames(id, size, seq)[i] = DataFrame(id, size, seq, i)
           /\ DataFrames(id, size, seq)[i] \in Frames
    BY DataFrameFields DEF DataFrames
  <1>3. DataFrames(id, size, seq) = [i \in 1 .. FrameCount(size) |-> DataFrame(id, size, seq, i)]
    BY DEF DataFrames
  <1>4. DataFrames(id, size, seq) \in [1 .. FrameCount(size) -> Events]
    BY <1>2, <1>3 DEF Events
  <1>5. /\ DataFrames(id, size, seq) \in Seq(Events)
        /\ Len(DataFrames(id, size, seq)) = FrameCount(size)
    BY <1>1, <1>4
  <1>6. ASSUME NEW i \in 1 .. FrameCount(size)
        PROVE  /\ IsFrame(DataFrames(id, size, seq)[i])
               /\ DataFrames(id, size, seq)[i].id = id
               /\ DataFrames(id, size, seq)[i].seq = seq + i - 1
               /\ DataFrames(id, size, seq)[i].more => i < FrameCount(size)
    <2>1. DataFrames(id, size, seq)[i] = DataFrame(id, size, seq, i)
      BY <1>2
    <2>. DEFINE frame == DataFrame(id, size, seq, i)
    <2>2. /\ frame.id = id /\ frame.seq = seq + i - 1
          /\ frame.more <=> i < FrameCount(size)
          /\ frame \in Frames
      BY DataFrameFields
    <2>3. IsFrame(frame)
      BY <2>2 DEF IsFrame, Frames
    <2>. HIDE DEF frame
    <2>4. DataFrames(id, size, seq)[i] = frame
      BY <2>1 DEF frame
    <2>. QED
      BY <2>2, <2>3, <2>4, Zenon
  <1>. QED
    BY <1>5, <1>6

-----------------------------------------------------------------------------
(* What the steps of the output side make of its fields.                   *)

\* A record of the fields of an output side, each of its type, is one.
LEMMA OutputOfFields ==
    ASSUME NEW o,
           DOMAIN o = OutputFields, o = [field \in DOMAIN o |-> o[field]],
           o.bytes \in Nat, o.pdus \in Nat, o.reservations \in Reservations,
           o.replies \in Seq(Replies), o.seq \in Nat \ {0}, o.id \in Nat,
           o.events \in Seq(Events), o.framed \in [Tokens -> Nat]
    PROVE  o \in Outputs
  BY DEF Outputs, OutputFields

\* A notice to the owner changes the queue of events and nothing else.
LEMMA NotifyFacts ==
    ASSUME NEW o \in Outputs, NEW notices \in Seq(Events)
    PROVE  /\ Notify(o, notices) \in Outputs
           /\ Notify(o, notices).events = o.events \o notices
           /\ Notify(o, notices).bytes = o.bytes
           /\ Notify(o, notices).pdus = o.pdus
           /\ Notify(o, notices).reservations = o.reservations
           /\ Notify(o, notices).replies = o.replies
           /\ Notify(o, notices).seq = o.seq
           /\ Notify(o, notices).id = o.id
           /\ Notify(o, notices).framed = o.framed
  <1>1. o.events \o notices \in Seq(Events)
    BY FieldsOfOutput, ConcatProperties
  <1>. QED
    BY <1>1 DEF Notify, Outputs

\* A control frame takes the next sequence number and no credit.
LEMMA ControlFacts ==
    ASSUME NEW o \in Outputs, NEW type \in FrameTypes
    PROVE  /\ Control(o, type) \in Outputs
           /\ Control(o, type).events = Append(o.events, Frame(type, NoId, o.seq))
           /\ Frame(type, NoId, o.seq) \in Frames
           /\ Control(o, type).bytes = o.bytes
           /\ Control(o, type).pdus = o.pdus
           /\ Control(o, type).reservations = o.reservations
           /\ Control(o, type).replies = o.replies
           /\ Control(o, type).seq = o.seq + 1
           /\ Control(o, type).id = o.id
           /\ Control(o, type).framed = o.framed
  <1>1. Frame(type, NoId, o.seq) \in Frames
    BY FieldsOfOutput DEF Frame, Frames, NoId
  <1>2. /\ Control(o, type).events = Append(o.events, Frame(type, NoId, o.seq))
        /\ Control(o, type).seq = o.seq + 1
        /\ Control(o, type).bytes = o.bytes /\ Control(o, type).pdus = o.pdus
        /\ Control(o, type).reservations = o.reservations
        /\ Control(o, type).replies = o.replies
        /\ Control(o, type).id = o.id /\ Control(o, type).framed = o.framed
        /\ DOMAIN Control(o, type) = OutputFields
    BY FieldsOfOutput DEF Control, OutputFields
  <1>3. Control(o, type) = [field \in DOMAIN Control(o, type) |-> Control(o, type)[field]]
    BY DEF Control
  <1>4. Append(o.events, Frame(type, NoId, o.seq)) \in Seq(Events)
    BY <1>1, FieldsOfOutput, AppendProperties DEF Events
  <1>5. o.seq + 1 \in Nat \ {0}
    BY FieldsOfOutput
  <1>6. Control(o, type) \in Outputs
    BY <1>2, <1>3, <1>4, <1>5, FieldsOfOutput, OutputOfFields
  <1>. QED
    BY <1>1, <1>2, <1>6

\* What it takes for send_pdu() to succeed.
LEMMA SendOk ==
    ASSUME Broker!BrokerTypeOK,
           NEW o \in Outputs, NEW id \in Nat, NEW size \in Nat,
           SendResult(id, size, o) = "Ok"
    PROVE  /\ state = "Running" /\ brokerState = "Established"
           /\ id \notin DOMAIN o.reservations
           /\ size \in 1 .. MaxReassembly
           /\ o.bytes + size <= TxWindowBytes /\ o.pdus + 1 <= TxWindowPdus
           /\ size <= negotiatedMaxPdu /\ o.pdus + 1 <= negotiatedMaxInflight
           /\ CanFragment(size)
  <1>. DEFINE reserved == Broker!ReserveSendResult(size, o.bytes, o.pdus)
  <1>1. state = "Running" /\ id \notin DOMAIN o.reservations
    BY DEF SendResult
  <1>2. reserved = "Ok" /\ CanFragment(size)
    BY <1>1 DEF SendResult
  <1>3. /\ brokerState = "Established" /\ ~ Broker!Exceeds(size, o.pdus)
        /\ ~ (size > TxWindowBytes - o.bytes \/ o.pdus >= TxWindowPdus)
    BY <1>2 DEF Broker!ReserveSendResult, Broker!ReserveResult
  <1>4. negotiatedMaxPdu \in Nat /\ negotiatedMaxInflight \in Nat
    BY DEF Broker!BrokerTypeOK
  <1>5. o.bytes \in Nat /\ o.pdus \in Nat
    BY FieldsOfOutput
  <1>6. TxWindowBytes \in Nat /\ TxWindowPdus \in Nat /\ MaxReassembly \in Nat
    BY ConfigAssumption
  <1>7. o.bytes + size <= TxWindowBytes /\ o.pdus + 1 <= TxWindowPdus
    BY <1>3, <1>5, <1>6
  <1>8. size <= negotiatedMaxPdu /\ o.pdus + 1 <= negotiatedMaxInflight
    BY <1>3, <1>4, <1>5 DEF Broker!Exceeds
  <1>9. size \in 1 .. MaxReassembly
    BY <1>2, <1>6 DEF CanFragment
  <1>. QED
    BY <1>1, <1>2, <1>3, <1>7, <1>8, <1>9

\* What send_pdu() does to the table of reservations.
LEMMA InsertReservation ==
    ASSUME NEW res \in Reservations, NEW id \in Nat, NEW size \in 1 .. MaxReassembly
    PROVE  /\ Executor!Insert(res, id, size) \in Reservations
           /\ DOMAIN Executor!Insert(res, id, size) = DOMAIN res \cup {id}
           /\ Executor!Insert(res, id, size)[id] = size
           /\ \A k \in DOMAIN res \ {id} : Executor!Insert(res, id, size)[k] = res[k]
  <1>. DEFINE after == Executor!Insert(res, id, size)
  <1>1. after = [k \in DOMAIN res \cup {id} |-> IF k = id THEN size ELSE res[k]]
    BY DEF Executor!Insert
  <1>. HIDE DEF after
  <1>2. DOMAIN res \cup {id} \in SUBSET Nat
    BY ReservationFacts
  <1>3. after \in [DOMAIN res \cup {id} -> 1 .. MaxReassembly]
    BY <1>1, ReservationFacts
  <1>4. after \in Reservations
    BY <1>2, <1>3, ReservationFacts
  <1>5. /\ DOMAIN after = DOMAIN res \cup {id} /\ after[id] = size
        /\ \A k \in DOMAIN res \ {id} : after[k] = res[k]
    BY <1>1
  <1>. QED
    BY <1>4, <1>5 DEF after

\* What send_pdu() does to each field of the output side.
LEMMA SentFacts ==
    ASSUME NEW o \in Outputs, NEW id \in Nat, NEW size \in 1 .. MaxReassembly
    PROVE  /\ Sent(o, id, size) \in Outputs
           /\ Sent(o, id, size).bytes = o.bytes + size
           /\ Sent(o, id, size).pdus = o.pdus + 1
           /\ Sent(o, id, size).reservations = Executor!Insert(o.reservations, id, size)
           /\ Sent(o, id, size).replies = o.replies
           /\ Sent(o, id, size).seq = o.seq + FrameCount(size)
           /\ Sent(o, id, size).id = o.id
           /\ Sent(o, id, size).events = o.events \o DataFrames(id, size, o.seq)
           /\ Sent(o, id, size).framed = o.framed
  <1>. DEFINE after == Sent(o, id, size)
  <1>1. size \in Nat \ {0}
    OBVIOUS
  <1>2. /\ after.bytes = o.bytes + size /\ after.pdus = o.pdus + 1
        /\ after.reservations = Executor!Insert(o.reservations, id, size)
        /\ after.replies = o.replies
        /\ after.seq = o.seq + FrameCount(size) /\ after.id = o.id
        /\ after.events = o.events \o DataFrames(id, size, o.seq)
        /\ after.framed = o.framed
        /\ DOMAIN after = OutputFields
    BY FieldsOfOutput DEF Sent, OutputFields
  <1>3. after = [field \in DOMAIN after |-> after[field]]
    BY DEF Sent
  <1>. HIDE DEF after
  <1>4. o.bytes + size \in Nat /\ o.pdus + 1 \in Nat /\ o.seq + FrameCount(size) \in Nat \ {0}
    BY <1>1, FieldsOfOutput, FrameCountType
  <1>5. o.events \o DataFrames(id, size, o.seq) \in Seq(Events)
    BY <1>1, FieldsOfOutput, DataFramesFacts, ConcatProperties
  <1>6. Executor!Insert(o.reservations, id, size) \in Reservations
    BY FieldsOfOutput, InsertReservation
  <1>7. after \in Outputs
    BY <1>2, <1>3, <1>4, <1>5, <1>6, FieldsOfOutput, OutputOfFields
  <1>. QED
    BY <1>2, <1>7 DEF after

\* The reply at the front leaves and is counted if it is a RET_SUBMIT.
LEMMA FrontSentFacts ==
    ASSUME NEW o \in Outputs, o.replies # <<>>, Head(o.replies).size <= MaxReassembly
    PROVE  LET reply == Head(o.replies)
               sent == Sent(o, reply.id, reply.size)
           IN  /\ reply \in Replies /\ reply.size \in 1 .. MaxReassembly
               /\ sent \in Outputs
               /\ FrontSent(o) \in Outputs
               /\ FrontSent(o).bytes = sent.bytes
               /\ FrontSent(o).pdus = sent.pdus
               /\ FrontSent(o).reservations = sent.reservations
               /\ FrontSent(o).replies = Tail(o.replies)
               /\ FrontSent(o).seq = sent.seq
               /\ FrontSent(o).id = o.id
               /\ FrontSent(o).events = sent.events
               /\ FrontSent(o).framed =
                    [t \in Tokens |-> o.framed[t] +
                       (IF reply.kind = "RetSubmit" /\ reply.token = t THEN 1 ELSE 0)]
  <1>. DEFINE reply == Head(o.replies)
              sent == Sent(o, reply.id, reply.size)
              count == [t \in Tokens |-> sent.framed[t] +
                          (IF reply.kind = "RetSubmit" /\ reply.token = t THEN 1 ELSE 0)]
  <1>1. o.replies \in Seq(Replies)
    BY FieldsOfOutput
  <1>2. reply \in Replies /\ Tail(o.replies) \in Seq(Replies)
    BY <1>1, HeadTailProperties
  <1>3. reply.id \in Nat /\ reply.size \in 1 .. MaxReassembly
    <2>1. MaxReassembly \in Nat
      BY ConfigAssumption
    <2>2. reply.id \in Nat /\ reply.size \in Nat \ {0}
      BY <1>2 DEF Replies
    <2>. QED
      BY <2>1, <2>2
  <1>4. sent \in Outputs /\ sent.replies = o.replies /\ sent.id = o.id /\ sent.framed = o.framed
    BY <1>3, SentFacts
  <1>5. FrontSent(o) = [sent EXCEPT !.replies = Tail(sent.replies), !.framed = count]
    BY DEF FrontSent
  <1>. HIDE DEF sent, count
  <1>6. count \in [Tokens -> Nat]
    <2>1. sent.framed \in [Tokens -> Nat]
      BY <1>4, FieldsOfOutput
    <2>. QED
      BY <2>1 DEF count
  <1>7. /\ DOMAIN FrontSent(o) = OutputFields
        /\ FrontSent(o).bytes = sent.bytes /\ FrontSent(o).pdus = sent.pdus
        /\ FrontSent(o).reservations = sent.reservations
        /\ FrontSent(o).replies = Tail(sent.replies)
        /\ FrontSent(o).seq = sent.seq /\ FrontSent(o).id = sent.id
        /\ FrontSent(o).events = sent.events
        /\ FrontSent(o).framed = count
    BY <1>4, <1>5, FieldsOfOutput DEF OutputFields
  <1>8. FrontSent(o) = [field \in DOMAIN FrontSent(o) |-> FrontSent(o)[field]]
    BY <1>5
  <1>9. FrontSent(o) \in Outputs
    BY <1>2, <1>4, <1>6, <1>7, <1>8, FieldsOfOutput, OutputOfFields
  <1>10. count = [t \in Tokens |-> o.framed[t] +
                    (IF reply.kind = "RetSubmit" /\ reply.token = t THEN 1 ELSE 0)]
    BY <1>4 DEF count
  <1>. QED
    BY <1>2, <1>3, <1>4, <1>7, <1>9, <1>10 DEF sent

\* Replies as the executor gives them, before they have a PDU id.
UnsentReplies == [kind : {"RetSubmit", "RetUnlink"}, token : Nat, size : Nat \ {0}]

\* Replies are queued behind those that wait, with consecutive internal ids.
LEMMA EnqueueFacts ==
    ASSUME NEW o \in Outputs, NEW replies \in Seq(UnsentReplies)
    PROVE  /\ Enqueue(o, replies) \in Outputs
           /\ Enqueue(o, replies).bytes = o.bytes
           /\ Enqueue(o, replies).pdus = o.pdus
           /\ Enqueue(o, replies).reservations = o.reservations
           /\ Enqueue(o, replies).seq = o.seq
           /\ Enqueue(o, replies).events = o.events
           /\ Enqueue(o, replies).framed = o.framed
           /\ Enqueue(o, replies).id = o.id + Len(replies)
           /\ Len(Enqueue(o, replies).replies) = Len(o.replies) + Len(replies)
           /\ \A i \in 1 .. Len(o.replies) : Enqueue(o, replies).replies[i] = o.replies[i]
           /\ \A i \in 1 .. Len(replies) :
                 LET reply == Enqueue(o, replies).replies[Len(o.replies) + i]
                 IN  /\ reply.id = o.id + i - 1
                     /\ reply.kind = replies[i].kind /\ reply.token = replies[i].token
                     /\ reply.size = replies[i].size
  <1>. DEFINE numbered == [i \in 1 .. Len(replies) |->
                             [id |-> o.id + i - 1, kind |-> replies[i].kind,
                              token |-> replies[i].token, size |-> replies[i].size]]
              after == Enqueue(o, replies)
  <1>1. Len(replies) \in Nat /\ \A i \in 1 .. Len(replies) : replies[i] \in UnsentReplies
    BY LenProperties
  <1>2. o.id \in Nat /\ o.replies \in Seq(Replies)
    BY FieldsOfOutput
  <1>3. \A i \in 1 .. Len(replies) : numbered[i] \in Replies
    BY <1>1, <1>2 DEF UnsentReplies, Replies
  <1>4. numbered \in Seq(Replies) /\ Len(numbered) = Len(replies)
    BY <1>1, <1>3
  <1>5. after = [o EXCEPT !.id = o.id + Len(replies), !.replies = o.replies \o numbered]
    BY DEF Enqueue
  <1>6. \A i \in 1 .. Len(replies) :
           /\ numbered[i].id = o.id + i - 1
           /\ numbered[i].kind = replies[i].kind /\ numbered[i].token = replies[i].token
           /\ numbered[i].size = replies[i].size
    OBVIOUS
  <1>. HIDE DEF numbered, after
  <1>7. /\ DOMAIN after = OutputFields
        /\ after.bytes = o.bytes /\ after.pdus = o.pdus
        /\ after.reservations = o.reservations
        /\ after.seq = o.seq /\ after.events = o.events /\ after.framed = o.framed
        /\ after.id = o.id + Len(replies)
        /\ after.replies = o.replies \o numbered
    BY <1>5, FieldsOfOutput DEF OutputFields
  <1>8. after = [field \in DOMAIN after |-> after[field]]
    BY <1>5
  <1>9. /\ o.replies \o numbered \in Seq(Replies)
        /\ Len(o.replies \o numbered) = Len(o.replies) + Len(replies)
        /\ \A i \in 1 .. Len(o.replies) : (o.replies \o numbered)[i] = o.replies[i]
        /\ \A i \in 1 .. Len(replies) :
              (o.replies \o numbered)[Len(o.replies) + i] = numbered[i]
    <2>1. Len(o.replies) \in Nat
      BY <1>2, LenProperties
    <2>2. /\ o.replies \o numbered \in Seq(Replies)
          /\ Len(o.replies \o numbered) = Len(o.replies) + Len(numbered)
          /\ \A i \in 1 .. Len(o.replies) + Len(numbered) : (o.replies \o numbered)[i] =
                IF i <= Len(o.replies) THEN o.replies[i] ELSE numbered[i - Len(o.replies)]
      BY <1>2, <1>4, ConcatProperties
    <2>3. ASSUME NEW i \in 1 .. Len(o.replies)
          PROVE  (o.replies \o numbered)[i] = o.replies[i]
      BY <1>1, <1>4, <2>1, <2>2
    <2>4. ASSUME NEW i \in 1 .. Len(replies)
          PROVE  (o.replies \o numbered)[Len(o.replies) + i] = numbered[i]
      <3>1. Len(o.replies) + i \in 1 .. Len(o.replies) + Len(numbered)
        BY <1>1, <1>4, <2>1
      <3>2. Len(o.replies) + i - Len(o.replies) = i /\ ~ (Len(o.replies) + i <= Len(o.replies))
        BY <1>1, <2>1
      <3>. QED
        BY <2>2, <3>1, <3>2
    <2>. QED
      BY <1>4, <2>2, <2>3, <2>4
  <1>10. after \in Outputs
    <2>1. o.id + Len(replies) \in Nat
      BY <1>1, <1>2
    <2>. QED
      BY <2>1, <1>7, <1>8, <1>9, FieldsOfOutput, OutputOfFields
  <1>. QED
    BY <1>6, <1>7, <1>9, <1>10 DEF after

-----------------------------------------------------------------------------
(* The frames among the events.                                            *)

At(queue) == {i \in DOMAIN queue : IsFrame(queue[i])}

\* The frames of a queue are numbered one after the other, up to next - 1.
Numbered(queue, next) ==
    /\ \A i, j \in At(queue) :
          i < j /\ (\A k \in At(queue) : k <= i \/ j <= k)
              => queue[j].seq = queue[i].seq + 1
    /\ \A i \in At(queue) : (\A k \in At(queue) : k <= i) => queue[i].seq = next - 1

\* A frame marked MORE is followed by the next frame of its PDU.
Together(queue) ==
    \A i \in At(queue) :
        queue[i].more => i + 1 \in At(queue) /\ queue[i + 1].id = queue[i].id

\* The frames of replies are in the order of their ids, all below a bound.
RepliesAt(queue) ==
    {i \in At(queue) : queue[i].id \notin OwnPduIds /\ queue[i].id >= FirstInternalId}
Ascending(queue, bound) ==
    /\ \A i, j \in RepliesAt(queue) : i < j => queue[i].id <= queue[j].id
    /\ \A i \in RepliesAt(queue) : queue[i].id < bound

\* Where the elements of a concatenation come from.
LEMMA ConcatParts ==
    ASSUME NEW S, NEW front \in Seq(S), NEW back \in Seq(S)
    PROVE  /\ Len(front) \in Nat /\ Len(back) \in Nat
           /\ front \o back \in Seq(S)
           /\ DOMAIN front = 1 .. Len(front) /\ DOMAIN back = 1 .. Len(back)
           /\ DOMAIN (front \o back) = 1 .. Len(front) + Len(back)
           /\ \A i \in 1 .. Len(front) : (front \o back)[i] = front[i]
           /\ \A i \in 1 .. Len(back) : (front \o back)[Len(front) + i] = back[i]
  <1>1. Len(front) \in Nat /\ Len(back) \in Nat
    BY LenProperties
  <1>2. /\ front \o back \in Seq(S) /\ Len(front \o back) = Len(front) + Len(back)
        /\ \A i \in 1 .. Len(front) + Len(back) : (front \o back)[i] =
              IF i <= Len(front) THEN front[i] ELSE back[i - Len(front)]
    BY ConcatProperties
  <1>3. DOMAIN (front \o back) = 1 .. Len(front) + Len(back)
    BY <1>2, LenProperties
  <1>4. ASSUME NEW i \in 1 .. Len(front)
        PROVE  (front \o back)[i] = front[i]
    BY <1>1, <1>2
  <1>5. ASSUME NEW i \in 1 .. Len(back)
        PROVE  (front \o back)[Len(front) + i] = back[i]
    <2>1. Len(front) + i \in 1 .. Len(front) + Len(back)
      BY <1>1
    <2>2. Len(front) + i - Len(front) = i /\ ~ (Len(front) + i <= Len(front))
      BY <1>1
    <2>. QED
      BY <1>2, <2>1, <2>2
  <1>. QED
    BY <1>1, <1>2, <1>3, <1>4, <1>5, LenProperties

\* Where the frames of a concatenation are.
LEMMA FramesOfConcat ==
    ASSUME NEW front \in Seq(Events), NEW back \in Seq(Events)
    PROVE  /\ At(front) \subseteq 1 .. Len(front)
           /\ \A i \in 1 .. Len(front) : i \in At(front \o back) <=> i \in At(front)
           /\ \A i \in 1 .. Len(back) :
                 Len(front) + i \in At(front \o back) <=> i \in At(back)
           /\ \A i \in At(front \o back) :
                 \/ i \in At(front)
                 \/ \E j \in At(back) : i = Len(front) + j
  <1>. DEFINE whole == front \o back
  <1>1. /\ Len(front) \in Nat /\ Len(back) \in Nat
        /\ DOMAIN front = 1 .. Len(front) /\ DOMAIN back = 1 .. Len(back)
        /\ DOMAIN whole = 1 .. Len(front) + Len(back)
        /\ \A i \in 1 .. Len(front) : whole[i] = front[i]
        /\ \A i \in 1 .. Len(back) : whole[Len(front) + i] = back[i]
    BY ConcatParts
  <1>. HIDE DEF whole
  <1>2. At(front) \subseteq 1 .. Len(front)
    BY <1>1 DEF At
  <1>3. \A i \in 1 .. Len(front) : i \in At(whole) <=> i \in At(front)
    BY <1>1 DEF At
  <1>4. \A i \in 1 .. Len(back) : Len(front) + i \in At(whole) <=> i \in At(back)
    BY <1>1 DEF At
  <1>5. ASSUME NEW i \in At(whole)
        PROVE  i \in At(front) \/ \E j \in At(back) : i = Len(front) + j
    <2>1. i \in 1 .. Len(front) + Len(back)
      BY <1>1 DEF At
    <2>2. CASE i <= Len(front)
      BY <1>1, <1>3, <2>1, <2>2
    <2>3. CASE i > Len(front)
      <3>1. i - Len(front) \in 1 .. Len(back) /\ i = Len(front) + (i - Len(front))
        BY <1>1, <2>1, <2>3
      <3>2. i - Len(front) \in At(back)
        BY <1>4, <3>1
      <3>. QED
        BY <3>1, <3>2
    <2>. QED
      BY <1>1, <2>1, <2>2, <2>3
  <1>. QED
    BY <1>2, <1>3, <1>4, <1>5 DEF whole

\* Events that are no frames leave the frames as they are.
LEMMA NoticesKeepNumbers ==
    ASSUME NEW queue \in Seq(Events), NEW notices \in Seq(Events), At(notices) = {},
           NEW next, Numbered(queue, next)
    PROVE  Numbered(queue \o notices, next)
  <1>. DEFINE whole == queue \o notices
  <1>1. \A i \in At(queue) : whole[i] = queue[i]
    BY ConcatParts, FramesOfConcat
  <1>2. At(whole) = At(queue)
    <2>1. \A i \in At(whole) : i \in At(queue)
      BY FramesOfConcat
    <2>2. \A i \in At(queue) : i \in At(whole)
      BY FramesOfConcat
    <2>. QED
      BY <2>1, <2>2
  <1>. HIDE DEF whole
  <1>. QED
    BY <1>1, <1>2 DEF Numbered, whole

\* A run of frames that starts at the next number is numbered on.
LEMMA FramesKeepNumbers ==
    ASSUME NEW queue \in Seq(Events), NEW frames \in Seq(Events),
           NEW next \in Nat, Numbered(queue, next),
           \A i \in 1 .. Len(frames) : IsFrame(frames[i]) /\ frames[i].seq = next + i - 1
    PROVE  Numbered(queue \o frames, next + Len(frames))
  <1>. DEFINE whole == queue \o frames
              n == Len(queue)
              m == Len(frames)
  <1>1. /\ n \in Nat /\ m \in Nat
        /\ \A i \in 1 .. n : whole[i] = queue[i]
        /\ \A i \in 1 .. m : whole[n + i] = frames[i]
        /\ DOMAIN frames = 1 .. m
    BY ConcatParts
  <1>2. At(frames) = 1 .. m
    BY <1>1 DEF At
  <1>3. /\ At(queue) \subseteq 1 .. n
        /\ \A i \in 1 .. n : i \in At(whole) <=> i \in At(queue)
        /\ \A i \in 1 .. m : n + i \in At(whole)
        /\ \A i \in At(whole) : i \in At(queue) \/ \E j \in 1 .. m : i = n + j
    BY <1>2, FramesOfConcat
  <1>4. \A i \in At(queue) : i \in Nat /\ i <= n /\ i \in At(whole) /\ whole[i] = queue[i]
    BY <1>1, <1>3
  <1>5. \A i \in 1 .. m : n + i \in At(whole) /\ whole[n + i].seq = next + i - 1
    BY <1>1, <1>3
  <1>. HIDE DEF whole, n, m
  <1>6. ASSUME NEW i \in At(whole), NEW j \in At(whole), i < j,
               \A k \in At(whole) : k <= i \/ j <= k
        PROVE  whole[j].seq = whole[i].seq + 1
    <2>1. CASE j \in At(queue)
      <3>1. i \in At(queue)
        BY <1>1, <1>3, <1>4, <1>6, <2>1
      <3>2. \A k \in At(queue) : k <= i \/ j <= k
        BY <1>4, <1>6
      <3>. QED
        BY <1>4, <1>6, <2>1, <3>1, <3>2 DEF Numbered
    <2>2. ASSUME NEW b \in 1 .. m, j = n + b
          PROVE  whole[j].seq = whole[i].seq + 1
      <3>1. CASE i \in At(queue)
        <4>1. b = 1
          <5>1. n + 1 \in At(whole)
            BY <1>1, <1>5, <2>2
          <5>2. n + 1 <= i \/ j <= n + 1
            BY <1>6, <5>1
          <5>3. i \in Nat /\ i <= n
            BY <1>4, <3>1
          <5>4. n \in Nat /\ b \in Nat /\ b >= 1 /\ n + b <= n + 1
            BY <1>1, <2>2, <5>2, <5>3
          <5>. QED
            BY <5>4
        <4>2. \A k \in At(queue) : k <= i
          BY <1>1, <1>4, <1>6, <2>2
        <4>3. whole[i].seq = next - 1
          BY <1>4, <3>1, <4>2 DEF Numbered
        <4>4. whole[j].seq = next + 1 - 1
          BY <1>5, <2>2, <4>1
        <4>. QED
          BY <4>3, <4>4
      <3>2. ASSUME NEW a \in 1 .. m, i = n + a
            PROVE  whole[j].seq = whole[i].seq + 1
        <4>1. a < b
          BY <1>1, <1>6, <2>2, <3>2
        <4>2. a + 1 \in 1 .. m
          BY <1>1, <4>1
        <4>3. n + (a + 1) <= i \/ j <= n + (a + 1)
          BY <1>5, <1>6, <4>2
        <4>4. b = a + 1
          BY <1>1, <2>2, <3>2, <4>1, <4>3
        <4>5. whole[i].seq = next + a - 1 /\ whole[j].seq = next + b - 1
          BY <1>5, <2>2, <3>2
        <4>. QED
          BY <4>4, <4>5
      <3>. QED
        BY <1>3, <3>1, <3>2
    <2>. QED
      BY <1>3, <2>1, <2>2
  <1>7. ASSUME NEW i \in At(whole), \A k \in At(whole) : k <= i
        PROVE  whole[i].seq = next + m - 1
    <2>1. CASE m = 0
      <3>1. At(whole) = At(queue)
        <4>1. 1 .. m = {}
          BY <1>1, <2>1
        <4>2. \A k \in At(whole) : k \in At(queue)
          BY <1>3, <4>1
        <4>. QED
          BY <1>4, <4>2
      <3>2. whole[i].seq = next - 1
        BY <1>4, <1>7, <3>1 DEF Numbered
      <3>. QED
        BY <2>1, <3>2
    <2>2. CASE m > 0
      <3>1. m \in 1 .. m
        BY <1>1, <2>2
      <3>2. n + m <= i
        BY <1>5, <1>7, <3>1
      <3>3. ~ (i \in At(queue))
        BY <1>1, <1>4, <2>2, <3>2
      <3>4. PICK j \in 1 .. m : i = n + j
        BY <1>3, <3>3
      <3>5. i = n + m
        BY <1>1, <3>2, <3>4
      <3>. QED
        BY <1>5, <3>1, <3>5
    <2>. QED
      BY <1>1, <2>1, <2>2
  <1>. DEFINE after == next + m
  <1>8. Numbered(whole, after)
    <2>1. \A i, j \in At(whole) :
             i < j /\ (\A k \in At(whole) : k <= i \/ j <= k)
                 => whole[j].seq = whole[i].seq + 1
      BY <1>6
    <2>2. \A i \in At(whole) :
             (\A k \in At(whole) : k <= i) => whole[i].seq = after - 1
      <3>. SUFFICES ASSUME NEW i \in At(whole), \A k \in At(whole) : k <= i
                    PROVE  whole[i].seq = after - 1
        OBVIOUS
      <3>1. whole[i].seq = next + m - 1
        BY <1>7
      <3>. QED
        BY <1>1, <3>1 DEF after
    <2>. HIDE DEF after
    <2>. QED
      BY <2>1, <2>2 DEF Numbered
  <1>. QED
    BY <1>8 DEF whole, m

\* Where the frames are once the oldest event is taken.
LEMMA FramesOfTail ==
    ASSUME NEW queue \in Seq(Events), queue # <<>>
    PROVE  \A i \in At(Tail(queue)) :
              i \in Nat /\ i + 1 \in At(queue) /\ Tail(queue)[i] = queue[i + 1]
  <1>1. /\ Len(queue) \in Nat /\ DOMAIN queue = 1 .. Len(queue)
        /\ Tail(queue) \in Seq(Events) /\ Len(Tail(queue)) = Len(queue) - 1
        /\ \A i \in 1 .. Len(Tail(queue)) : Tail(queue)[i] = queue[i + 1]
    BY HeadTailProperties, LenProperties
  <1>2. DOMAIN Tail(queue) = 1 .. Len(queue) - 1
    BY <1>1, LenProperties
  <1>3. ASSUME NEW i \in At(Tail(queue))
        PROVE  i \in Nat /\ i + 1 \in At(queue) /\ Tail(queue)[i] = queue[i + 1]
    <2>1. i \in 1 .. Len(queue) - 1 /\ IsFrame(Tail(queue)[i])
      BY <1>2 DEF At
    <2>2. i + 1 \in DOMAIN queue /\ Tail(queue)[i] = queue[i + 1]
      BY <1>1, <2>1
    <2>. QED
      BY <2>1, <2>2 DEF At
  <1>. QED
    BY <1>3

\* And which frames stay.
LEMMA FramesStay ==
    ASSUME NEW queue \in Seq(Events), queue # <<>>
    PROVE  \A k \in At(queue) :
              k \in Nat \ {0} /\ (k > 1 => k - 1 \in At(Tail(queue)))
  <1>1. /\ Len(queue) \in Nat /\ DOMAIN queue = 1 .. Len(queue)
        /\ Tail(queue) \in Seq(Events) /\ Len(Tail(queue)) = Len(queue) - 1
        /\ \A i \in 1 .. Len(Tail(queue)) : Tail(queue)[i] = queue[i + 1]
    BY HeadTailProperties, LenProperties
  <1>2. DOMAIN Tail(queue) = 1 .. Len(queue) - 1
    BY <1>1, LenProperties
  <1>3. ASSUME NEW k \in At(queue)
        PROVE  k \in Nat \ {0} /\ (k > 1 => k - 1 \in At(Tail(queue)))
    <2>1. k \in 1 .. Len(queue) /\ IsFrame(queue[k])
      BY <1>1 DEF At
    <2>2. ASSUME k > 1
          PROVE  k - 1 \in At(Tail(queue))
      <3>1. k - 1 \in 1 .. Len(queue) - 1 /\ k - 1 + 1 = k
        BY <1>1, <2>1, <2>2
      <3>2. Tail(queue)[k - 1] = queue[k]
        BY <1>1, <3>1
      <3>. QED
        BY <1>2, <2>1, <3>1, <3>2 DEF At
    <2>. QED
      BY <2>1, <2>2
  <1>. QED
    BY <1>3

\* The oldest event may go.
LEMMA TailKeepsNumbers ==
    ASSUME NEW queue \in Seq(Events), queue # <<>>, NEW next, Numbered(queue, next)
    PROVE  Numbered(Tail(queue), next)
  <1>. DEFINE rest == Tail(queue)
  <1>1. \A i \in At(rest) : i \in Nat /\ i + 1 \in At(queue) /\ rest[i] = queue[i + 1]
    BY FramesOfTail
  <1>2. \A k \in At(queue) : k \in Nat \ {0} /\ (k > 1 => k - 1 \in At(rest))
    BY FramesStay
  <1>. HIDE DEF rest
  <1>3. ASSUME NEW i \in At(rest), NEW j \in At(rest), i < j,
               \A k \in At(rest) : k <= i \/ j <= k
        PROVE  rest[j].seq = rest[i].seq + 1
    <2>1. ASSUME NEW k \in At(queue)
          PROVE  k <= i + 1 \/ j + 1 <= k
      <3>1. CASE k > 1
        <4>1. k - 1 <= i \/ j <= k - 1
          BY <1>2, <1>3, <3>1
        <4>. QED
          BY <1>1, <1>2, <4>1
      <3>. QED
        BY <1>1, <1>2, <3>1
    <2>2. i + 1 < j + 1
      BY <1>1, <1>3
    <2>3. queue[j + 1].seq = queue[i + 1].seq + 1
      BY <1>1, <2>1, <2>2 DEF Numbered
    <2>. QED
      BY <1>1, <2>3
  <1>4. ASSUME NEW i \in At(rest), \A k \in At(rest) : k <= i
        PROVE  rest[i].seq = next - 1
    <2>1. ASSUME NEW k \in At(queue)
          PROVE  k <= i + 1
      <3>1. CASE k > 1
        <4>1. k - 1 <= i
          BY <1>2, <1>4, <3>1
        <4>. QED
          BY <1>1, <1>2, <4>1
      <3>. QED
        BY <1>1, <1>2, <3>1
    <2>2. queue[i + 1].seq = next - 1
      BY <1>1, <2>1 DEF Numbered
    <2>. QED
      BY <1>1, <2>2
  <1>. QED
    BY <1>3, <1>4 DEF Numbered, rest

-----------------------------------------------------------------------------
(* Frames of a PDU stay together.                                          *)

\* What joins a queue in one piece stays in one piece.
LEMMA ConcatKeepsTogether ==
    ASSUME NEW front \in Seq(Events), NEW back \in Seq(Events),
           Together(front), Together(back)
    PROVE  Together(front \o back)
  <1>. DEFINE whole == front \o back
              n == Len(front)
  <1>1. /\ n \in Nat /\ Len(back) \in Nat
        /\ \A i \in 1 .. n : whole[i] = front[i]
        /\ \A i \in 1 .. Len(back) : whole[n + i] = back[i]
        /\ DOMAIN back = 1 .. Len(back)
    BY ConcatParts
  <1>2. /\ At(front) \subseteq 1 .. n
        /\ \A i \in 1 .. n : i \in At(whole) <=> i \in At(front)
        /\ \A i \in 1 .. Len(back) : n + i \in At(whole) <=> i \in At(back)
        /\ \A i \in At(whole) : i \in At(front) \/ \E j \in At(back) : i = n + j
    BY FramesOfConcat
  <1>3. At(back) \subseteq 1 .. Len(back)
    BY <1>1 DEF At
  <1>. HIDE DEF whole, n
  <1>4. ASSUME NEW i \in At(whole), whole[i].more
        PROVE  i + 1 \in At(whole) /\ whole[i + 1].id = whole[i].id
    <2>1. CASE i \in At(front)
      <3>1. front[i].more
        BY <1>1, <1>2, <1>4, <2>1
      <3>2. i + 1 \in At(front) /\ front[i + 1].id = front[i].id
        BY <2>1, <3>1 DEF Together
      <3>. QED
        BY <1>1, <1>2, <2>1, <3>2
    <2>2. ASSUME NEW j \in At(back), i = n + j
          PROVE  i + 1 \in At(whole) /\ whole[i + 1].id = whole[i].id
      <3>1. back[j].more
        BY <1>1, <1>3, <1>4, <2>2
      <3>2. j + 1 \in At(back) /\ back[j + 1].id = back[j].id
        BY <3>1 DEF Together
      <3>3. i + 1 = n + (j + 1)
        BY <1>1, <1>3, <2>2
      <3>. QED
        BY <1>1, <1>2, <1>3, <2>2, <3>2, <3>3
    <2>. QED
      BY <1>2, <2>1, <2>2
  <1>. QED
    BY <1>4 DEF Together, whole

\* A taken event tears no PDU of the rest of the queue.
LEMMA TailKeepsTogether ==
    ASSUME NEW queue \in Seq(Events), queue # <<>>, Together(queue)
    PROVE  Together(Tail(queue))
  <1>. DEFINE rest == Tail(queue)
  <1>1. \A i \in At(rest) : i \in Nat /\ i + 1 \in At(queue) /\ rest[i] = queue[i + 1]
    BY FramesOfTail
  <1>2. \A k \in At(queue) : k \in Nat \ {0} /\ (k > 1 => k - 1 \in At(rest))
    BY FramesStay
  <1>. HIDE DEF rest
  <1>3. ASSUME NEW i \in At(rest), rest[i].more
        PROVE  i + 1 \in At(rest) /\ rest[i + 1].id = rest[i].id
    <2>1. queue[i + 1].more
      BY <1>1, <1>3
    <2>2. i + 1 + 1 \in At(queue) /\ queue[i + 1 + 1].id = queue[i + 1].id
      BY <1>1, <2>1 DEF Together
    <2>3. i + 1 + 1 > 1 /\ (i + 1 + 1) - 1 = i + 1
      BY <1>1
    <2>4. i + 1 \in At(rest)
      BY <1>2, <2>2, <2>3
    <2>. QED
      BY <1>1, <2>2, <2>4
  <1>. QED
    BY <1>3 DEF Together, rest

\* The frames of one PDU are together.
LEMMA DataFramesTogether ==
    ASSUME NEW id \in Nat, NEW size \in Nat \ {0}, NEW seq \in Nat
    PROVE  Together(DataFrames(id, size, seq))
  <1>. DEFINE frames == DataFrames(id, size, seq)
              m == FrameCount(size)
  <1>1. /\ frames \in Seq(Events) /\ Len(frames) = m
        /\ \A i \in 1 .. m : IsFrame(frames[i]) /\ frames[i].id = id
        /\ \A i \in 1 .. m : frames[i].more => i < m
    <2>1. frames \in Seq(Events) /\ Len(frames) = m
      BY DataFramesFacts
    <2>2. \A i \in 1 .. m : IsFrame(frames[i]) /\ frames[i].id = id
      BY DataFramesFacts DEF IsFrame
    <2>3. \A i \in 1 .. m : frames[i].more => i < m
      BY DataFramesFacts
    <2>. QED
      BY <2>1, <2>2, <2>3
  <1>2. m \in Nat
    BY FrameCountType
  <1>. HIDE DEF frames, m
  <1>3. DOMAIN frames = 1 .. m
    BY <1>1, LenProperties
  <1>4. At(frames) = 1 .. m
    BY <1>1, <1>3 DEF At
  <1>5. ASSUME NEW i \in At(frames), frames[i].more
        PROVE  i + 1 \in At(frames) /\ frames[i + 1].id = frames[i].id
    <2>1. i \in 1 .. m /\ i < m
      BY <1>1, <1>4, <1>5
    <2>2. i + 1 \in 1 .. m
      BY <1>2, <2>1
    <2>. QED
      BY <1>1, <1>4, <2>1, <2>2
  <1>. QED
    BY <1>5 DEF Together, frames

-----------------------------------------------------------------------------
(* Replies leave in order.                                                 *)

\* What joins a queue may hold frames of replies with ids from the bound on.
LEMMA ConcatKeepsAscending ==
    ASSUME NEW front \in Seq(Events), NEW back \in Seq(Events),
           NEW bound \in Nat, Ascending(front, bound),
           NEW next \in Nat, bound <= next,
           \A i, j \in RepliesAt(back) : back[i].id = back[j].id,
           \A i \in RepliesAt(back) : bound <= back[i].id /\ back[i].id < next
    PROVE  Ascending(front \o back, next)
  <1>. DEFINE whole == front \o back
              n == Len(front)
  <1>1. /\ n \in Nat /\ Len(back) \in Nat
        /\ \A i \in 1 .. n : whole[i] = front[i]
        /\ \A i \in 1 .. Len(back) : whole[n + i] = back[i]
        /\ DOMAIN back = 1 .. Len(back)
    BY ConcatParts
  <1>2. /\ At(front) \subseteq 1 .. n
        /\ \A i \in At(whole) : i \in At(front) \/ \E j \in At(back) : i = n + j
    BY FramesOfConcat
  <1>3. At(back) \subseteq 1 .. Len(back)
    BY <1>1 DEF At
  <1>4. /\ \A i \in At(front) : front[i].id \in Nat
        /\ \A i \in At(back) : back[i].id \in Nat
    <2>1. ASSUME NEW queue \in Seq(Events), NEW i \in At(queue)
          PROVE  queue[i].id \in Nat
      <3>1. queue[i] \in Events /\ IsFrame(queue[i])
        BY ElementOfSeq, LenProperties DEF At
      <3>. QED
        BY <3>1, EventFacts DEF Frames
    <2>. QED
      BY <2>1
  <1>. HIDE DEF whole, n
  <1>5. ASSUME NEW i \in RepliesAt(whole)
        PROVE  \/ i \in RepliesAt(front) /\ i <= n /\ whole[i] = front[i]
               \/ \E j \in RepliesAt(back) : j \in Nat \ {0} /\ i = n + j /\ whole[i] = back[j]
    <2>1. i \in At(whole) /\ whole[i].id \notin OwnPduIds /\ whole[i].id >= FirstInternalId
      BY DEF RepliesAt
    <2>2. CASE i \in At(front)
      BY <1>1, <1>2, <2>1, <2>2 DEF RepliesAt
    <2>3. ASSUME NEW j \in At(back), i = n + j
          PROVE  j \in RepliesAt(back) /\ j \in Nat \ {0} /\ whole[i] = back[j]
      BY <1>1, <1>3, <2>1, <2>3 DEF RepliesAt
    <2>. QED
      BY <1>2, <2>1, <2>2, <2>3
  <1>6. \A i \in RepliesAt(front) : i \in Nat /\ front[i].id \in Nat
    BY <1>1, <1>2, <1>4 DEF RepliesAt
  <1>7. \A i \in RepliesAt(back) : back[i].id \in Nat
    BY <1>4 DEF RepliesAt
  <1>8. ASSUME NEW i \in RepliesAt(whole)
        PROVE  whole[i].id < next
    BY <1>5, <1>6, <1>7 DEF Ascending
  <1>9. ASSUME NEW i \in RepliesAt(whole), NEW j \in RepliesAt(whole), i < j
        PROVE  whole[i].id <= whole[j].id
    <2>1. CASE i \in RepliesAt(front) /\ whole[i] = front[i]
      <3>1. CASE j \in RepliesAt(front) /\ whole[j] = front[j]
        BY <1>9, <2>1, <3>1 DEF Ascending
      <3>2. ASSUME NEW k \in RepliesAt(back), whole[j] = back[k]
            PROVE  whole[i].id <= whole[j].id
        <4>1. front[i].id < bound /\ bound <= back[k].id
          BY <2>1 DEF Ascending
        <4>. QED
          BY <1>6, <1>7, <2>1, <3>2, <4>1
      <3>. QED
        BY <1>5, <3>1, <3>2
    <2>2. ASSUME NEW k \in RepliesAt(back), k \in Nat \ {0}, i = n + k, whole[i] = back[k]
          PROVE  whole[i].id <= whole[j].id
      <3>1. ~ (j <= n)
        <4>1. j \in Nat
          BY <1>1, <1>5, <1>6
        <4>. QED
          BY <1>1, <1>9, <2>2, <4>1
      <3>2. PICK l \in RepliesAt(back) : whole[j] = back[l]
        BY <1>5, <3>1
      <3>. QED
        BY <1>7, <2>2, <3>2
    <2>. QED
      BY <1>5, <2>1, <2>2
  <1>. QED
    BY <1>8, <1>9 DEF Ascending, whole

\* What holds no frame of a reply leaves their order as it is.
LEMMA OthersKeepAscending ==
    ASSUME NEW front \in Seq(Events), NEW back \in Seq(Events),
           NEW bound \in Nat, Ascending(front, bound), RepliesAt(back) = {}
    PROVE  Ascending(front \o back, bound)
  <1>1. bound <= bound
    OBVIOUS
  <1>2. \A i, j \in RepliesAt(back) : back[i].id = back[j].id
    OBVIOUS
  <1>3. \A i \in RepliesAt(back) : bound <= back[i].id /\ back[i].id < bound
    OBVIOUS
  <1>. QED
    BY <1>1, <1>2, <1>3, ConcatKeepsAscending

\* A taken event leaves the replies of the rest in order.
LEMMA TailKeepsAscending ==
    ASSUME NEW queue \in Seq(Events), queue # <<>>, NEW bound, Ascending(queue, bound)
    PROVE  Ascending(Tail(queue), bound)
  <1>. DEFINE rest == Tail(queue)
  <1>1. \A i \in At(rest) : i \in Nat /\ i + 1 \in At(queue) /\ rest[i] = queue[i + 1]
    BY FramesOfTail
  <1>. HIDE DEF rest
  <1>2. \A i \in RepliesAt(rest) :
           i \in Nat /\ i + 1 \in RepliesAt(queue) /\ rest[i] = queue[i + 1]
    BY <1>1 DEF RepliesAt
  <1>3. ASSUME NEW i \in RepliesAt(rest), NEW j \in RepliesAt(rest), i < j
        PROVE  rest[i].id <= rest[j].id
    <2>1. i + 1 < j + 1
      BY <1>2, <1>3
    <2>. QED
      BY <1>2, <2>1 DEF Ascending
  <1>4. \A i \in RepliesAt(rest) : rest[i].id < bound
    BY <1>2 DEF Ascending
  <1>. QED
    BY <1>3, <1>4 DEF Ascending, rest

-----------------------------------------------------------------------------
(* The queue of events and the replies that wait, together.                *)

\* The ids of the replies that wait end just below the next one; the frames of
\* the replies sent have smaller ones.
Ordered(o) ==
    /\ o.id - Len(o.replies) >= FirstInternalId
    /\ \A i \in DOMAIN o.replies : o.replies[i].id = o.id - Len(o.replies) + i - 1
    /\ Ascending(o.events, o.id - Len(o.replies))

Framing(o) == Numbered(o.events, o.seq) /\ Together(o.events) /\ Ordered(o)

\* The bound below which the frames of replies stay is a number.
LEMMA BoundType ==
    ASSUME NEW o \in Outputs, Ordered(o)
    PROVE  /\ o.id \in Nat /\ Len(o.replies) \in Nat
           /\ o.id - Len(o.replies) \in Nat /\ o.id - Len(o.replies) >= FirstInternalId
           /\ FirstInternalId \in Nat \ {0}
  <1>1. o.id \in Nat /\ Len(o.replies) \in Nat
    BY FieldsOfOutput, LenProperties
  <1>2. FirstInternalId \in Nat \ {0}
    BY ConfigAssumption
  <1>3. o.id - Len(o.replies) >= FirstInternalId
    BY DEF Ordered
  <1>. QED
    BY <1>1, <1>2, <1>3

\* Notices to the owner disturb no frame,
LEMMA NotifyKeepsFraming ==
    ASSUME NEW o \in Outputs, NEW notices \in Seq(Events), At(notices) = {}, Framing(o)
    PROVE  Framing(Notify(o, notices))
  <1>. DEFINE after == Notify(o, notices)
  <1>1. /\ after.events = o.events \o notices /\ after.seq = o.seq
        /\ after.id = o.id /\ after.replies = o.replies
        /\ o.events \in Seq(Events)
    BY NotifyFacts, FieldsOfOutput
  <1>. HIDE DEF after
  <1>2. Numbered(after.events, after.seq)
    BY <1>1, NoticesKeepNumbers DEF Framing
  <1>3. Together(notices)
    BY DEF Together
  <1>4. Together(after.events)
    BY <1>1, <1>3, ConcatKeepsTogether DEF Framing
  <1>5. RepliesAt(notices) = {}
    BY DEF RepliesAt
  <1>6. Ascending(after.events, o.id - Len(o.replies))
    <2>1. o.id - Len(o.replies) \in Nat
      BY BoundType DEF Framing
    <2>2. Ascending(o.events, o.id - Len(o.replies))
      BY DEF Framing, Ordered
    <2>. QED
      BY <1>1, <1>5, <2>1, <2>2, OthersKeepAscending
  <1>7. Ordered(after)
    BY <1>1, <1>6 DEF Framing, Ordered
  <1>. QED
    BY <1>2, <1>4, <1>7 DEF Framing, after

\* nor do the control frames,
LEMMA ControlKeepsFraming ==
    ASSUME NEW o \in Outputs, NEW type \in FrameTypes, Framing(o)
    PROVE  Framing(Control(o, type))
  <1>. DEFINE after == Control(o, type)
              frame == Frame(type, NoId, o.seq)
              last == <<frame>>
  <1>1. /\ after.events = Append(o.events, frame) /\ after.seq = o.seq + 1
        /\ after.id = o.id /\ after.replies = o.replies
        /\ frame \in Frames
        /\ o.events \in Seq(Events) /\ o.seq \in Nat
    BY ControlFacts, FieldsOfOutput
  <1>2. frame.seq = o.seq /\ frame.id = 0 /\ frame.more = FALSE
    BY DEF Frame, NoId
  <1>. HIDE DEF after, frame
  <1>3. frame \in Events /\ IsFrame(frame)
    BY <1>1 DEF Events, Frames, IsFrame
  <1>4. last \in Seq(Events) /\ Len(last) = 1 /\ last[1] = frame /\ DOMAIN last = {1}
    BY <1>3
  <1>5. after.events = o.events \o last
    BY <1>1, <1>3, AppendIsConcat
  <1>. HIDE DEF last
  <1>6. Numbered(after.events, after.seq)
    <2>1. \A i \in 1 .. Len(last) : IsFrame(last[i]) /\ last[i].seq = o.seq + i - 1
      BY <1>1, <1>2, <1>3, <1>4 DEF IsFrame
    <2>2. Numbered(o.events \o last, o.seq + Len(last))
      BY <1>1, <1>4, <2>1, FramesKeepNumbers DEF Framing
    <2>. QED
      BY <1>1, <1>4, <1>5, <2>2
  <1>7. At(last) = {1}
    BY <1>3, <1>4 DEF At, IsFrame
  <1>8. Together(after.events)
    <2>1. Together(last)
      BY <1>2, <1>4, <1>7 DEF Together
    <2>. QED
      BY <1>1, <1>4, <1>5, <2>1, ConcatKeepsTogether DEF Framing
  <1>9. Ascending(after.events, o.id - Len(o.replies))
    <2>1. FirstInternalId \in Nat \ {0} /\ o.id - Len(o.replies) \in Nat
      BY BoundType DEF Framing
    <2>2. RepliesAt(last) = {}
      BY <1>2, <1>4, <1>7, <2>1 DEF RepliesAt
    <2>3. Ascending(o.events, o.id - Len(o.replies))
      BY DEF Framing, Ordered
    <2>. QED
      BY <1>1, <1>4, <1>5, <2>1, <2>2, <2>3, OthersKeepAscending
  <1>10. Ordered(after)
    BY <1>1, <1>9 DEF Framing, Ordered
  <1>. QED
    BY <1>6, <1>8, <1>10 DEF Framing, after

\* The frames of a PDU carry its id.
LEMMA DataFramesReplies ==
    ASSUME NEW id \in Nat, NEW size \in Nat \ {0}, NEW seq \in Nat
    PROVE  \A i \in RepliesAt(DataFrames(id, size, seq)) :
              DataFrames(id, size, seq)[i].id = id /\ id \notin OwnPduIds
  <1>. DEFINE frames == DataFrames(id, size, seq)
  <1>1. frames \in Seq(Events) /\ Len(frames) = FrameCount(size)
    BY DataFramesFacts
  <1>2. \A i \in 1 .. FrameCount(size) : frames[i].id = id
    BY DataFramesFacts
  <1>3. DOMAIN frames = 1 .. FrameCount(size)
    BY <1>1, LenProperties
  <1>. HIDE DEF frames
  <1>4. \A i \in RepliesAt(frames) : frames[i].id = id /\ id \notin OwnPduIds
    BY <1>2, <1>3 DEF RepliesAt, At
  <1>. QED
    BY <1>4 DEF frames

\* The frames of a PDU are numbered from the number they start at.
LEMMA DataFramesNumbers ==
    ASSUME NEW id \in Nat, NEW size \in Nat \ {0}, NEW seq \in Nat
    PROVE  \A i \in 1 .. Len(DataFrames(id, size, seq)) :
              /\ IsFrame(DataFrames(id, size, seq)[i])
              /\ DataFrames(id, size, seq)[i].seq = seq + i - 1
  <1>. DEFINE frames == DataFrames(id, size, seq)
  <1>1. Len(frames) = FrameCount(size)
    BY DataFramesFacts
  <1>2. ASSUME NEW i \in 1 .. FrameCount(size)
        PROVE  IsFrame(frames[i]) /\ frames[i].seq = seq + i - 1
    <2>1. frames[i] = DataFrame(id, size, seq, i)
      BY DEF DataFrames
    <2>2. DataFrame(id, size, seq, i) \in Frames
      BY DataFrameFields
    <2>3. IsFrame(frames[i])
      BY <2>1, <2>2 DEF IsFrame, Frames
    <2>4. frames[i].seq = seq + i - 1
      BY <2>1, DataFrameFields
    <2>. QED
      BY <2>3, <2>4
  <1>. HIDE DEF frames
  <1>3. \A i \in 1 .. Len(frames) : IsFrame(frames[i]) /\ frames[i].seq = seq + i - 1
    BY <1>1, <1>2
  <1>. QED
    BY <1>3 DEF frames

\* The queue after a PDU was sent.
LEMMA SentKeepsQueue ==
    ASSUME NEW o \in Outputs, NEW id \in Nat, NEW size \in 1 .. MaxReassembly,
           Numbered(o.events, o.seq), Together(o.events)
    PROVE  /\ Numbered(Sent(o, id, size).events, Sent(o, id, size).seq)
           /\ Together(Sent(o, id, size).events)
  <1>. DEFINE frames == DataFrames(id, size, o.seq)
  <1>1. /\ Sent(o, id, size).events = o.events \o frames
        /\ Sent(o, id, size).seq = o.seq + FrameCount(size)
    BY SentFacts
  <1>2. o.events \in Seq(Events) /\ o.seq \in Nat /\ size \in Nat \ {0}
    BY FieldsOfOutput
  <1>3. frames \in Seq(Events) /\ Len(frames) = FrameCount(size)
    BY <1>2, DataFramesFacts
  <1>4. \A i \in 1 .. Len(frames) : IsFrame(frames[i]) /\ frames[i].seq = o.seq + i - 1
    BY <1>2, DataFramesNumbers
  <1>5. Together(frames)
    BY <1>2, DataFramesTogether
  <1>. HIDE DEF frames
  <1>6. Numbered(o.events \o frames, o.seq + Len(frames))
    BY <1>2, <1>3, <1>4, FramesKeepNumbers
  <1>7. Together(o.events \o frames)
    BY <1>2, <1>3, <1>5, ConcatKeepsTogether
  <1>. QED
    BY <1>1, <1>3, <1>6, <1>7

\* A PDU of the owner.
LEMMA SentKeepsFraming ==
    ASSUME NEW o \in Outputs, NEW id \in OwnPduIds, NEW size \in 1 .. MaxReassembly,
           Framing(o)
    PROVE  Framing(Sent(o, id, size))
  <1>. DEFINE after == Sent(o, id, size)
              frames == DataFrames(id, size, o.seq)
  <1>1. id \in Nat /\ size \in Nat \ {0}
    BY ConfigAssumption
  <1>2. /\ after.events = o.events \o frames
        /\ after.id = o.id /\ after.replies = o.replies
        /\ o.events \in Seq(Events) /\ o.seq \in Nat
    BY <1>1, SentFacts, FieldsOfOutput
  <1>3. frames \in Seq(Events) /\ RepliesAt(frames) = {}
    BY <1>1, <1>2, DataFramesFacts, DataFramesReplies
  <1>4. Numbered(after.events, after.seq) /\ Together(after.events)
    BY <1>1, SentKeepsQueue DEF Framing
  <1>. HIDE DEF after, frames
  <1>5. o.id - Len(o.replies) \in Nat /\ Ascending(o.events, o.id - Len(o.replies))
    BY BoundType DEF Framing, Ordered
  <1>6. Ascending(after.events, o.id - Len(o.replies))
    BY <1>2, <1>3, <1>5, OthersKeepAscending
  <1>7. Ordered(after)
    BY <1>2, <1>6 DEF Framing, Ordered
  <1>. QED
    BY <1>4, <1>7 DEF Framing, after

\* nor do replies that are queued,
LEMMA EnqueueKeepsFraming ==
    ASSUME NEW o \in Outputs, NEW replies \in Seq(UnsentReplies), Framing(o)
    PROVE  Framing(Enqueue(o, replies))
  <1>. DEFINE after == Enqueue(o, replies)
              n == Len(o.replies)
              m == Len(replies)
  <1>1. /\ after \in Outputs /\ after.events = o.events /\ after.seq = o.seq
        /\ after.id = o.id + m /\ Len(after.replies) = n + m
        /\ \A i \in 1 .. n : after.replies[i] = o.replies[i]
        /\ \A i \in 1 .. m : after.replies[n + i].id = o.id + i - 1
    BY EnqueueFacts
  <1>2. n \in Nat /\ m \in Nat /\ o.id \in Nat /\ DOMAIN o.replies = 1 .. n
    BY FieldsOfOutput, LenProperties
  <1>3. DOMAIN after.replies = 1 .. n + m
    BY <1>1, FieldsOfOutput, LenProperties
  <1>. HIDE DEF after, n, m
  <1>4. after.id - Len(after.replies) = o.id - n
    BY <1>1, <1>2
  <1>5. ASSUME NEW i \in DOMAIN after.replies
        PROVE  after.replies[i].id = o.id - n + i - 1
    <2>1. CASE i <= n
      <3>1. i \in 1 .. n
        BY <1>2, <1>3, <2>1
      <3>2. o.replies[i].id = o.id - n + i - 1
        BY <1>2, <3>1 DEF Framing, Ordered, n
      <3>. QED
        BY <1>1, <3>1, <3>2
    <2>2. CASE i > n
      <3>1. i - n \in 1 .. m /\ n + (i - n) = i
        BY <1>2, <1>3, <2>2
      <3>2. after.replies[i].id = o.id + (i - n) - 1
        BY <1>1, <3>1
      <3>3. o.id + (i - n) - 1 = o.id - n + i - 1
        BY <1>2, <1>3
      <3>. QED
        BY <3>2, <3>3
    <2>. QED
      BY <1>2, <1>3, <2>1, <2>2
  <1>6. o.id - n >= FirstInternalId /\ Ascending(o.events, o.id - n)
    BY DEF Framing, Ordered, n
  <1>7. Ordered(after)
    BY <1>1, <1>4, <1>5, <1>6 DEF Ordered
  <1>. QED
    BY <1>1, <1>7 DEF Framing, after

\* and the front reply is framed in its turn.
LEMMA FrontSentKeepsFraming ==
    ASSUME NEW o \in Outputs, o.replies # <<>>, Head(o.replies).size <= MaxReassembly,
           Framing(o)
    PROVE  Framing(FrontSent(o))
  <1>. DEFINE reply == Head(o.replies)
              frames == DataFrames(reply.id, reply.size, o.seq)
              after == FrontSent(o)
              n == Len(o.replies)
              bound == o.id - n
  <1>1. /\ reply \in Replies /\ reply.size \in 1 .. MaxReassembly
        /\ after \in Outputs
        /\ after.events = Sent(o, reply.id, reply.size).events
        /\ after.seq = Sent(o, reply.id, reply.size).seq
        /\ after.replies = Tail(o.replies) /\ after.id = o.id
    BY FrontSentFacts
  <1>2. reply.id \in Nat /\ reply.size \in Nat \ {0}
    BY <1>1 DEF Replies
  <1>3. /\ o.replies \in Seq(Replies) /\ o.events \in Seq(Events) /\ o.seq \in Nat
        /\ bound \in Nat /\ bound >= FirstInternalId /\ FirstInternalId \in Nat
        /\ o.id \in Nat /\ n \in Nat
    BY FieldsOfOutput, BoundType DEF Framing
  <1>4. Numbered(after.events, after.seq) /\ Together(after.events)
    BY <1>1, <1>2, SentKeepsQueue DEF Framing
  <1>5. after.events = o.events \o frames
    BY <1>1, <1>2, SentFacts
  <1>6. /\ n > 0 /\ Len(after.replies) = n - 1
        /\ \A i \in 1 .. n - 1 : after.replies[i] = o.replies[i + 1]
        /\ DOMAIN o.replies = 1 .. n /\ DOMAIN after.replies = 1 .. n - 1
        /\ reply = o.replies[1]
    <2>1. n > 0
      BY <1>3, EmptySeq
    <2>2. /\ Len(Tail(o.replies)) = n - 1
          /\ \A i \in 1 .. n - 1 : Tail(o.replies)[i] = o.replies[i + 1]
      BY <1>3, HeadTailProperties
    <2>3. DOMAIN o.replies = 1 .. n /\ DOMAIN after.replies = 1 .. n - 1
      BY <1>1, <1>3, <2>2, FieldsOfOutput, LenProperties
    <2>4. reply = o.replies[1]
      BY <1>3, <2>1
    <2>. QED
      BY <1>1, <2>1, <2>2, <2>3, <2>4
  <1>7. \A i \in 1 .. n : o.replies[i].id = bound + i - 1
    BY <1>6 DEF Framing, Ordered
  <1>8. reply.id = bound
    BY <1>3, <1>6, <1>7
  <1>9. frames \in Seq(Events)
    BY <1>2, <1>3, DataFramesFacts
  <1>10. \A i \in RepliesAt(frames) : frames[i].id = bound
    BY <1>2, <1>3, <1>8, DataFramesReplies
  <1>11. Ascending(o.events, bound)
    BY DEF Framing, Ordered
  <1>. HIDE DEF reply, frames, after, n, bound
  <1>12. bound + 1 \in Nat /\ bound <= bound + 1 /\ bound < bound + 1
    BY <1>3
  <1>13. Ascending(o.events \o frames, bound + 1)
    BY <1>3, <1>9, <1>10, <1>11, <1>12, ConcatKeepsAscending
  <1>14. after.id - Len(after.replies) = bound + 1
    BY <1>1, <1>3, <1>6 DEF bound
  <1>15. ASSUME NEW i \in DOMAIN after.replies
         PROVE  after.replies[i].id = bound + 1 + i - 1
    <2>1. i \in 1 .. n - 1 /\ i + 1 \in 1 .. n
      BY <1>3, <1>6
    <2>2. after.replies[i].id = bound + (i + 1) - 1
      BY <1>6, <1>7, <2>1
    <2>. QED
      BY <1>3, <2>1, <2>2
  <1>16. Ordered(after)
    BY <1>3, <1>5, <1>13, <1>14, <1>15 DEF Ordered
  <1>. QED
    BY <1>4, <1>16 DEF Framing, after
=============================================================================
