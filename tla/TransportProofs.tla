-------------------------- MODULE TransportProofs ---------------------------
(***************************************************************************)
(* What module Transport states about a session, proved for every window,  *)
(* limit, set of PDU ids and number of frames.                             *)
(***************************************************************************)
EXTENDS TransportAccounts

\* The parts of the state that are no output.
Parts ==
    /\ state \in States
    /\ Broker!BrokerTypeOK /\ rxBytes = 0 /\ rxPdus = 0
    /\ nextRx \in Nat \ {0}
    /\ Requests

\* A reply waits only in a session that has run.
RepliesFollowOpen ==
    pendingReplies # <<>> => state \in {"Running", "Closed", "Failed"}

Inv ==
    /\ Parts
    /\ Sound(Output, Due)
    /\ OpenNeedsHandshake
    /\ RepliesFollowOpen
    /\ NoLostWakeup

-----------------------------------------------------------------------------
(* A step that sets the output side.                                       *)

\* SetOutput gives the variables the values of an output side.
LEMMA SetOutputFacts ==
    ASSUME NEW o \in Outputs, SetOutput(o)
    PROVE  Output' = o
  <1>1. /\ txBytes' = o.bytes /\ txPdus' = o.pdus /\ outputReservations' = o.reservations
        /\ pendingReplies' = o.replies /\ nextTx' = o.seq /\ nextInternalId' = o.id
        /\ events' = o.events /\ framed' = o.framed
    BY DEF SetOutput
  <1>2. o = [bytes |-> o.bytes, pdus |-> o.pdus, reservations |-> o.reservations,
             replies |-> o.replies, seq |-> o.seq, id |-> o.id,
             events |-> o.events, framed |-> o.framed]
    BY DEF Outputs
  <1>. QED
    BY <1>1, <1>2 DEF Output

\* The output side is the record of its variables.
LEMMA OutputNow ==
    /\ Output.bytes = txBytes /\ Output.pdus = txPdus
    /\ Output.reservations = outputReservations /\ Output.replies = pendingReplies
    /\ Output.seq = nextTx /\ Output.id = nextInternalId
    /\ Output.events = events /\ Output.framed = framed
  BY DEF Output

\* An output side of the next state gives the next values of the variables.
LEMMA OutputNext ==
    ASSUME NEW o, Output' = o
    PROVE  /\ txBytes' = o.bytes /\ txPdus' = o.pdus
           /\ outputReservations' = o.reservations /\ pendingReplies' = o.replies
           /\ nextTx' = o.seq /\ events' = o.events /\ framed' = o.framed
  BY DEF Output

\* Blocked depends on the session, the handshake and the output side.
LEMMA BlockedNext ==
    ASSUME NEW o, Output' = o, Blocked(o), state' = state, UNCHANGED handshakeVars
    PROVE  Blocked(Output)'
  BY DEF Blocked, FrontResult, SendResult, Broker!ReserveSendResult, Broker!ReserveResult,
         Broker!Exceeds, CanFragment, handshakeVars

\* In a running session the front reply, if any, is blocked.
LEMMA RunningIsBlocked ==
    ASSUME Inv, state = "Running"
    PROVE  Blocked(Output) /\ brokerState = "Established"
  BY OutputNow DEF Inv, NoLostWakeup, Blocked, OpenNeedsHandshake

\* A step of an unchanged broker.
LEMMA OutputStep ==
    ASSUME Inv, NEW o, NEW due, Sound(o, due), Output' = o, Due' = due,
           UNCHANGED handshakeVars, UNCHANGED rxVars,
           state' \in States, nextRx' \in Nat \ {0}, Requests',
           state' \in {"AwaitCapability", "AwaitOpen", "AwaitOpenReply", "Running"}
              => brokerState = "Established",
           o.replies # <<>> => state' \in {"Running", "Closed", "Failed"},
           state' = "Running" => (state = "Running" /\ Blocked(o)) \/ o.replies = <<>>
    PROVE  Inv'
  <1>1. o \in Outputs /\ Framing(o) /\ Accounts(o) /\ Answered(o, due)
    BY DEF Sound
  <1>2. txBytes' = o.bytes /\ txPdus' = o.pdus /\ pendingReplies' = o.replies
    BY OutputNext
  <1>3. /\ brokerState' = brokerState /\ nonceConsumed' = nonceConsumed
        /\ negotiatedMaxPdu' = negotiatedMaxPdu
        /\ negotiatedMaxInflight' = negotiatedMaxInflight
        /\ rxBytes' = rxBytes /\ rxPdus' = rxPdus
    BY DEF handshakeVars, rxVars
  <1>4. Parts'
    <2>1. txBytes' \in Nat /\ txPdus' \in Nat
      BY <1>1, <1>2, FieldsOfOutput
    <2>2. Broker!BrokerTypeOK'
      BY <1>3, <2>1 DEF Inv, Parts, Broker!BrokerTypeOK
    <2>. QED
      BY <1>3, <2>2 DEF Inv, Parts
  <1>5. Accounts(Output)'
    BY <1>1, <1>2, <1>3 DEF Accounts, Credit, WithinWindow
  <1>6. Sound(Output, Due)'
    BY <1>1, <1>2, <1>5 DEF Sound
  <1>7. OpenNeedsHandshake'
    BY <1>3 DEF OpenNeedsHandshake
  <1>8. RepliesFollowOpen'
    BY <1>2 DEF RepliesFollowOpen
  <1>9. NoLostWakeup'
    <2>1. CASE state' # "Running" \/ o.replies = <<>>
      BY <1>2, <2>1 DEF NoLostWakeup
    <2>2. CASE state' = "Running" /\ o.replies # <<>>
      <3>1. Blocked(Output)'
        BY <1>2, <2>2, BlockedNext
      <3>2. Output'.replies = pendingReplies'
        BY <1>2
      <3>. QED
        BY <3>1, <3>2 DEF NoLostWakeup, Blocked
    <2>. QED
      BY <2>1, <2>2
  <1>. QED
    BY <1>4, <1>6, <1>7, <1>8, <1>9 DEF Inv

\* A step that leaves the session not running, whatever it does to the broker.
LEMMA SettledStep ==
    ASSUME Inv, NEW o, NEW due, Output' = o, Due' = due,
           o \in Outputs, Framing(o), Answered(o, due),
           Accounts(Output)', Parts', OpenNeedsHandshake', state' # "Running",
           o.replies # <<>> => state' \in {"Closed", "Failed"}
    PROVE  Inv'
  <1>1. pendingReplies' = o.replies
    BY OutputNext
  <1>2. Sound(Output, Due)'
    BY DEF Sound
  <1>. QED
    BY <1>1, <1>2 DEF Inv, RepliesFollowOpen, NoLostWakeup

-----------------------------------------------------------------------------
(* The steps that end the windows.                                         *)

\* What the invariant says of each part of the state.
LEMMA InvFacts ==
    ASSUME Inv
    PROVE  /\ Parts /\ Requests /\ Sound(Output, Due) /\ Output \in Outputs
           /\ Framing(Output) /\ Accounts(Output) /\ Answered(Output, Due)
           /\ Broker!BrokerTypeOK /\ state \in States
           /\ nextRx \in Nat \ {0} /\ nextRx + 1 \in Nat \ {0}
           /\ OpenNeedsHandshake /\ RepliesFollowOpen
  <1>1. nextRx \in Nat \ {0}
    BY DEF Inv, Parts
  <1>2. nextRx + 1 \in Nat \ {0}
    BY <1>1
  <1>. QED
    BY <1>1, <1>2 DEF Inv, Parts, Sound

\* A broker that closes counts nothing any more.
Emptied(o) == [o EXCEPT !.bytes = 0, !.pdus = 0]

\* An emptied output side keeps its queues.
LEMMA EmptiedFacts ==
    ASSUME NEW o \in Outputs, NEW due, Framing(o), Answered(o, due)
    PROVE  /\ Emptied(o) \in Outputs /\ Emptied(o).bytes = 0 /\ Emptied(o).pdus = 0
           /\ Emptied(o).replies = o.replies
           /\ Framing(Emptied(o)) /\ Answered(Emptied(o), due)
  <1>1. /\ Emptied(o) \in Outputs /\ Emptied(o).bytes = 0 /\ Emptied(o).pdus = 0
        /\ Emptied(o).replies = o.replies /\ Emptied(o).events = o.events
        /\ Emptied(o).seq = o.seq /\ Emptied(o).id = o.id /\ Emptied(o).framed = o.framed
    BY DEF Emptied, Outputs
  <1>2. Framing(Emptied(o))
    BY <1>1 DEF Framing, Ordered
  <1>3. Answered(Emptied(o), due)
    BY <1>1, SameAnswers
  <1>. QED
    BY <1>1, <1>2, <1>3

\* The session and its broker are closed, and the owner is told.
LEMMA CloseStep ==
    ASSUME Inv, NEW o \in Outputs, NEW due, Framing(o), Answered(o, due), Due' = due,
           Output' = Notify(Emptied(o), <<Event("Closed")>>),
           Broker!CloseBroker, state' = "Closed", nextRx' \in Nat \ {0}, Requests'
    PROVE  Inv'
  <1>. DEFINE told == Notify(Emptied(o), <<Event("Closed")>>)
  <1>1. /\ Emptied(o) \in Outputs /\ Emptied(o).bytes = 0 /\ Emptied(o).pdus = 0
        /\ Framing(Emptied(o)) /\ Answered(Emptied(o), due)
    BY EmptiedFacts
  <1>2. <<Event("Closed")>> \in Seq(Events) /\ At(<<Event("Closed")>>) = {}
    BY NoticeFacts DEF NoticeKinds
  <1>3. /\ told \in Outputs /\ told.bytes = 0 /\ told.pdus = 0
        /\ told.replies = Emptied(o).replies /\ told.framed = Emptied(o).framed
    BY <1>1, <1>2, NotifyFacts
  <1>4. Framing(told)
    BY <1>1, <1>2, NotifyKeepsFraming
  <1>. HIDE DEF told
  <1>5. Answered(told, due)
    BY <1>1, <1>3, SameAnswers
  <1>6. Output' = told
    BY DEF told
  <1>7. txBytes' = 0 /\ txPdus' = 0
    BY <1>3, <1>6, OutputNext
  <1>8. Accounts(Output)'
    <2>1. Output'.bytes = 0 /\ Output'.pdus = 0 /\ brokerState' = "Closed"
      BY <1>3, <1>6 DEF Broker!CloseBroker
    <2>. QED
      BY <2>1 DEF Accounts
  <1>9. Parts'
    <2>1. Broker!BrokerTypeOK'
      BY <1>7 DEF Inv, Parts, Broker!CloseBroker, Broker!BrokerTypeOK, Broker!BrokerStates
    <2>2. rxBytes' = 0 /\ rxPdus' = 0
      BY DEF Broker!CloseBroker
    <2>. QED
      BY <2>1, <2>2 DEF Parts, States
  <1>10. OpenNeedsHandshake'
    BY DEF OpenNeedsHandshake
  <1>. QED
    BY <1>3, <1>4, <1>5, <1>6, <1>8, <1>9, <1>10, SettledStep

-----------------------------------------------------------------------------
(* The handshake and the opening of the device.                            *)

\* A session starts with nothing to acknowledge and nothing to answer.
LEMMA InitInv ==
    ASSUME Init
    PROVE  Inv
  <1>1. /\ MaxPdu \in Nat \ {0} /\ MaxInflight \in Nat \ {0}
        /\ MaxToken \in Nat \ {0} /\ FirstInternalId \in Nat \ {0}
    BY ConfigAssumption
  <1>2. LiveTokens = {} /\ nextToken = 1 /\ DOMAIN pendingBySequence = {}
    BY DEF Init, Executor!ExecutorInit, Executor!EmptyMap, LiveTokens, Executor!LiveTokens
  <1>3. Requests
    BY <1>1, <1>2 DEF Requests
  <1>4. Due = {}
    <2>1. \A t \in Tokens : ~ (t < 1)
      BY <1>1 DEF Tokens, Executor!Tokens
    <2>. QED
      BY <1>2, <2>1 DEF Due
  <1>5. /\ Output.bytes = 0 /\ Output.pdus = 0 /\ Output.replies = <<>>
        /\ Output.reservations = Executor!EmptyMap
        /\ Output.seq = 1 /\ Output.id = FirstInternalId /\ Output.events = <<>>
        /\ Output.framed = [t \in Tokens |-> 0]
    BY OutputNow DEF Init, Broker!BrokerInit
  <1>6. Output \in Outputs
    <2>1. Executor!EmptyMap \in [{} -> 1 .. MaxReassembly]
      BY DEF Executor!EmptyMap
    <2>2. Executor!EmptyMap \in Reservations
      BY <2>1 DEF Reservations
    <2>3. 0 \in Nat /\ <<>> \in Seq(Replies) /\ <<>> \in Seq(Events) /\ 1 \in Nat \ {0}
          /\ [t \in Tokens |-> 0] \in [Tokens -> Nat] /\ FirstInternalId \in Nat
      BY <1>1
    <2>. QED
      BY <1>5, <2>2, <2>3 DEF Outputs, Output
  <1>7. At(<<>>) = {} /\ RepliesAt(<<>>) = {}
    BY DEF At, RepliesAt
  <1>8. Framing(Output)
    <2>1. Numbered(Output.events, Output.seq) /\ Together(Output.events)
      BY <1>5, <1>7 DEF Numbered, Together
    <2>2. Ordered(Output)
      <3>1. Len(Output.replies) = 0 /\ DOMAIN Output.replies = {}
        BY <1>5
      <3>2. FirstInternalId - 0 >= FirstInternalId
        BY <1>1
      <3>3. Ascending(Output.events, Output.id - Len(Output.replies))
        BY <1>5, <1>7 DEF Ascending
      <3>. QED
        BY <1>5, <3>1, <3>2, <3>3 DEF Ordered
    <2>. QED
      BY <2>1, <2>2 DEF Framing
  <1>9. Accounts(Output)
    BY <1>5 DEF Accounts, Init, Broker!BrokerInit, Executor!EmptyMap
  <1>10. Answered(Output, Due)
    <2>1. \A t : AnswersAt(Output.replies, t) = {}
      BY <1>5, NoAnswers
    <2>2. \A t \in Tokens : Output.framed[t] = 0
      BY <1>5
    <2>. QED
      BY <1>4, <2>1, <2>2 DEF Answered
  <1>11. Parts
    <2>1. state = "New" /\ nextRx = 1 /\ rxBytes = 0 /\ rxPdus = 0
      BY DEF Init, Broker!BrokerInit
    <2>2. Broker!BrokerTypeOK
      <3>1. /\ brokerState = "New" /\ nonceConsumed = FALSE
            /\ negotiatedMaxPdu = MaxPdu /\ negotiatedMaxInflight = MaxInflight
            /\ txBytes = 0 /\ txPdus = 0 /\ rxBytes = 0 /\ rxPdus = 0
        BY DEF Init, Broker!BrokerInit
      <3>2. nonceConsumed \in BOOLEAN
        BY <3>1
      <3>3. {negotiatedMaxPdu, negotiatedMaxInflight} \subseteq Nat
            /\ {txBytes, txPdus, rxBytes, rxPdus} \subseteq Nat
        BY <1>1, <3>1
      <3>4. brokerState \in Broker!BrokerStates
        BY <3>1 DEF Broker!BrokerStates
      <3>. QED
        BY <3>2, <3>3, <3>4 DEF Broker!BrokerTypeOK
    <2>. QED
      BY <1>3, <2>1, <2>2 DEF Parts, States
  <1>12. OpenNeedsHandshake /\ RepliesFollowOpen /\ NoLostWakeup
    BY DEF Init, OpenNeedsHandshake, RepliesFollowOpen, NoLostWakeup
  <1>. QED
    BY <1>6, <1>8, <1>9, <1>10, <1>11, <1>12 DEF Inv, Sound

\* start() sends the HELLO and waits for the one of the peer.
LEMMA StartInv ==
    ASSUME Inv, Start
    PROVE  Inv'
  <1>. DEFINE told == Notify(Output, <<Event("OutputHello")>>)
  <1>1. <<Event("OutputHello")>> \in Seq(Events) /\ At(<<Event("OutputHello")>>) = {}
    BY NoticeFacts DEF NoticeKinds
  <1>2. Sound(told, Due)
    BY <1>1, InvFacts, NotifySound
  <1>3. /\ told.bytes = Output.bytes /\ told.pdus = Output.pdus
        /\ told.reservations = Output.reservations /\ told.replies = Output.replies
    BY <1>1, InvFacts, NotifyFacts
  <1>4. SetOutput(told)
    BY DEF Start
  <1>. HIDE DEF told
  <1>5. told \in Outputs /\ Framing(told) /\ Answered(told, Due)
    BY <1>2 DEF Sound
  <1>6. Output' = told
    BY <1>4, <1>5, SetOutputFacts
  <1>7. brokerState = "New" /\ brokerState' = "HelloSent" /\ state' = "AwaitHello"
    BY DEF Start, Broker!MarkHelloSent
  <1>8. Accounts(Output)'
    <2>1. Output.bytes = 0 /\ Output.pdus = 0 /\ DOMAIN Output.reservations = {}
      BY <1>7, InvFacts DEF Accounts
    <2>. QED
      BY <1>3, <1>6, <1>7, <2>1 DEF Accounts
  <1>9. Requests' /\ Due' = Due
    BY InvFacts, RequestsKept DEF Start
  <1>10. Parts'
    <2>1. txBytes' = txBytes /\ txPdus' = txPdus
      BY <1>3, <1>6, OutputNext, OutputNow
    <2>2. Broker!BrokerTypeOK'
      BY <2>1, InvFacts DEF Start, Broker!MarkHelloSent, Broker!BrokerTypeOK,
                             Broker!BrokerStates, Broker!rxVars, Broker!txVars
    <2>3. rxBytes' = rxBytes /\ rxPdus' = rxPdus /\ nextRx' = nextRx
      BY DEF Start, Broker!MarkHelloSent, Broker!rxVars
    <2>. QED
      BY <1>7, <1>9, <2>2, <2>3, InvFacts DEF Parts, States
  <1>11. OpenNeedsHandshake'
    BY <1>7 DEF OpenNeedsHandshake
  <1>12. told.replies = <<>>
    BY <1>3, InvFacts, OutputNow DEF Start, RepliesFollowOpen
  <1>. QED
    BY <1>5, <1>6, <1>7, <1>8, <1>9, <1>10, <1>11, <1>12, SettledStep

\* Whatever the HELLO, the windows are empty when it comes.
LEMMA AcceptHelloInv ==
    ASSUME Inv, NEW h, h.maxPdu \in Nat, h.maxInflight \in Nat, AcceptHello(h)
    PROVE  Inv'
  <1>1. /\ state = "AwaitHello" /\ brokerState \in {"New", "HelloSent"}
        /\ txBytes' = txBytes /\ txPdus' = txPdus /\ rxBytes' = rxBytes /\ rxPdus' = rxPdus
        /\ nextRx' = nextRx /\ UNCHANGED executorVars
    BY DEF AcceptHello, Broker!AcceptHello, Broker!AwaitsHello, Broker!txVars, Broker!rxVars
  <1>2. Output' = Output
    BY <1>1 DEF AcceptHello, Output
  <1>3. state' \in {"AwaitHello", "AwaitCapability"}
    BY <1>1 DEF AcceptHello
  <1>4. \/ brokerState' = "Established" /\ state' = "AwaitCapability"
        \/ brokerState' = "Failed" /\ state' = "AwaitHello"
    BY <1>1 DEF AcceptHello, Broker!AcceptHello
  <1>5. Broker!BrokerTypeOK'
    <2>1. MaxPdu \in Nat /\ MaxInflight \in Nat
      BY ConfigAssumption
    <2>2. Broker!Least(MaxPdu, h.maxPdu) \in Nat /\ Broker!Least(MaxInflight, h.maxInflight) \in Nat
      BY <2>1 DEF Broker!Least
    <2>3. nonceConsumed' \in BOOLEAN /\ negotiatedMaxPdu' \in Nat /\ negotiatedMaxInflight' \in Nat
      BY <2>2, InvFacts DEF AcceptHello, Broker!AcceptHello, Broker!BrokerTypeOK
    <2>. QED
      BY <1>1, <1>4, <2>3, InvFacts DEF Broker!BrokerTypeOK, Broker!BrokerStates
  <1>6. Output.bytes = 0 /\ Output.pdus = 0 /\ DOMAIN Output.reservations = {}
    BY <1>1, InvFacts DEF Accounts
  <1>7. Accounts(Output)'
    <2>1. CASE brokerState' = "Failed"
      BY <1>2, <1>6, <2>1 DEF Accounts
    <2>2. CASE brokerState' = "Established"
      <3>1. BytesOf(Output.reservations) = {}
        BY <1>6 DEF BytesOf
      <3>2. IsFiniteSet({}) /\ Cardinality({}) = 0
        BY FS_EmptySet
      <3>3. Credit(Output)
        BY <1>6, <3>1, <3>2 DEF Credit
      <3>4. TxWindowBytes \in Nat /\ TxWindowPdus \in Nat
        BY ConfigAssumption
      <3>5. negotiatedMaxInflight' \in Nat
        BY <1>5 DEF Broker!BrokerTypeOK
      <3>6. WithinWindow(Output)'
        BY <1>2, <1>6, <3>4, <3>5 DEF WithinWindow, Broker!Least
      <3>7. Credit(Output)'
        BY <1>2, <3>3
      <3>. QED
        BY <2>2, <3>6, <3>7 DEF Accounts
    <2>. QED
      BY <1>4, <2>1, <2>2
  <1>8. Requests' /\ Due' = Due
    BY <1>1, InvFacts, RequestsKept
  <1>9. Parts'
    BY <1>1, <1>3, <1>5, <1>8, InvFacts DEF Parts, States
  <1>10. OpenNeedsHandshake'
    BY <1>4 DEF OpenNeedsHandshake
  <1>11. Output.replies = <<>>
    BY <1>1, InvFacts, OutputNow DEF RepliesFollowOpen
  <1>. QED
    BY <1>2, <1>3, <1>7, <1>8, <1>9, <1>10, <1>11, InvFacts, SettledStep

\* The states in which the device is not open yet.
OpeningStates == {"AwaitCapability", "AwaitOpen", "AwaitOpenReply"}

\* While the device is being opened, no reply waits.
LEMMA OpeningFacts ==
    ASSUME Inv, state \in OpeningStates
    PROVE  brokerState = "Established" /\ Output.replies = <<>>
  BY InvFacts, OutputNow DEF OpeningStates, OpenNeedsHandshake, RepliesFollowOpen

\* An owner sends CAPABILITY, OPEN, OPEN_OK or OPEN_REJECT,
LEMMA SendControlInv ==
    ASSUME Inv, NEW role, NEW from \in OpeningStates, NEW type \in FrameTypes,
           NEW to \in OpeningStates \cup {"Running", "Closed"},
           NEW notices \in Seq(Events), At(notices) = {},
           SendControl(role, from, type, to, notices)
    PROVE  Inv'
  <1>. DEFINE said == Control(Output, type)
              told == Notify(said, notices)
  <1>1. Sound(said, Due) /\ said.replies = Output.replies
    BY InvFacts, ControlSound
  <1>2. said \in Outputs
    BY <1>1 DEF Sound
  <1>3. Sound(told, Due) /\ told.replies = said.replies
    BY <1>1, <1>2, NotifySound, NotifyFacts
  <1>4. SetOutput(told) /\ state = from /\ state' = to
        /\ UNCHANGED handshakeVars /\ UNCHANGED rxVars /\ UNCHANGED executorVars
        /\ nextRx' = nextRx
    BY DEF SendControl
  <1>5. brokerState = "Established" /\ Output.replies = <<>>
    BY <1>4, OpeningFacts
  <1>. HIDE DEF told, said
  <1>6. Output' = told
    BY <1>3, <1>4, SetOutputFacts DEF Sound
  <1>7. Requests' /\ Due' = Due
    BY <1>4, InvFacts, RequestsKept
  <1>8. state' \in States /\ nextRx' \in Nat \ {0}
    BY <1>4, InvFacts DEF States, OpeningStates
  <1>9. told.replies = <<>>
    BY <1>1, <1>3, <1>5
  <1>10. /\ told.replies # <<>> => state' \in {"Running", "Closed", "Failed"}
         /\ state' = "Running" => (state = "Running" /\ Blocked(told)) \/ told.replies = <<>>
         /\ state' \in {"AwaitCapability", "AwaitOpen", "AwaitOpenReply", "Running"}
              => brokerState = "Established"
    BY <1>5, <1>9
  <1>. QED
    BY <1>3, <1>4, <1>6, <1>7, <1>8, <1>10, OutputStep

\* and the peer sends one of them.
LEMMA ReceiveControlInv ==
    ASSUME Inv, NEW role, NEW from \in OpeningStates,
           NEW to \in OpeningStates \cup {"Running", "Closed"},
           NEW notices \in Seq(Events), At(notices) = {},
           ReceiveControl(role, from, to, notices)
    PROVE  Inv'
  <1>. DEFINE told == Notify(Output, notices)
  <1>1. Sound(told, Due) /\ told.replies = Output.replies
    BY InvFacts, NotifySound, NotifyFacts
  <1>2. SetOutput(told) /\ state = from /\ state' = to
        /\ UNCHANGED handshakeVars /\ UNCHANGED rxVars /\ UNCHANGED executorVars
        /\ nextRx' = nextRx + 1
    BY DEF ReceiveControl
  <1>3. brokerState = "Established" /\ Output.replies = <<>>
    BY <1>2, OpeningFacts
  <1>. HIDE DEF told
  <1>4. Output' = told
    BY <1>1, <1>2, SetOutputFacts DEF Sound
  <1>5. Requests' /\ Due' = Due
    BY <1>2, InvFacts, RequestsKept
  <1>6. state' \in States /\ nextRx' \in Nat \ {0}
    BY <1>2, InvFacts DEF States, OpeningStates
  <1>7. told.replies = <<>>
    BY <1>1, <1>3
  <1>8. /\ told.replies # <<>> => state' \in {"Running", "Closed", "Failed"}
        /\ state' = "Running" => (state = "Running" /\ Blocked(told)) \/ told.replies = <<>>
        /\ state' \in {"AwaitCapability", "AwaitOpen", "AwaitOpenReply", "Running"}
             => brokerState = "Established"
    BY <1>3, <1>7
  <1>. QED
    BY <1>1, <1>2, <1>4, <1>5, <1>6, <1>8, OutputStep

-----------------------------------------------------------------------------
(* Frames of the peer.                                                     *)

\* A frame is refused: the session has failed.
LEMMA FailInv ==
    ASSUME Inv, Fail, nextRx' \in {nextRx, nextRx + 1}
    PROVE  Inv'
  <1>1. /\ state' = "Failed" /\ UNCHANGED handshakeVars /\ UNCHANGED rxVars
        /\ UNCHANGED executorVars
    BY DEF Fail, brokerVars
  <1>2. Output' = Output
    BY DEF Fail, brokerVars, queueVars, Output
  <1>3. Requests' /\ Due' = Due
    BY <1>1, InvFacts, RequestsKept
  <1>4. state' \in States /\ nextRx' \in Nat \ {0}
    BY <1>1, InvFacts DEF States
  <1>. QED
    BY <1>1, <1>2, <1>3, <1>4, InvFacts, OutputStep

\* A CLOSE of the peer ends the session.
LEMMA ReceiveCloseInv ==
    ASSUME Inv, ReceiveClose
    PROVE  Inv'
  <1>1. /\ Broker!CloseBroker /\ state' = "Closed" /\ nextRx' = nextRx + 1
        /\ events' = Append(events, Event("Closed")) /\ UNCHANGED executorVars
        /\ UNCHANGED <<nextTx, nextInternalId, outputReservations, pendingReplies, framed>>
    BY DEF ReceiveClose
  <1>2. txBytes' = 0 /\ txPdus' = 0
    BY <1>1 DEF Broker!CloseBroker
  <1>3. Event("Closed") \in Events
    BY DEF Events, Notices, NoticeKinds, Event
  <1>4. events \in Seq(Events)
    BY InvFacts, OutputNow, FieldsOfOutput
  <1>5. events' = events \o <<Event("Closed")>>
    BY <1>1, <1>3, <1>4, AppendIsConcat
  <1>6. Output' = Notify(Emptied(Output), <<Event("Closed")>>)
    <2>. DEFINE o == Emptied(Output)
                told == Notify(o, <<Event("Closed")>>)
    <2>1. <<Event("Closed")>> \in Seq(Events)
      BY NoticeFacts DEF NoticeKinds
    <2>2. /\ o \in Outputs /\ o.bytes = 0 /\ o.pdus = 0 /\ o.replies = Output.replies
          /\ o.reservations = Output.reservations /\ o.events = Output.events
          /\ o.seq = Output.seq /\ o.id = Output.id /\ o.framed = Output.framed
      BY InvFacts, EmptiedFacts DEF Emptied, Outputs
    <2>. HIDE DEF o
    <2>3. /\ told \in Outputs /\ told.bytes = 0 /\ told.pdus = 0
          /\ told.replies = Output.replies /\ told.reservations = Output.reservations
          /\ told.events = Output.events \o <<Event("Closed")>>
          /\ told.seq = Output.seq /\ told.id = Output.id /\ told.framed = Output.framed
      <3>1. /\ told \in Outputs /\ told.bytes = o.bytes /\ told.pdus = o.pdus
            /\ told.replies = o.replies /\ told.reservations = o.reservations
            /\ told.events = o.events \o <<Event("Closed")>>
            /\ told.seq = o.seq /\ told.id = o.id /\ told.framed = o.framed
        BY <2>1, <2>2, NotifyFacts
      <3>. HIDE DEF told
      <3>. QED
        BY <2>2, <3>1
    <2>. HIDE DEF told
    <2>4. SetOutput(told)
      BY <1>1, <1>2, <1>5, <2>3, OutputNow DEF SetOutput
    <2>. QED
      BY <2>3, <2>4, SetOutputFacts DEF told, o
  <1>7. Requests' /\ Due' = Due
    BY <1>1, InvFacts, RequestsKept
  <1>8. nextRx' \in Nat \ {0}
    BY <1>1, InvFacts
  <1>. QED
    BY <1>1, <1>6, <1>7, <1>8, InvFacts, CloseStep

\* A fragment that is not the last one of its PDU leaves all but the reassembler.
LEMMA ReceiveFragmentInv ==
    ASSUME Inv, NEW f, ReceiveFragment(f)
    PROVE  Inv'
  <1>1. /\ state = "Running" /\ state' = state /\ nextRx' = nextRx + 1
        /\ UNCHANGED handshakeVars /\ UNCHANGED rxVars /\ UNCHANGED executorVars
    BY DEF ReceiveFragment, brokerVars
  <1>2. Output' = Output
    BY DEF ReceiveFragment, brokerVars, queueVars, Output
  <1>3. Requests' /\ Due' = Due
    BY <1>1, InvFacts, RequestsKept
  <1>4. Blocked(Output) /\ brokerState = "Established"
    BY <1>1, RunningIsBlocked
  <1>5. state' \in States /\ nextRx' \in Nat \ {0}
    BY <1>1, InvFacts DEF States
  <1>. QED
    BY <1>1, <1>2, <1>3, <1>4, <1>5, InvFacts, OutputStep

\* A PDU that leaves the output side sound, and blocked.
LEMMA ReceivePduInv ==
    ASSUME Inv, NEW f, NEW size, NEW o, NEW failed \in BOOLEAN,
           ReceivePdu(f, size, o, failed), Requests',
           NEW due, Due' = due, Sound(o, due), Blocked(o)
    PROVE  Inv'
  <1>1. /\ state = "Running" /\ state' \in {"Running", "Failed"} /\ nextRx' = nextRx + 1
        /\ UNCHANGED handshakeVars /\ UNCHANGED rxVars /\ SetOutput(o)
    BY DEF ReceivePdu
  <1>2. Output' = o
    BY <1>1, SetOutputFacts DEF Sound
  <1>3. brokerState = "Established"
    BY <1>1, RunningIsBlocked
  <1>4. state' \in States /\ nextRx' \in Nat \ {0}
    BY <1>1, InvFacts DEF States
  <1>. QED
    BY <1>1, <1>2, <1>3, <1>4, OutputStep

\* A whole PDU with no request for the executor.
LEMMA ReceiveOpaqueInv ==
    ASSUME Inv, NEW f, NEW size, ReceiveOpaque(f, size)
    PROVE  Inv'
  <1>. DEFINE told == Notify(Output, <<Event("OpaquePdu")>>)
  <1>1. ReceivePdu(f, size, told, FALSE) /\ UNCHANGED executorVars /\ state = "Running"
    BY DEF ReceiveOpaque, ReceivePdu
  <1>2. <<Event("OpaquePdu")>> \in Seq(Events) /\ At(<<Event("OpaquePdu")>>) = {}
    BY NoticeFacts DEF NoticeKinds
  <1>3. Blocked(Output)
    BY <1>1, RunningIsBlocked
  <1>4. Sound(told, Due)
    BY <1>2, InvFacts, NotifySound
  <1>5. Blocked(told)
    BY <1>2, <1>3, InvFacts, NotifySound
  <1>. HIDE DEF told
  <1>6. Requests' /\ Due' = Due
    BY <1>1, InvFacts, RequestsKept
  <1>. QED
    BY <1>1, <1>4, <1>5, <1>6, ReceivePduInv

\* A request: the executor's notices and replies are handled.
LEMMA ReceiveRequestInv ==
    ASSUME Inv, NEW f, NEW size,
           NEW notices \in Seq(Events), At(notices) = {},
           NEW replies \in Seq(UnsentReplies), \A t : AnswersAt(replies, t) = {},
           ReceiveRequest(f, size, notices, replies), Requests', Due' = Due
    PROVE  Inv'
  <1>. DEFINE o == AfterExecutor(Output, notices, replies)
  <1>1. ReceivePdu(f, size, o, DrainError(o))
    BY DEF ReceiveRequest
  <1>2. /\ {} \cap Due = {} /\ Due \cup {} = Due
        /\ \A t \in Tokens : t \in {} <=> AnswersAt(replies, t) # {}
        /\ \A t \in Tokens : \A i, j \in AnswersAt(replies, t) : i = j
    OBVIOUS
  <1>3. Sound(o, Due \cup {}) /\ Blocked(o)
    BY <1>2, InvFacts, AfterExecutorSound
  <1>. HIDE DEF o
  <1>4. Sound(o, Due)
    BY <1>2, <1>3
  <1>5. DrainError(o) \in BOOLEAN
    BY DEF DrainError
  <1>. QED
    BY <1>1, <1>3, <1>4, <1>5, ReceivePduInv

\* A SUBMIT,
LEMMA ReceiveSubmitInv ==
    ASSUME Inv, NEW f, NEW r \in Executor!SubmitRequest, ReceiveSubmit(f, r)
    PROVE  Inv'
  <1>. DEFINE notices == <<TokenEvent("Submit", nextToken)>>
  <1>1. ReceiveRequest(f, SubmitSize(r), notices, <<>>) /\ Executor!AcceptSubmit(r)
    BY DEF ReceiveSubmit
  <1>2. nextToken \in Nat
    <2>1. MaxToken \in Nat
      BY ConfigAssumption
    <2>2. nextToken \in 1 .. MaxToken
      BY InvFacts DEF Requests
    <2>. QED
      BY <2>1, <2>2
  <1>3. notices \in Seq(Events) /\ At(notices) = {}
    BY <1>2, NoticeFacts DEF NoticeKinds
  <1>4. Requests' /\ Due' = Due
    BY <1>1, InvFacts, SubmitRequests
  <1>. HIDE DEF notices
  <1>. QED
    BY <1>1, <1>3, <1>4, NoAnswers, ReceiveRequestInv

\* an UNLINK of a pending request,
LEMMA ReceiveUnlinkInv ==
    ASSUME Inv, NEW f, NEW unlink \in SeqNums, NEW target \in SeqNums,
           ReceiveUnlink(f, unlink, target)
    PROVE  Inv'
  <1>. DEFINE token == pendingBySequence[target].token
              notices == <<TokenEvent("Cancel", token)>>
  <1>1. ReceiveRequest(f, HeaderSize, notices, <<>>) /\ Executor!AcceptUnlink(unlink, target)
    BY DEF ReceiveUnlink
  <1>2. Requests' /\ Due' = Due /\ token \in Nat
    BY <1>1, InvFacts, UnlinkRequests
  <1>. HIDE DEF token
  <1>3. notices \in Seq(Events) /\ At(notices) = {}
    BY <1>2, NoticeFacts DEF NoticeKinds
  <1>. HIDE DEF notices
  <1>. QED
    BY <1>1, <1>2, <1>3, NoAnswers, ReceiveRequestInv

\* and an UNLINK of another one, which is answered at once.
LEMMA ReceiveUnlinkOfUnknownInv ==
    ASSUME Inv, NEW f, NEW unlink \in SeqNums, NEW target \in SeqNums,
           ReceiveUnlinkOfUnknown(f, unlink, target)
    PROVE  Inv'
  <1>. DEFINE replies == Sized(<<Executor!NoEntryReply(unlink)>>, HeaderSize)
  <1>1. ReceiveRequest(f, HeaderSize, <<>>, replies) /\ UNCHANGED executorVars
    BY DEF ReceiveUnlinkOfUnknown
  <1>2. replies \in Seq(UnsentReplies) /\ \A t : AnswersAt(replies, t) = {}
    BY NoAnswers
  <1>3. Requests' /\ Due' = Due
    BY <1>1, InvFacts, RequestsKept
  <1>. HIDE DEF replies
  <1>. QED
    BY <1>1, <1>2, <1>3, NoticeFacts, ReceiveRequestInv

-----------------------------------------------------------------------------
(* Calls of the owner and of the platform.                                 *)

\* The owner sends a PDU in front of the replies that wait.
LEMMA SendPduInv ==
    ASSUME Inv, NEW id \in OwnPduIds, NEW size \in Nat, SendPdu(id, size)
    PROVE  Inv'
  <1>. DEFINE o == Sent(Output, id, size)
  <1>1. /\ SendResult(id, size, Output) = "Ok" /\ SetOutput(o)
        /\ state' = state /\ nextRx' = nextRx /\ UNCHANGED handshakeVars
        /\ UNCHANGED rxVars /\ UNCHANGED executorVars
    BY DEF SendPdu
  <1>2. state = "Running"
    BY <1>1 DEF SendResult
  <1>3. Blocked(Output) /\ brokerState = "Established"
    BY <1>2, RunningIsBlocked
  <1>4. Sound(o, Due) /\ Blocked(o)
    BY <1>1, <1>3, InvFacts, SentSound
  <1>. HIDE DEF o
  <1>5. Output' = o
    BY <1>1, <1>4, SetOutputFacts DEF Sound
  <1>6. Requests' /\ Due' = Due
    BY <1>1, InvFacts, RequestsKept
  <1>. QED
    BY <1>1, <1>2, <1>3, <1>4, <1>5, <1>6, InvFacts, OutputStep

\* Draining a queue with no reply leaves none.
LEMMA DrainedNone ==
    ASSUME NEW o \in Outputs, o.replies = <<>> \/ state # "Running"
    PROVE  Drained(o) = o
  <1>1. DrainTurn(o) = o
    BY DEF DrainTurn, FrontResult, SendResult
  <1>2. Drained(o) \in {o}
    BY <1>1, DrainLoop
  <1>. QED
    BY <1>2

\* A reservation goes: with its credit, if the broker still counts it.
LEMMA AckSound ==
    ASSUME Inv, NEW id \in DOMAIN outputReservations
    PROVE  LET size == outputReservations[id]
               rest == [Output EXCEPT !.reservations = Executor!Remove(@, {id})]
               free == [rest EXCEPT !.bytes = @ - size, !.pdus = @ - 1]
           IN  /\ Broker!CanConsume(size, txBytes, txPdus) <=> brokerState = "Established"
               /\ rest.replies = Output.replies /\ free.replies = Output.replies
               /\ brokerState # "Established" => Sound(rest, Due)
               /\ brokerState = "Established" => Sound(free, Due)
  <1>. DEFINE size == outputReservations[id]
              left == Executor!Remove(outputReservations, {id})
              rest == [Output EXCEPT !.reservations = Executor!Remove(@, {id})]
              free == [rest EXCEPT !.bytes = @ - size, !.pdus = @ - 1]
  <1>1. Output \in Outputs /\ Framing(Output) /\ Accounts(Output) /\ Answered(Output, Due)
    BY InvFacts
  <1>2. /\ outputReservations \in Reservations /\ txBytes \in Nat /\ txPdus \in Nat
        /\ Output.reservations = outputReservations
        /\ Output.bytes = txBytes /\ Output.pdus = txPdus
    BY <1>1, OutputNow, FieldsOfOutput
  <1>3. size \in 1 .. MaxReassembly /\ MaxReassembly \in Nat
    <2>1. MaxReassembly \in Nat
      BY ConfigAssumption
    <2>. QED
      BY <1>2, <2>1, ReservationFacts
  <1>4. left \in Reservations /\ DOMAIN left = DOMAIN outputReservations \ {id}
    <2>1. /\ DOMAIN left = DOMAIN outputReservations \ {id}
          /\ \A k \in DOMAIN left : left[k] = outputReservations[k]
      BY DEF Executor!Remove, Executor!Restrict
    <2>2. left = [k \in DOMAIN left |-> left[k]]
      BY DEF Executor!Remove, Executor!Restrict
    <2>. HIDE DEF left
    <2>3. DOMAIN left \in SUBSET Nat /\ \A k \in DOMAIN left : left[k] \in 1 .. MaxReassembly
      BY <1>2, <2>1, ReservationFacts
    <2>4. left \in [DOMAIN left -> 1 .. MaxReassembly]
      BY <2>2, <2>3
    <2>. QED
      BY <2>1, <2>3, <2>4, ReservationFacts
  <1>. HIDE DEF left
  <1>5. /\ rest \in Outputs /\ rest.bytes = txBytes /\ rest.pdus = txPdus
        /\ rest.reservations = left /\ rest.replies = Output.replies
        /\ rest.seq = Output.seq /\ rest.id = Output.id /\ rest.events = Output.events
        /\ rest.framed = Output.framed
    BY <1>1, <1>2, <1>4 DEF Outputs, left
  <1>. HIDE DEF rest
  <1>6. /\ free.bytes = txBytes - size /\ free.pdus = txPdus - 1
        /\ free.reservations = left /\ free.replies = Output.replies
        /\ free.seq = Output.seq /\ free.id = Output.id /\ free.events = Output.events
        /\ free.framed = Output.framed
    BY <1>5 DEF Outputs
  <1>7. CASE brokerState # "Established"
    <2>1. Accounts(rest)
      BY <1>1, <1>2, <1>4, <1>5, <1>7 DEF Accounts
    <2>2. Framing(rest) /\ Answered(rest, Due)
      BY <1>1, <1>5, SameAnswers DEF Framing, Ordered
    <2>3. ~ Broker!CanConsume(size, txBytes, txPdus)
      BY <1>7 DEF Broker!CanConsume
    <2>. QED
      BY <1>5, <1>6, <1>7, <2>1, <2>2, <2>3 DEF Sound, rest
  <1>8. CASE brokerState = "Established"
    <2>1. Credit(Output) /\ WithinWindow(Output)
      BY <1>1, <1>8 DEF Accounts
    <2>2. /\ IsFiniteSet(DOMAIN left) /\ IsFiniteSet(BytesOf(left))
          /\ size <= txBytes /\ txPdus >= 1
          /\ txPdus - 1 = Cardinality(DOMAIN left)
          /\ txBytes - size = Cardinality(BytesOf(left))
          /\ txBytes - size \in Nat /\ txPdus - 1 \in Nat
      BY <1>1, <1>2, <2>1, RemoveKeepsCredit DEF left
    <2>3. Broker!CanConsume(size, txBytes, txPdus)
      BY <1>2, <1>3, <1>8, <2>2 DEF Broker!CanConsume
    <2>4. free \in Outputs
      BY <1>5, <2>2 DEF Outputs
    <2>. HIDE DEF free
    <2>5. Credit(free)
      BY <1>6, <2>2 DEF Credit
    <2>6. TxWindowBytes \in Nat /\ TxWindowPdus \in Nat
      BY ConfigAssumption
    <2>7. negotiatedMaxInflight \in Nat
      BY InvFacts DEF Broker!BrokerTypeOK
    <2>8. Broker!Least(TxWindowPdus, negotiatedMaxInflight) \in Nat
      BY <2>6, <2>7 DEF Broker!Least
    <2>9. txBytes <= TxWindowBytes /\ txPdus <= Broker!Least(TxWindowPdus, negotiatedMaxInflight)
      BY <1>2, <2>1 DEF WithinWindow
    <2>. HIDE DEF size
    <2>10. WithinWindow(free)
      BY <1>2, <1>3, <1>6, <2>6, <2>8, <2>9 DEF WithinWindow
    <2>11. Accounts(free)
      BY <1>8, <2>5, <2>10 DEF Accounts
    <2>12. Framing(free) /\ Answered(free, Due)
      BY <1>1, <1>6, SameAnswers DEF Framing, Ordered
    <2>. QED
      BY <1>5, <1>6, <1>8, <2>3, <2>4, <2>11, <2>12 DEF Sound, rest, free, size
  <1>. QED
    BY <1>7, <1>8

\* The owner acknowledges a PDU, and replies that waited for its credit follow.
LEMMA AckOutputInv ==
    ASSUME Inv, NEW id \in DOMAIN outputReservations, AckOutput(id)
    PROVE  Inv'
  <1>. DEFINE size == outputReservations[id]
              rest == [Output EXCEPT !.reservations = Executor!Remove(@, {id})]
              free == [rest EXCEPT !.bytes = @ - size, !.pdus = @ - 1]
              o == IF Broker!CanConsume(size, txBytes, txPdus) THEN Drained(free) ELSE rest
  <1>1. /\ SetOutput(o) /\ state' = state /\ nextRx' = nextRx /\ UNCHANGED handshakeVars
        /\ UNCHANGED rxVars /\ UNCHANGED executorVars
    BY DEF AckOutput
  <1>2. /\ Broker!CanConsume(size, txBytes, txPdus) <=> brokerState = "Established"
        /\ rest.replies = Output.replies /\ free.replies = Output.replies
        /\ brokerState # "Established" => Sound(rest, Due)
        /\ brokerState = "Established" => Sound(free, Due)
    BY AckSound
  <1>3. Requests' /\ Due' = Due
    BY <1>1, InvFacts, RequestsKept
  <1>4. Output.replies # <<>> => state \in {"Running", "Closed", "Failed"}
    BY InvFacts, OutputNow DEF RepliesFollowOpen
  <1>. HIDE DEF free, rest
  <1>5. CASE brokerState = "Established"
    <2>1. o = Drained(free)
      BY <1>2, <1>5
    <2>2. Sound(o, Due) /\ Blocked(o)
      BY <1>2, <1>5, <2>1, InvFacts, DrainedSound
    <2>3. o.replies # <<>> => state \in {"Running", "Closed", "Failed"}
      BY <1>2, <1>4, <1>5, <2>1, DrainedNone DEF Sound
    <2>. HIDE DEF o
    <2>4. Output' = o
      BY <1>1, <2>2, SetOutputFacts DEF Sound
    <2>. QED
      BY <1>1, <1>3, <1>5, <2>2, <2>3, <2>4, InvFacts, OutputStep
  <1>6. CASE brokerState # "Established"
    <2>1. o = rest
      BY <1>2, <1>6
    <2>2. Sound(o, Due) /\ o.replies = Output.replies
      BY <1>2, <1>6, <2>1
    <2>. HIDE DEF o
    <2>3. Output' = o
      BY <1>1, <2>2, SetOutputFacts DEF Sound
    <2>4. state \notin {"AwaitCapability", "AwaitOpen", "AwaitOpenReply", "Running"}
      BY <1>6, InvFacts DEF OpenNeedsHandshake
    <2>. QED
      BY <1>1, <1>3, <1>4, <2>2, <2>3, <2>4, InvFacts, OutputStep
  <1>. QED
    BY <1>5, <1>6

\* The replies to a call of the platform are queued and drained.
LEMMA PlatformCallInv ==
    ASSUME Inv, NEW replies \in Seq(UnsentReplies), PlatformCall(replies),
           Requests', NEW fresh, fresh \cap Due = {}, Due' = Due \cup fresh,
           \A t \in Tokens : t \in fresh <=> AnswersAt(replies, t) # {},
           \A t \in Tokens : \A i, j \in AnswersAt(replies, t) : i = j
    PROVE  Inv'
  <1>. DEFINE o == AfterExecutor(Output, <<>>, replies)
  <1>1. /\ state = "Running" /\ SetOutput(o) /\ state' = state /\ nextRx' = nextRx
        /\ UNCHANGED handshakeVars /\ UNCHANGED rxVars
    BY DEF PlatformCall
  <1>2. Sound(o, Due \cup fresh) /\ Blocked(o)
    BY InvFacts, NoticeFacts, AfterExecutorSound
  <1>. HIDE DEF o
  <1>3. Output' = o
    BY <1>1, <1>2, SetOutputFacts DEF Sound
  <1>4. brokerState = "Established"
    BY <1>1, RunningIsBlocked
  <1>. QED
    BY <1>1, <1>2, <1>3, <1>4, InvFacts, OutputStep

\* A live token's replies join the queue as it retires.
LEMMA RetireInv ==
    ASSUME Inv, NEW t \in LiveTokens, NEW size \in Nat \ {0}, Executor!Retire(t),
           PlatformCall(Sized(Executor!RepliesOf(t), size))
    PROVE  Inv'
  <1>. DEFINE replies == Sized(Executor!RepliesOf(t), size)
  <1>1. Requests' /\ Due' = Due \cup {t} /\ t \notin Due
    BY InvFacts, RetireRequests
  <1>2. replies \in Seq(UnsentReplies)
    BY InvFacts, TokenAnswers
  <1>3. \A u : u \in {t} <=> AnswersAt(replies, u) # {}
    BY InvFacts, TokenAnswers
  <1>4. \A u : \A i, j \in AnswersAt(replies, u) : i = j
    BY InvFacts, TokenAnswers
  <1>5. {t} \cap Due = {}
    BY <1>1
  <1>. HIDE DEF replies
  <1>6. PlatformCall(replies)
    BY DEF replies
  <1>. QED
    BY <1>1, <1>2, <1>3, <1>4, <1>5, <1>6, PlatformCallInv

\* The platform completes a request,
LEMMA CompleteInv ==
    ASSUME Inv, NEW t \in LiveTokens, NEW actual \in Executor!ByteCounts, Complete(t, actual)
    PROVE  Inv'
  <1>1. Executor!Retire(t)
    BY DEF Complete, Executor!Complete
  <1>2. HeaderSize \in Nat \ {0} /\ MaxTransferSize \in Nat
    BY ConfigAssumption
  <1>3. actual \in Nat
    BY <1>2 DEF Executor!ByteCounts
  <1>4. Executor!SubmitReplySize(t, actual) \in Nat \ {0}
    BY <1>2, <1>3 DEF Executor!SubmitReplySize
  <1>5. PlatformCall(Sized(Executor!RepliesOf(t), Executor!SubmitReplySize(t, actual)))
    BY DEF Complete, Executor!CompletionReplies
  <1>. QED
    BY <1>1, <1>4, <1>5, RetireInv

\* completes a cancelled one,
LEMMA CompleteCancelInv ==
    ASSUME Inv, NEW t \in LiveTokens, CompleteCancel(t)
    PROVE  Inv'
  <1>1. Executor!Retire(t) /\ Executor!Request(t).unlink # Executor!NoUnlink
    BY DEF CompleteCancel, Executor!CompleteCancel, Executor!CanCancel
  <1>2. HeaderSize \in Nat \ {0}
    BY ConfigAssumption
  <1>3. Executor!CancelReplies(t) = Executor!RepliesOf(t)
    BY <1>1 DEF Executor!CancelReplies, Executor!RepliesOf
  <1>4. PlatformCall(Sized(Executor!RepliesOf(t), HeaderSize))
    BY <1>3 DEF CompleteCancel
  <1>. QED
    BY <1>1, <1>2, <1>4, RetireInv

\* or one that is no longer pending, which changes nothing.
LEMMA CompleteLateInv ==
    ASSUME Inv, NEW t, CompleteLate(t)
    PROVE  Inv'
  <1>1. PlatformCall(<<>>) /\ UNCHANGED executorVars
    BY DEF CompleteLate
  <1>2. Requests' /\ Due' = Due \cup {}
    BY <1>1, InvFacts, RequestsKept
  <1>. QED
    BY <1>1, <1>2, NoAnswers, PlatformCallInv

\* The owner takes an event, a frame or a notice.
LEMMA NextEventInv ==
    ASSUME Inv, NextEvent
    PROVE  Inv'
  <1>. DEFINE o == [Output EXCEPT !.events = Tail(events)]
  <1>1. Output \in Outputs /\ Framing(Output) /\ Accounts(Output) /\ Answered(Output, Due)
    BY InvFacts
  <1>2. events \in Seq(Events) /\ Output.events = events /\ events # <<>>
    BY <1>1, OutputNow, FieldsOfOutput DEF NextEvent
  <1>3. Tail(events) \in Seq(Events)
    BY <1>2, HeadTailProperties
  <1>4. /\ o \in Outputs /\ o.bytes = Output.bytes /\ o.pdus = Output.pdus
        /\ o.reservations = Output.reservations /\ o.replies = Output.replies
        /\ o.seq = Output.seq /\ o.id = Output.id /\ o.framed = Output.framed
        /\ o.events = Tail(events)
    BY <1>1, <1>3 DEF Outputs
  <1>. HIDE DEF o
  <1>5. Output' = o
    <2>1. /\ events' = Tail(events) /\ txBytes' = txBytes /\ txPdus' = txPdus
          /\ UNCHANGED <<nextTx, nextInternalId, outputReservations, pendingReplies, framed>>
      BY DEF NextEvent, brokerVars
    <2>2. SetOutput(o)
      BY <1>4, <2>1, OutputNow DEF SetOutput
    <2>. QED
      BY <1>4, <2>2, SetOutputFacts
  <1>6. Framing(o)
    <2>1. /\ Numbered(o.events, o.seq) /\ Together(o.events)
          /\ Ascending(o.events, Output.id - Len(Output.replies))
      BY <1>1, <1>2, <1>4, TailKeepsNumbers, TailKeepsTogether, TailKeepsAscending
         DEF Framing, Ordered
    <2>. QED
      BY <1>1, <1>4, <2>1 DEF Framing, Ordered
  <1>7. Sound(o, Due)
    BY <1>1, <1>4, <1>6, SameAccounts, SameAnswers DEF Sound
  <1>8. /\ state' = state /\ nextRx' = nextRx /\ UNCHANGED handshakeVars
        /\ UNCHANGED rxVars /\ UNCHANGED executorVars
    BY DEF NextEvent, brokerVars
  <1>9. Requests' /\ Due' = Due
    BY <1>8, InvFacts, RequestsKept
  <1>10. state = "Running" => Blocked(o)
    BY <1>4, RunningIsBlocked, SameBlocked
  <1>11. state \in {"AwaitCapability", "AwaitOpen", "AwaitOpenReply", "Running"}
            => brokerState = "Established"
    BY InvFacts DEF OpenNeedsHandshake
  <1>12. o.replies # <<>> => state \in {"Running", "Closed", "Failed"}
    BY <1>4, InvFacts, OutputNow DEF RepliesFollowOpen
  <1>. QED
    BY <1>5, <1>7, <1>8, <1>9, <1>10, <1>11, <1>12, InvFacts, OutputStep

-----------------------------------------------------------------------------
(* close().                                                                *)

\* The session is closed by its owner with a CLOSE frame.
LEMMA TerminateInv ==
    ASSUME Inv, NEW o, NEW due, Sound(o, due), Due' = due, Requests', Terminate(o)
    PROVE  Inv'
  <1>. DEFINE said == Control(o, "Close")
              told == Notify(Emptied(said), <<Event("Closed")>>)
  <1>1. Sound(said, due)
    BY ControlSound DEF FrameTypes
  <1>2. /\ SetOutput(told) /\ Broker!CloseBroker /\ state' = "Closed" /\ nextRx' = nextRx
    BY DEF Terminate, Emptied
  <1>. HIDE DEF said
  <1>3. said \in Outputs /\ Framing(said) /\ Answered(said, due)
    BY <1>1 DEF Sound
  <1>4. told \in Outputs
    BY <1>3, EmptiedFacts, NoticeFacts, NotifyFacts DEF NoticeKinds
  <1>5. Output' = told
    BY <1>2, <1>4, SetOutputFacts
  <1>. QED
    BY <1>2, <1>3, <1>5, InvFacts, CloseStep

\* The owner closes a session before its HELLO was accepted,
LEMMA CloseUnopenedInv ==
    ASSUME Inv, CloseUnopened
    PROVE  Inv'
  <1>1. Terminate(Output) /\ UNCHANGED executorVars
    BY DEF CloseUnopened
  <1>2. Requests' /\ Due' = Due
    BY <1>1, InvFacts, RequestsKept
  <1>. QED
    BY <1>1, <1>2, InvFacts, TerminateInv

\* one whose requests cannot all be answered,
LEMMA CloseRefusedInv ==
    ASSUME Inv, CloseRefused
    PROVE  Inv'
  <1>. DEFINE o == Control(Output, "Close")
  <1>1. /\ state \notin {"Running", "Closed", "Failed"} /\ SetOutput(o)
        /\ state' = "Closing" /\ nextRx' = nextRx
        /\ UNCHANGED handshakeVars /\ UNCHANGED rxVars /\ UNCHANGED executorVars
    BY DEF CloseRefused
  <1>2. Sound(o, Due) /\ o.replies = Output.replies
    BY InvFacts, ControlSound DEF FrameTypes
  <1>. HIDE DEF o
  <1>3. Output' = o
    BY <1>1, <1>2, SetOutputFacts DEF Sound
  <1>4. Requests' /\ Due' = Due
    BY <1>1, InvFacts, RequestsKept
  <1>5. o.replies = <<>>
    BY <1>1, <1>2, InvFacts, OutputNow DEF RepliesFollowOpen
  <1>6. state' \in States
    BY <1>1 DEF States
  <1>. QED
    BY <1>1, <1>2, <1>3, <1>4, <1>5, <1>6, InvFacts, OutputStep

\* A running session answers its live tokens before it ends.
LEMMA CloseRunningInv ==
    ASSUME Inv, NEW order \in Executor!Orders(Executor!FoundTokens), CloseRunning(order)
    PROVE  Inv'
  <1>. DEFINE raw == FlattenSeq([i \in DOMAIN order |-> Executor!CloseReplies(order[i])])
              replies == Sized(raw, HeaderSize)
              o == AfterExecutor(Output, <<>>, replies)
  <1>1. /\ state = "Running" /\ Executor!CloseExecutor(order)
        /\ \/ SetOutput(o) /\ state' = state /\ nextRx' = nextRx
              /\ UNCHANGED handshakeVars /\ UNCHANGED rxVars
           \/ Terminate(o)
    BY DEF CloseRunning
  <1>2. /\ Requests' /\ Due' = Due \cup LiveTokens
        /\ Executor!FoundTokens = LiveTokens /\ IsFiniteSet(LiveTokens)
        /\ LiveTokens \cap Due = {}
    BY <1>1, InvFacts, CloseRequests
  <1>3. replies \in Seq(UnsentReplies)
    BY <1>2, InvFacts, CloseAnswers
  <1>4. \A t : t \in LiveTokens <=> AnswersAt(replies, t) # {}
    BY <1>2, InvFacts, CloseAnswers
  <1>5. \A t : \A i, j \in AnswersAt(replies, t) : i = j
    BY <1>2, InvFacts, CloseAnswers
  <1>. HIDE DEF replies, raw
  <1>6. Sound(o, Due \cup LiveTokens) /\ Blocked(o)
    BY <1>2, <1>3, <1>4, <1>5, InvFacts, NoticeFacts, AfterExecutorSound
  <1>. HIDE DEF o
  <1>7. brokerState = "Established"
    BY <1>1, RunningIsBlocked
  <1>8. CASE Terminate(o)
    BY <1>2, <1>6, <1>8, TerminateInv
  <1>9. CASE /\ SetOutput(o) /\ state' = state /\ nextRx' = nextRx
             /\ UNCHANGED handshakeVars /\ UNCHANGED rxVars
    <2>1. Output' = o
      BY <1>6, <1>9, SetOutputFacts DEF Sound
    <2>. QED
      BY <1>1, <1>2, <1>6, <1>7, <1>9, <2>1, InvFacts, OutputStep
  <1>. QED
    BY <1>1, <1>8, <1>9

-----------------------------------------------------------------------------
(* The session keeps the invariant.                                        *)

\* The steps of the opening of a device,
LEMMA OpeningInv ==
    ASSUME Inv,
           \/ Start \/ SendCapability \/ SendOpen \/ SendOpenOk \/ SendOpenReject
           \/ ReceiveCapability \/ ReceiveOpen \/ ReceiveOpenOk \/ ReceiveOpenReject
    PROVE  Inv'
  <1>1. /\ {"AwaitCapability", "AwaitOpen", "AwaitOpenReply"} \subseteq OpeningStates
        /\ {"Capability", "Open", "OpenOk", "OpenReject"} \subseteq FrameTypes
    BY DEF OpeningStates, FrameTypes
  <1>2. \A kind \in {"Capability", "Open", "Opened", "OpenRejected"} :
           <<Event(kind)>> \in Seq(Events) /\ At(<<Event(kind)>>) = {}
    BY NoticeFacts DEF NoticeKinds
  <1>3. CASE Start
    BY <1>3, StartInv
  <1>4. CASE SendCapability
    BY <1>1, <1>4, NoticeFacts, SendControlInv DEF SendCapability
  <1>5. CASE SendOpen
    BY <1>1, <1>5, NoticeFacts, SendControlInv DEF SendOpen
  <1>6. CASE SendOpenOk
    BY <1>1, <1>2, <1>6, SendControlInv DEF SendOpenOk
  <1>7. CASE SendOpenReject
    BY <1>1, <1>7, NoticeFacts, SendControlInv DEF SendOpenReject
  <1>8. CASE ReceiveCapability
    BY <1>1, <1>2, <1>8, ReceiveControlInv DEF ReceiveCapability
  <1>9. CASE ReceiveOpen
    BY <1>1, <1>2, <1>9, ReceiveControlInv DEF ReceiveOpen
  <1>10. CASE ReceiveOpenOk
    BY <1>1, <1>2, <1>10, ReceiveControlInv DEF ReceiveOpenOk
  <1>11. CASE ReceiveOpenReject
    BY <1>1, <1>2, <1>11, ReceiveControlInv DEF ReceiveOpenReject
  <1>. QED
    BY <1>3, <1>4, <1>5, <1>6, <1>7, <1>8, <1>9, <1>10, <1>11

\* those of the owner,
LEMMA OwnerInv ==
    ASSUME Inv, OwnerStep
    PROVE  Inv'
  <1>1. CASE \E id \in DOMAIN outputReservations : AckOutput(id)
    BY <1>1, AckOutputInv
  <1>2. CASE \E order \in Executor!Orders(Executor!FoundTokens) : CloseRunning(order)
    BY <1>2, CloseRunningInv
  <1>3. CASE CloseUnopened \/ CloseRefused
    BY <1>3, CloseUnopenedInv, CloseRefusedInv
  <1>4. CASE \E id \in OwnPduIds, size \in OpaqueSizes : SendPdu(id, size)
    <2>1. OpaqueSizes \subseteq Nat
      BY ConfigAssumption
    <2>. QED
      BY <1>4, <2>1, SendPduInv
  <1>5. CASE NextEvent
    BY <1>5, NextEventInv
  <1>6. CASE Start \/ SendCapability \/ SendOpen \/ SendOpenOk \/ SendOpenReject
    BY <1>6, OpeningInv
  <1>. QED
    BY <1>1, <1>2, <1>3, <1>4, <1>5, <1>6 DEF OwnerStep, OwnerCall

\* those of the platform,
LEMMA PlatformInv ==
    ASSUME Inv, PlatformStep
    PROVE  Inv'
  BY CompleteInv, CompleteCancelInv, CompleteLateInv DEF PlatformStep, LiveTokens

\* those of the peer
LEMMA PeerInv ==
    ASSUME Inv, PeerStep
    PROVE  Inv'
  <1>1. ASSUME NEW h \in PeerHellos, AcceptHello(h)
        PROVE  Inv'
    <2>1. h.maxPdu \in Nat /\ h.maxInflight \in Nat
      BY ConfigAssumption
    <2>. QED
      BY <1>1, <2>1, AcceptHelloInv
  <1>2. CASE RejectFrame
    BY <1>2, FailInv DEF RejectFrame
  <1>3. CASE RefuseFrame
    BY <1>3, FailInv DEF RefuseFrame
  <1>4. CASE ReceiveCapability \/ ReceiveOpen \/ ReceiveOpenOk \/ ReceiveOpenReject
    BY <1>4, OpeningInv
  <1>5. CASE ReceiveClose
    BY <1>5, ReceiveCloseInv
  <1>6. ASSUME NEW f \in PeerFragments, ReceiveFragment(f)
        PROVE  Inv'
    BY <1>6, ReceiveFragmentInv
  <1>7. ASSUME NEW f \in PeerFragments, NEW size \in OpaqueSizes, ReceiveOpaque(f, size)
        PROVE  Inv'
    BY <1>7, ReceiveOpaqueInv
  <1>8. ASSUME NEW f \in PeerFragments, NEW r \in Executor!SubmitRequest, ReceiveSubmit(f, r)
        PROVE  Inv'
    BY <1>8, ReceiveSubmitInv
  <1>9. ASSUME NEW f \in PeerFragments, NEW unlink \in SeqNums, NEW target \in SeqNums,
               ReceiveUnlink(f, unlink, target) \/ ReceiveUnlinkOfUnknown(f, unlink, target)
        PROVE  Inv'
    BY <1>9, ReceiveUnlinkInv, ReceiveUnlinkOfUnknownInv
  <1>. QED
    BY <1>1, <1>2, <1>3, <1>4, <1>5, <1>6, <1>7, <1>8, <1>9 DEF PeerStep

\* and a step of the environment
LEMMA StutterInv ==
    ASSUME Inv, UNCHANGED vars
    PROVE  Inv'
  <1>1. /\ state' = state /\ nextRx' = nextRx /\ UNCHANGED handshakeVars
        /\ UNCHANGED rxVars /\ UNCHANGED executorVars
        /\ txBytes' = txBytes /\ txPdus' = txPdus /\ UNCHANGED queueVars
    BY DEF vars, brokerVars
  <1>2. Output' = Output
    BY <1>1 DEF Output, queueVars
  <1>3. Requests' /\ Due' = Due
    BY <1>1, InvFacts, RequestsKept
  <1>4. state = "Running" => Blocked(Output)
    BY RunningIsBlocked
  <1>5. state \in {"AwaitCapability", "AwaitOpen", "AwaitOpenReply", "Running"}
           => brokerState = "Established"
    BY InvFacts DEF OpenNeedsHandshake
  <1>6. Output.replies # <<>> => state \in {"Running", "Closed", "Failed"}
    BY InvFacts, OutputNow DEF RepliesFollowOpen
  <1>. QED
    BY <1>1, <1>2, <1>3, <1>4, <1>5, <1>6, InvFacts, OutputStep

\* preserve the invariant: so does every step.
LEMMA NextInv ==
    ASSUME Inv, [Next]_vars
    PROVE  Inv'
  BY OwnerInv, PlatformInv, PeerInv, StutterInv DEF Next

\* The session engine keeps its invariant: the output side is sound, the
\* executor's indexes agree, and the broker, the session's state and the
\* replies that wait go together (src/src/transport.rs).
THEOREM TransportInvariant == Spec => []Inv
  <1>1. Init => Inv
    BY InitInv
  <1>2. Inv /\ [Next]_vars => Inv'
    BY NextInv
  <1>. QED
    BY <1>1, <1>2, PTL DEF Spec

\* The session's fields hold values of their types.
THEOREM TransportTypeCorrect == Spec => []TypeOK
  <1>1. ASSUME Inv
        PROVE  TypeOK
    <2>1. /\ Output \in Outputs /\ Ordered(Output) /\ Broker!BrokerTypeOK /\ state \in States
          /\ nextRx \in Nat \ {0}
      BY <1>1, InvFacts DEF Framing
    <2>2. /\ outputReservations \in Reservations /\ pendingReplies \in Seq(Replies)
          /\ nextInternalId \in Nat /\ nextTx \in Nat \ {0} /\ framed \in [Tokens -> Nat]
      BY <2>1, OutputNow, FieldsOfOutput
    <2>3. \A id \in DOMAIN outputReservations : outputReservations[id] \in 1 .. MaxReassembly
      BY <2>2, ReservationFacts
    <2>4. \A i \in DOMAIN pendingReplies : pendingReplies[i].size \in Nat \ {0}
      <3>1. \A i \in DOMAIN pendingReplies : pendingReplies[i] \in Replies
        BY <2>2, ElementOfSeq, LenProperties
      <3>. QED
        BY <3>1 DEF Replies
    <2>5. nextInternalId >= FirstInternalId
      <3>1. /\ Output.id \in Nat /\ Len(Output.replies) \in Nat /\ FirstInternalId \in Nat
            /\ Output.id - Len(Output.replies) >= FirstInternalId
        BY <2>1, BoundType
      <3>2. Output.id >= FirstInternalId
        BY <3>1
      <3>. QED
        BY <3>2, OutputNow
    <2>. QED
      BY <2>1, <2>2, <2>3, <2>4, <2>5 DEF TypeOK
  <1>. QED
    BY <1>1, TransportInvariant, PTL

\* Sound accounts: the broker counts what the owner has still to acknowledge.
LEMMA InvCredit ==
    ASSUME Inv
    PROVE  CreditMatchesReservations
  <1>1. Accounts(Output) /\ Broker!BrokerTypeOK /\ rxBytes = 0 /\ rxPdus = 0
    BY InvFacts DEF Parts
  <1>2. ReservedBytes = BytesOf(outputReservations)
    BY DEF ReservedBytes, BytesOf
  <1>3. ASSUME brokerState = "Established"
        PROVE  /\ txPdus = Cardinality(DOMAIN outputReservations)
               /\ txBytes = Cardinality(ReservedBytes)
    BY <1>1, <1>2, <1>3, OutputNow DEF Accounts, Credit
  <1>4. {TxWindowBytes, TxWindowPdus, RxWindowBytes, RxWindowPdus} \subseteq Nat
    BY ConfigAssumption
  <1>5. negotiatedMaxInflight \in Nat
    BY <1>1 DEF Broker!BrokerTypeOK
  <1>6. /\ 0 <= Broker!Least(TxWindowPdus, negotiatedMaxInflight)
        /\ 0 <= Broker!Least(RxWindowPdus, negotiatedMaxInflight)
        /\ 0 <= TxWindowBytes /\ 0 <= RxWindowBytes
    BY <1>4, <1>5 DEF Broker!Least
  <1>7. WithinWindow(Output) \/ (txBytes = 0 /\ txPdus = 0)
    BY <1>1, OutputNow DEF Accounts
  <1>8. /\ txBytes <= TxWindowBytes
        /\ txPdus <= Broker!Least(TxWindowPdus, negotiatedMaxInflight)
    BY <1>6, <1>7, OutputNow DEF WithinWindow
  <1>9. Broker!WithinWindows
    BY <1>1, <1>6, <1>8 DEF Broker!WithinWindows
  <1>. QED
    BY <1>3, <1>9 DEF CreditMatchesReservations

\* The broker counts what the owner has still to acknowledge, and the windows
\* are kept: send_pdu, ack_output, the drain loop and the ends of the session.
THEOREM CreditIsExact == Spec => []CreditMatchesReservations
  BY InvCredit, TransportInvariant, PTL

\* The invariant's queue of events is the session's.
LEMMA QueueFacts ==
    ASSUME Inv
    PROVE  /\ Numbered(events, nextTx) /\ Together(events)
           /\ Ordered(Output) /\ FramesAt = At(events) /\ ReplyFramesAt = RepliesAt(events)
  <1>1. FramesAt = At(events)
    BY DEF FramesAt, At
  <1>2. ReplyFramesAt = RepliesAt(events)
    BY <1>1 DEF ReplyFramesAt, RepliesAt
  <1>. QED
    BY <1>1, <1>2, InvFacts, OutputNow DEF Framing

\* A sound queue of events: its frames are numbered up to the next number.
LEMMA InvNumbers ==
    ASSUME Inv
    PROVE  SequencesContiguous
  BY QueueFacts DEF SequencesContiguous, Numbered

\* Frames are numbered without a gap, whatever made them (make_frame).
THEOREM FramesAreNumbered == Spec => []SequencesContiguous
  BY InvNumbers, TransportInvariant, PTL

\* No frame comes between those of a PDU (fragment_and_queue).
THEOREM PdusStayWhole == Spec => []PdusContiguous
  <1>1. Inv => PdusContiguous
    BY QueueFacts DEF PdusContiguous, Together
  <1>. QED
    BY <1>1, TransportInvariant, PTL

\* Replies are sent in the order the executor gave them
\* (handle_executor_events, drain_pending_replies).
THEOREM RepliesKeepOrder == Spec => []RepliesInOrder
  <1>1. ASSUME Inv
        PROVE  RepliesInOrder
    <2>1. /\ Ascending(events, nextInternalId - Len(pendingReplies))
          /\ \A i \in DOMAIN pendingReplies :
                pendingReplies[i].id = nextInternalId - Len(pendingReplies) + i - 1
      BY <1>1, QueueFacts, OutputNow DEF Ordered
    <2>2. ASSUME pendingReplies # <<>>
          PROVE  Head(pendingReplies).id = nextInternalId - Len(pendingReplies)
      <3>1. pendingReplies \in Seq(Replies) /\ nextInternalId \in Nat
        BY <1>1, InvFacts, OutputNow, FieldsOfOutput
      <3>2. Len(pendingReplies) \in Nat /\ 1 \in DOMAIN pendingReplies
            /\ Head(pendingReplies) = pendingReplies[1]
        BY <2>2, <3>1, LenProperties, EmptySeq, HeadTailProperties
      <3>3. pendingReplies[1].id = nextInternalId - Len(pendingReplies) + 1 - 1
        BY <2>1, <3>2
      <3>4. nextInternalId - Len(pendingReplies) + 1 - 1 = nextInternalId - Len(pendingReplies)
        BY <3>1, <3>2
      <3>. QED
        BY <3>2, <3>3, <3>4
    <2>. QED
      BY <1>1, <2>1, <2>2, QueueFacts DEF RepliesInOrder, Ascending
  <1>. QED
    BY <1>1, TransportInvariant, PTL

\* An admitted request is live, or has its answer waiting, or has had it sent,
\* and never two of these: submission, completion, cancellation, the drain
\* loop, and the ends of the session.
THEOREM RequestsAreAnsweredOnce == Spec => []AnsweredExactlyOnce
  <1>1. ASSUME Inv
        PROVE  AnsweredExactlyOnce
    <2>1. ASSUME NEW t \in Tokens
          PROVE  framed[t] + Cardinality({i \in DOMAIN pendingReplies :
                                   pendingReplies[i].kind = "RetSubmit"
                                   /\ pendingReplies[i].token = t})
                    = (IF t < nextToken /\ t \notin LiveTokens THEN 1 ELSE 0)
      <3>1. Output.framed[t] + Cardinality(AnswersAt(Output.replies, t))
               = IF t \in Due THEN 1 ELSE 0
        BY <1>1, InvFacts, AnsweredCount
      <3>2. t \in Due <=> (t < nextToken /\ t \notin LiveTokens)
        BY DEF Due
      <3>3. {i \in DOMAIN pendingReplies :
                pendingReplies[i].kind = "RetSubmit" /\ pendingReplies[i].token = t}
              = AnswersAt(Output.replies, t)
        BY OutputNow DEF AnswersAt, Answer
      <3>. QED
        BY <3>1, <3>2, <3>3, OutputNow
    <2>. QED
      BY <2>1 DEF AnsweredExactlyOnce
  <1>. QED
    BY <1>1, TransportInvariant, PTL

\* The drain loop stops only where send_pdu() refuses, and every call that
\* frees credit or queues a reply runs it.
THEOREM WakeupsAreKept == Spec => []NoLostWakeup
  <1>1. Inv => NoLostWakeup
    BY DEF Inv
  <1>. QED
    BY <1>1, TransportInvariant, PTL

\* Past the handshake the broker is established (accept_hello, accept_frame).
THEOREM OpeningFollowsHandshake == Spec => []OpenNeedsHandshake
  <1>1. Inv => OpenNeedsHandshake
    BY DEF Inv
  <1>. QED
    BY <1>1, TransportInvariant, PTL

-----------------------------------------------------------------------------
(* What no step may do.                                                    *)

\* An acknowledgement in a session that does not run only returns credit.
LEMMA AckQuietly ==
    ASSUME Inv, NEW id \in DOMAIN outputReservations, AckOutput(id), state # "Running"
    PROVE  UNCHANGED <<state, nextTx, pendingReplies, framed>>
  <1>. DEFINE size == outputReservations[id]
              rest == [Output EXCEPT !.reservations = Executor!Remove(@, {id})]
              free == [rest EXCEPT !.bytes = @ - size, !.pdus = @ - 1]
              o == IF Broker!CanConsume(size, txBytes, txPdus) THEN Drained(free) ELSE rest
  <1>1. SetOutput(o) /\ state' = state
    BY DEF AckOutput
  <1>2. /\ Broker!CanConsume(size, txBytes, txPdus) <=> brokerState = "Established"
        /\ brokerState # "Established" => Sound(rest, Due)
        /\ brokerState = "Established" => Sound(free, Due)
    BY AckSound
  <1>3. Output \in Outputs
    BY InvFacts
  <1>4. /\ rest.seq = Output.seq /\ rest.replies = Output.replies
        /\ rest.framed = Output.framed
    BY DEF Output
  <1>5. /\ free.seq = Output.seq /\ free.replies = Output.replies
        /\ free.framed = Output.framed
    <2>1. DOMAIN rest = DOMAIN Output
      OBVIOUS
    <2>2. DOMAIN Output = OutputFields
      BY <1>3, FieldsOfOutput
    <2>. HIDE DEF rest
    <2>. QED
      BY <1>4, <2>1, <2>2 DEF OutputFields
  <1>. HIDE DEF free, rest
  <1>6. o.seq = Output.seq /\ o.replies = Output.replies /\ o.framed = Output.framed
        /\ o \in Outputs
    <2>1. CASE brokerState = "Established"
      <3>1. free \in Outputs
        BY <1>2, <2>1 DEF Sound
      <3>2. Drained(free) = free
        BY <3>1, DrainedNone
      <3>. QED
        BY <1>2, <1>5, <2>1, <3>1, <3>2
    <2>2. CASE brokerState # "Established"
      BY <1>2, <1>4, <2>2 DEF Sound
    <2>. QED
      BY <2>1, <2>2
  <1>. HIDE DEF o
  <1>7. nextTx' = o.seq /\ pendingReplies' = o.replies /\ framed' = o.framed
    BY <1>1, <1>6, SetOutputFacts, OutputNext
  <1>. QED
    BY <1>1, <1>6, <1>7, OutputNow

\* What its owner can do to a session that is neither opening nor open.
LEMMA QuietOwner ==
    ASSUME state \notin {"AwaitCapability", "AwaitOpen", "AwaitOpenReply", "Running"}
    PROVE  /\ OwnerCall => \/ Start \/ CloseUnopened \/ CloseRefused
                           \/ \E id \in DOMAIN outputReservations : AckOutput(id)
           /\ \A id, size : ~ SendPdu(id, size)
  <1>1. ~ (SendCapability \/ SendOpen \/ SendOpenOk \/ SendOpenReject)
    BY DEF SendCapability, SendOpen, SendOpenOk, SendOpenReject, SendControl
  <1>2. \A order : ~ CloseRunning(order)
    BY DEF CloseRunning
  <1>3. \A id, size : ~ SendPdu(id, size)
    BY DEF SendPdu, SendResult
  <1>. QED
    BY <1>1, <1>2, <1>3 DEF OwnerCall

\* What can happen in such a session.
LEMMA QuietSteps ==
    ASSUME state \notin {"AwaitCapability", "AwaitOpen", "AwaitOpenReply", "Running"}, Next
    PROVE  \/ Start \/ NextEvent \/ CloseUnopened \/ CloseRefused
           \/ \E id \in DOMAIN outputReservations : AckOutput(id)
           \/ \E h \in PeerHellos : AcceptHello(h)
           \/ RejectFrame \/ RefuseFrame
  <1>1. ~ PlatformStep
    BY DEF PlatformStep, Complete, CompleteCancel, CompleteLate, PlatformCall
  <1>2. ~ (\/ ReceiveCapability \/ ReceiveOpen \/ ReceiveOpenOk \/ ReceiveOpenReject
           \/ ReceiveClose)
    BY DEF ReceiveCapability, ReceiveOpen, ReceiveOpenOk, ReceiveOpenReject,
           ReceiveControl, ReceiveClose, Receiving
  <1>3. \A f : ~ ReceiveFragment(f)
    BY DEF ReceiveFragment
  <1>4. \A f, size, o, failed : ~ ReceivePdu(f, size, o, failed)
    BY DEF ReceivePdu
  <1>5. /\ \A f, size : ~ ReceiveOpaque(f, size)
        /\ \A f, r : ~ ReceiveSubmit(f, r)
        /\ \A f, unlink, target :
              ~ ReceiveUnlink(f, unlink, target) /\ ~ ReceiveUnlinkOfUnknown(f, unlink, target)
    BY <1>4 DEF ReceiveOpaque, ReceiveSubmit, ReceiveUnlink, ReceiveUnlinkOfUnknown,
                ReceiveRequest
  <1>6. PeerStep => RejectFrame \/ RefuseFrame \/ \E h \in PeerHellos : AcceptHello(h)
    BY <1>2, <1>3, <1>5 DEF PeerStep
  <1>7. OwnerStep => \/ Start \/ NextEvent \/ CloseUnopened \/ CloseRefused
                     \/ \E id \in DOMAIN outputReservations : AckOutput(id)
    BY QuietOwner DEF OwnerStep
  <1>. QED
    BY <1>1, <1>6, <1>7 DEF Next

\* What may change once a session has ended: only Closed can become Failed.
Silence ==
    /\ state' \in {state, "Failed"}
    /\ UNCHANGED <<nextTx, nextToken, pendingReplies, framed>>

\* The calls that have an effect then, and the frames that still come, are silent.
LEMMA SilentSteps ==
    ASSUME Inv, state \in {"Closed", "Failed"},
           \/ OwnerCall \/ NextEvent \/ RejectFrame \/ RefuseFrame \/ UNCHANGED vars
    PROVE  Silence
  <1>1. CASE UNCHANGED vars
    BY <1>1 DEF vars, executorVars, queueVars, Silence
  <1>2. CASE \E id \in DOMAIN outputReservations : AckOutput(id)
    <2>1. PICK id \in DOMAIN outputReservations : AckOutput(id)
      BY <1>2
    <2>2. nextToken' = nextToken
      BY <2>1 DEF AckOutput, executorVars
    <2>. QED
      BY <2>1, <2>2, AckQuietly DEF Silence
  <1>3. CASE NextEvent
    BY <1>3 DEF NextEvent, executorVars, Silence
  <1>4. CASE RejectFrame \/ RefuseFrame
    BY <1>4 DEF RejectFrame, RefuseFrame, Fail, executorVars, queueVars, Silence
  <1>5. ~ Start /\ ~ CloseUnopened /\ ~ CloseRefused
    BY DEF Start, CloseUnopened, CloseRefused
  <1>. QED
    BY <1>1, <1>2, <1>3, <1>4, <1>5, QuietOwner

\* A session that has ended makes no frame, admits no request and enters no
\* state but Failed: every call but accept_frame, next_event and ack_output is
\* refused, and close() does nothing.
THEOREM EndedSessionsAreSilent == Spec => SilentOnceEnded
  <1>1. ASSUME Inv, [Next]_vars, state \in {"Closed", "Failed"}
        PROVE  Silence
    <2>1. \A h : ~ AcceptHello(h)
      BY <1>1 DEF AcceptHello
    <2>2. Next => OwnerCall \/ NextEvent \/ RejectFrame \/ RefuseFrame
      BY <1>1, <2>1, QuietSteps DEF OwnerCall
    <2>. QED
      BY <1>1, <2>2, SilentSteps
  <1>2. Inv /\ [Next]_vars => [(state \in {"Closed", "Failed"}) => Silence]_vars
    BY <1>1
  <1>. QED
    BY <1>2, TransportInvariant, PTL DEF Spec, SilentOnceEnded, Silence

\* After a refused HELLO no later one is accepted, and close() can only queue
\* its CLOSE frame (accept_hello of the broker, close of the session).
THEOREM RefusalIsFinal == Spec => RefusedHelloIsFinal
  <1>1. ASSUME Inv, [Next]_vars, brokerState = "Failed"
        PROVE  /\ brokerState' = "Failed"
               /\ nextTx' # nextTx => Last(events').type = "Close"
    <2>1. state \notin {"AwaitCapability", "AwaitOpen", "AwaitOpenReply", "Running"}
      BY <1>1, InvFacts DEF OpenNeedsHandshake
    <2>2. CASE UNCHANGED vars
      BY <1>1, <2>2 DEF vars, brokerVars, handshakeVars, queueVars
    <2>3. CASE \E id \in DOMAIN outputReservations : AckOutput(id)
      <3>1. PICK id \in DOMAIN outputReservations : AckOutput(id)
        BY <2>3
      <3>2. brokerState' = brokerState
        BY <3>1 DEF AckOutput, handshakeVars
      <3>. QED
        BY <1>1, <2>1, <3>1, <3>2, AckQuietly
    <2>4. CASE NextEvent
      BY <1>1, <2>4 DEF NextEvent, brokerVars, handshakeVars
    <2>5. CASE RejectFrame \/ RefuseFrame
      BY <1>1, <2>5 DEF RejectFrame, RefuseFrame, Fail, brokerVars, handshakeVars, queueVars
    <2>6. CASE CloseRefused
      <3>. DEFINE o == Control(Output, "Close")
                  frame == Frame("Close", NoId, nextTx)
      <3>1. SetOutput(o) /\ brokerState' = brokerState
        BY <2>6 DEF CloseRefused, handshakeVars
      <3>2. o \in Outputs /\ o.events = Append(events, frame) /\ frame \in Frames
            /\ events \in Seq(Events)
        BY <1>1, InvFacts, OutputNow, ControlFacts, FieldsOfOutput DEF FrameTypes
      <3>. HIDE DEF o
      <3>3. events' = Append(events, frame)
        BY <3>1, <3>2, SetOutputFacts, OutputNext
      <3>4. frame \in Events /\ frame.type = "Close"
        BY <3>2 DEF Events, Frame
      <3>. HIDE DEF frame
      <3>5. Last(events') = frame
        <4>1. Len(events') = Len(events) + 1 /\ Len(events) \in Nat
              /\ events'[Len(events) + 1] = frame
          BY <3>2, <3>3, <3>4, AppendProperties, LenProperties
        <4>. QED
          BY <4>1 DEF Last
      <3>. QED
        BY <1>1, <3>1, <3>4, <3>5
    <2>7. ~ Start /\ ~ CloseUnopened /\ \A h : ~ AcceptHello(h)
      BY <1>1 DEF Start, Broker!MarkHelloSent, CloseUnopened, AcceptHello,
                  Broker!AcceptHello, Broker!AwaitsHello
    <2>. QED
      BY <1>1, <2>1, <2>2, <2>3, <2>4, <2>5, <2>6, <2>7, QuietSteps
  <1>2. Inv /\ [Next]_vars
          => [brokerState = "Failed" =>
                /\ brokerState' = "Failed"
                /\ nextTx' # nextTx => Last(events').type = "Close"]_vars
    BY <1>1
  <1>. QED
    BY <1>2, TransportInvariant, PTL DEF Spec, RefusedHelloIsFinal
=============================================================================
