--------------------------- MODULE PassiveProofs ---------------------------
(***************************************************************************)
(* The parts beside the engine (module Passive): that the wire session     *)
(* accepts only legal conversations, that the server session answers in    *)
(* turns, that the URB codec keeps what it is given, and that the C ABI    *)
(* hands events over in their order.  Each part has its own inductive      *)
(* invariant; the last section puts them together.                         *)
(***************************************************************************)
EXTENDS Passive, SequenceTheorems, TLAPS

-----------------------------------------------------------------------------
(* Sequences.                                                              *)

\* The elements of a prefix of a sequence.
LEMMA PrefixFacts ==
    ASSUME NEW S, NEW s \in Seq(S), NEW n \in 0 .. Len(s)
    PROVE  /\ SubSeq(s, 1, n) \in Seq(S)
           /\ Len(SubSeq(s, 1, n)) = n
           /\ \A i \in 1 .. n : SubSeq(s, 1, n)[i] = s[i]
  BY SubSeqProperties, ElementOfSeq, LenProperties

\* The sequence with a third element after the first two.
LEMMA AppendThird ==
    ASSUME NEW s \in Seq(MessageTypes), Len(s) = 2, NEW c \in MessageTypes,
           NEW u \in Seq(MessageTypes), Len(u) = 3, u[1] = s[1], u[2] = s[2], u[3] = c
    PROVE  Append(s, c) = u
  <1>1. /\ Append(s, c) \in Seq(MessageTypes) /\ Len(Append(s, c)) = Len(s) + 1
        /\ \A i \in 1 .. Len(s) : Append(s, c)[i] = s[i]
        /\ Append(s, c)[Len(s) + 1] = c
    BY AppendProperties
  <1>2. /\ Len(Append(s, c)) = 3 /\ Append(s, c)[1] = s[1]
        /\ Append(s, c)[2] = s[2] /\ Append(s, c)[3] = c
    BY <1>1
  <1> QED BY <1>1, <1>2, SeqEqual

\* A sequence of three message types is determined by them.
LEMMA TripleFacts ==
    ASSUME NEW a \in MessageTypes, NEW b \in MessageTypes, NEW c \in MessageTypes
    PROVE  /\ <<a, b, c>> \in Seq(MessageTypes) /\ Len(<<a, b, c>>) = 3
           /\ Append(<<a, b>>, c) = <<a, b, c>>
           /\ \A t \in Seq(MessageTypes) : Len(t) = 3 /\ t[1] = a /\ t[2] = b /\ t[3] = c
                               => t = <<a, b, c>>
  <1> DEFINE s == <<a, b>>
             u == <<a, b, c>>
  <1>1. s \in Seq(MessageTypes) /\ Len(s) = 2 /\ s[1] = a /\ s[2] = b
    OBVIOUS
  <1>2. u \in Seq(MessageTypes) /\ Len(u) = 3 /\ u[1] = a /\ u[2] = b /\ u[3] = c
    OBVIOUS
  <1> HIDE DEF s, u
  <1>3. \A t \in Seq(MessageTypes) : Len(t) = 3 /\ t[1] = a /\ t[2] = b /\ t[3] = c => t = u
    BY <1>2, SeqEqual
  <1>4. Append(s, c) = u
    BY <1>1, <1>2, AppendThird
  <1> QED BY <1>2, <1>3, <1>4 DEF s, u

-----------------------------------------------------------------------------
(* The wire session.  Its phase alone does not say what was accepted: the  *)
(* invariant relates the two.  A failed session has forgotten its phase,   *)
(* so there some phase fits the frames accepted.                           *)

Types(s) == [i \in DOMAIN s |-> s[i].type]

TalkPhases == {"AwaitCapability", "AwaitOpen", "AwaitOpenReply", "Running"}

\* The first n types of t take an opening session to the phase.
Talk(t, n, phase) ==
    \/ phase = "AwaitCapability" /\ n = 0
    \/ phase = "AwaitOpen" /\ n = 1 /\ t[1] = "Capability"
    \/ phase = "AwaitOpenReply" /\ n = 2 /\ t[1] = "Capability" /\ t[2] = "Open"
    \/ /\ phase = "Running" /\ n >= 3
       /\ t[1] = "Capability" /\ t[2] = "Open" /\ t[3] = "OpenOk"
       /\ \A i \in 4 .. n : t[i] = "UsbIpData"

RejectedTalk(t) ==
    Len(t) = 3 /\ t[1] = "Capability" /\ t[2] = "Open" /\ t[3] = "OpenReject"
ClosedTalk(t) ==
    /\ Len(t) >= 1 /\ t[Len(t)] = "Close"
    /\ \E p \in TalkPhases : Talk(t, Len(t) - 1, p)

Conversation(t, phase) ==
    \/ Talk(t, Len(t), phase)
    \/ phase = "Closed" /\ (RejectedTalk(t) \/ ClosedTalk(t))

WireInv ==
    /\ accepted \in Seq(WireFrame)
    /\ wireRx = Len(accepted) + 1
    /\ \A i \in DOMAIN accepted : accepted[i].seq = i /\ accepted[i].sound
    /\ \E phase \in TalkPhases \cup {"Closed"} :
          Conversation(Types(accepted), phase) /\ wirePhase \in {phase, "Failed"}

\* The types of the frames of a sequence.
LEMMA TypesFacts ==
    ASSUME NEW s \in Seq(WireFrame)
    PROVE  /\ Types(s) \in Seq(MessageTypes)
           /\ Len(Types(s)) = Len(s)
           /\ \A i \in 1 .. Len(s) : Types(s)[i] = s[i].type
  <1>1. Len(s) \in Nat /\ DOMAIN s = 1 .. Len(s) /\ s \in [1 .. Len(s) -> WireFrame]
    BY LenProperties
  <1>2. \A i \in 1 .. Len(s) : s[i].type \in MessageTypes
    BY <1>1 DEF WireFrame
  <1>3. Types(s) \in [1 .. Len(s) -> MessageTypes]
    BY <1>1, <1>2 DEF Types
  <1>4. Types(s) \in Seq(MessageTypes)
    BY <1>1, <1>3, SeqDef
  <1>5. Len(Types(s)) \in Nat /\ 1 .. Len(Types(s)) = 1 .. Len(s)
    BY <1>1, <1>4, LenProperties DEF Types
  <1>6. Len(Types(s)) = Len(s)
    BY <1>1, <1>5
  <1> QED BY <1>1, <1>4, <1>6 DEF Types

\* A session that talks has accepted a legal conversation without a CLOSE.
LEMMA TalkIsLegal ==
    ASSUME NEW t \in Seq(MessageTypes), NEW p \in TalkPhases, Talk(t, Len(t), p)
    PROVE  \/ IsPrefix(t, Opening)
           \/ /\ IsPrefix(Append(Opening, "OpenOk"), t)
              /\ \A i \in DOMAIN SubSeq(t, 4, Len(t)) : SubSeq(t, 4, Len(t))[i] = "UsbIpData"
  <1> DEFINE ok == <<"Capability", "Open", "OpenOk">>
  <1>1. /\ Opening \in Seq(MessageTypes) /\ Len(Opening) = 2
        /\ Opening[1] = "Capability" /\ Opening[2] = "Open"
    BY DEF Opening, MessageTypes
  <1>2. Len(t) \in Nat /\ \A i \in 1 .. Len(t) : t[i] \in MessageTypes
    BY LenProperties, ElementOfSeq
  <1>3. CASE Len(t) <= 2
    <2>1. \A i \in 1 .. Len(t) : t[i] = Opening[i]
      BY <1>1, <1>2, <1>3 DEF Talk, TalkPhases
    <2>2. /\ SubSeq(t, 1, Len(t)) \in Seq(MessageTypes)
          /\ Len(SubSeq(t, 1, Len(t))) = Len(t)
          /\ \A i \in 1 .. Len(t) : SubSeq(t, 1, Len(t))[i] = t[i]
      BY <1>2, PrefixFacts
    <2>3. Len(t) \in 0 .. Len(Opening)
      BY <1>1, <1>2, <1>3 DEF Opening
    <2>4. /\ SubSeq(Opening, 1, Len(t)) \in Seq(MessageTypes)
          /\ Len(SubSeq(Opening, 1, Len(t))) = Len(t)
          /\ \A i \in 1 .. Len(t) : SubSeq(Opening, 1, Len(t))[i] = Opening[i]
      BY <1>1, <2>3, PrefixFacts
    <2>5. SubSeq(t, 1, Len(t)) = SubSeq(Opening, 1, Len(t))
      BY <1>2, <2>1, <2>2, <2>4, SeqEqual
    <2> QED BY <1>1, <1>3, <2>5 DEF IsPrefix
  <1>4. CASE Len(t) > 2
    <2>1. /\ t[1] = "Capability" /\ t[2] = "Open" /\ t[3] = "OpenOk"
          /\ \A i \in 4 .. Len(t) : t[i] = "UsbIpData"
      BY <1>2, <1>4 DEF Talk, TalkPhases
    <2>2. /\ Append(Opening, "OpenOk") = ok /\ ok \in Seq(MessageTypes) /\ Len(ok) = 3
          /\ \A u \in Seq(MessageTypes) :
                Len(u) = 3 /\ u[1] = "Capability" /\ u[2] = "Open" /\ u[3] = "OpenOk"
                => u = ok
      <3>1. {"Capability", "Open", "OpenOk"} \subseteq MessageTypes
        BY DEF MessageTypes
      <3> QED BY <3>1, TripleFacts DEF Opening
    <2>3. SubSeq(ok, 1, 3) = ok
      BY <2>2, SubSeqFull
    <2>4. /\ SubSeq(t, 1, 3) \in Seq(MessageTypes)
          /\ Len(SubSeq(t, 1, 3)) = 3
          /\ \A i \in 1 .. 3 : SubSeq(t, 1, 3)[i] = t[i]
      BY <1>2, <1>4, PrefixFacts
    <2>5. SubSeq(t, 1, 3) = ok
      <3>1. SubSeq(t, 1, 3)[1] = t[1] /\ SubSeq(t, 1, 3)[2] = t[2] /\ SubSeq(t, 1, 3)[3] = t[3]
        BY <2>4
      <3> QED BY <2>1, <2>2, <2>4, <3>1
    <2>6. IsPrefix(Append(Opening, "OpenOk"), t)
      <3>1. IsPrefix(ok, t)
        <4>1. Len(ok) = 3 /\ SubSeq(ok, 1, 3) = SubSeq(t, 1, 3)
          BY <2>2, <2>3, <2>5
        <4> HIDE DEF ok
        <4> QED BY <1>2, <1>4, <4>1 DEF IsPrefix
      <3> HIDE DEF ok
      <3> QED BY <2>2, <3>1
    <2>7. ASSUME NEW i \in DOMAIN SubSeq(t, 4, Len(t))
          PROVE  SubSeq(t, 4, Len(t))[i] = "UsbIpData"
      <3>1. \A k \in 4 .. Len(t) : t[k] \in MessageTypes
        BY <1>2
      <3>2. /\ SubSeq(t, 4, Len(t)) \in Seq(MessageTypes)
            /\ Len(SubSeq(t, 4, Len(t))) = IF 4 <= Len(t) THEN Len(t) - 4 + 1 ELSE 0
            /\ \A k \in 1 .. Len(t) - 4 + 1 : SubSeq(t, 4, Len(t))[k] = t[4 + k - 1]
        BY <1>2, <3>1, SubSeqProperties
      <3>3. i \in 1 .. Len(t) - 4 + 1
        BY <1>2, <3>2, LenProperties
      <3>4. 4 + i - 1 \in 4 .. Len(t)
        BY <1>2, <3>3
      <3> QED BY <2>1, <3>2, <3>3, <3>4
    <2> QED BY <2>6, <2>7
  <1> QED BY <1>2, <1>3, <1>4

\* A conversation that is in a phase is legal.
LEMMA ConversationIsLegal ==
    ASSUME NEW t \in Seq(MessageTypes), NEW phase \in TalkPhases \cup {"Closed"},
           Conversation(t, phase)
    PROVE  Legal(t)
  <1>1. Len(t) \in Nat /\ (t = <<>> <=> Len(t) = 0)
    BY LenProperties, EmptySeq
  <1>2. CASE Talk(t, Len(t), phase)
    <2>1. phase \in TalkPhases
      BY <1>2 DEF Talk, TalkPhases
    <2>2. ~(t # <<>> /\ Last(t) = "Close")
      BY <1>1, <1>2 DEF Talk, Last
    <2> QED BY <1>2, <2>1, <2>2, TalkIsLegal DEF Legal
  <1>3. CASE RejectedTalk(t)
    <2>1. ~(t # <<>> /\ Last(t) = "Close")
      BY <1>3 DEF RejectedTalk, Last
    <2>2. {"Capability", "Open", "OpenReject"} \subseteq MessageTypes
      BY DEF MessageTypes
    <2>3. t = Append(Opening, "OpenReject")
      BY <1>3, <2>2, TripleFacts DEF RejectedTalk, Opening
    <2> QED BY <2>1, <2>3 DEF Legal
  <1>4. CASE ClosedTalk(t)
    <2> DEFINE talk == Front(t)
    <2>1. t # <<>> /\ Last(t) = "Close" /\ Len(t) - 1 \in Nat
      BY <1>1, <1>4 DEF ClosedTalk, Last
    <2>2. Len(t) - 1 \in 0 .. Len(t)
      BY <1>1, <2>1
    <2>3. /\ talk \in Seq(MessageTypes) /\ Len(talk) = Len(t) - 1
          /\ \A i \in 1 .. Len(t) - 1 : talk[i] = t[i]
      BY <2>2, PrefixFacts DEF Front
    <2>4. PICK p \in TalkPhases : Talk(t, Len(t) - 1, p)
      BY <1>4 DEF ClosedTalk
    <2>5. Talk(talk, Len(talk), p)
      BY <2>1, <2>3, <2>4 DEF Talk
    <2> QED BY <2>1, <2>3, <2>5, TalkIsLegal DEF Legal
  <1> QED BY <1>2, <1>3, <1>4 DEF Conversation

\* Accepting a type takes the conversation to the phase that follows.
LEMMA ConversationStep ==
    ASSUME NEW t \in Seq(MessageTypes), NEW u \in Seq(MessageTypes),
           NEW type \in MessageTypes, NEW phase \in TalkPhases \cup {"Closed"},
           Conversation(t, phase), PhaseAfter(phase, type) # "Failed",
           Len(u) = Len(t) + 1, u[Len(t) + 1] = type,
           \A i \in 1 .. Len(t) : u[i] = t[i]
    PROVE  /\ PhaseAfter(phase, type) \in TalkPhases \cup {"Closed"}
           /\ Conversation(u, PhaseAfter(phase, type))
  <1>1. Len(t) \in Nat
    BY LenProperties
  <1>2. phase \in TalkPhases /\ Talk(t, Len(t), phase)
    BY DEF Conversation, Talk, TalkPhases, PhaseAfter
  <1>3. CASE type = "Close"
    <2>1. PhaseAfter(phase, type) = "Closed"
      BY <1>2, <1>3 DEF PhaseAfter, TalkPhases
    <2>2. Talk(u, Len(u) - 1, phase)
      BY <1>1, <1>2 DEF Talk
    <2> QED BY <1>1, <1>2, <1>3, <2>1, <2>2 DEF Conversation, ClosedTalk
  <1>4. CASE phase = "AwaitOpenReply" /\ type = "OpenReject"
    <2>1. PhaseAfter(phase, type) = "Closed"
      BY <1>4 DEF PhaseAfter
    <2>2. Len(t) = 2 /\ t[1] = "Capability" /\ t[2] = "Open"
      BY <1>2, <1>4 DEF Talk
    <2>3. Len(u) = 3 /\ u[1] = "Capability" /\ u[2] = "Open" /\ u[3] = "OpenReject"
      BY <1>4, <2>2
    <2> QED BY <2>1, <2>3 DEF Conversation, RejectedTalk
  <1>5. CASE type # "Close" /\ ~(phase = "AwaitOpenReply" /\ type = "OpenReject")
    <2>1. Talk(u, Len(u), PhaseAfter(phase, type))
      BY <1>1, <1>2, <1>5 DEF PhaseAfter, Talk, TalkPhases
    <2>2. PhaseAfter(phase, type) \in TalkPhases
      BY <2>1 DEF Talk, TalkPhases
    <2> QED BY <2>1, <2>2 DEF Conversation
  <1> QED BY <1>3, <1>4, <1>5

\* A wire session starts before any frame,
LEMMA WireInitInv == WireInit => WireInv
  <1> SUFFICES ASSUME WireInit PROVE WireInv
    OBVIOUS
  <1>1. accepted = <<>> /\ <<>> \in Seq(WireFrame) /\ Len(<<>>) = 0
    BY EmptySeq DEF WireInit
  <1>2. Len(Types(accepted)) = 0
    BY <1>1, TypesFacts
  <1>3. Conversation(Types(accepted), "AwaitCapability")
    BY <1>2 DEF Conversation, Talk
  <1> QED BY <1>1, <1>3, LenProperties DEF WireInit, WireInv, TalkPhases

\* an accepted frame takes the conversation to its next phase,
LEMMA AcceptWireFrameInv ==
    ASSUME WireInv, NEW f \in WireFrame, CanAccept(f), AcceptWireFrame(f)
    PROVE  WireInv'
  <1> DEFINE t == Types(accepted)
             u == Types(accepted')
             n == Len(accepted)
  <1>1. /\ accepted' = Append(accepted, f) /\ wireRx' = wireRx + 1
        /\ wirePhase' = PhaseAfter(wirePhase, f.type)
        /\ f.sound /\ f.seq = n + 1 /\ f.type \in MessageTypes
    BY DEF AcceptWireFrame, CanAccept, WireInv, WireFrame
  <1>2. /\ accepted' \in Seq(WireFrame) /\ Len(accepted') = n + 1 /\ n \in Nat
        /\ \A i \in 1 .. n : accepted'[i] = accepted[i]
        /\ accepted'[n + 1] = f
        /\ DOMAIN accepted = 1 .. n /\ DOMAIN accepted' = 1 .. n + 1
    BY <1>1, AppendProperties, LenProperties DEF WireInv
  <1>3. /\ t \in Seq(MessageTypes) /\ u \in Seq(MessageTypes)
        /\ Len(t) = n /\ Len(u) = n + 1 /\ u[n + 1] = f.type
        /\ \A i \in 1 .. n : u[i] = t[i]
    <2>1. /\ t \in Seq(MessageTypes) /\ Len(t) = n
          /\ \A i \in 1 .. n : t[i] = accepted[i].type
      BY TypesFacts DEF WireInv
    <2>2. /\ u \in Seq(MessageTypes) /\ Len(u) = n + 1
          /\ \A i \in 1 .. n + 1 : u[i] = accepted'[i].type
      BY <1>2, TypesFacts
    <2> HIDE DEF t, u
    <2> QED BY <1>2, <2>1, <2>2
  <1>4. PICK phase \in TalkPhases \cup {"Closed"} :
            Conversation(t, phase) /\ wirePhase \in {phase, "Failed"}
    BY DEF WireInv
  <1>5. wirePhase = phase /\ PhaseAfter(phase, f.type) # "Failed"
    BY <1>4 DEF CanAccept, PhaseAfter
  <1>6. /\ PhaseAfter(phase, f.type) \in TalkPhases \cup {"Closed"}
        /\ Conversation(u, PhaseAfter(phase, f.type))
    <2> HIDE DEF t, u
    <2> QED BY <1>1, <1>3, <1>4, <1>5, ConversationStep
  <1>7. \A i \in DOMAIN accepted' : accepted'[i].seq = i /\ accepted'[i].sound
    BY <1>1, <1>2 DEF WireInv
  <1>8. wireRx' = Len(accepted') + 1
    BY <1>1, <1>2 DEF WireInv
  <1>9. Types(accepted') = Types(accepted)'
    BY DEF Types
  <1> QED BY <1>1, <1>2, <1>5, <1>6, <1>7, <1>8, <1>9 DEF WireInv

\* a step elsewhere changes nothing,
LEMMA WireUnchanged == WireInv /\ UNCHANGED wireVars => WireInv'
  <1> SUFFICES ASSUME WireInv, UNCHANGED wireVars PROVE WireInv'
    OBVIOUS
  <1>1. Types(accepted)' = Types(accepted)
    BY DEF wireVars, Types
  <1> QED BY <1>1 DEF WireInv, wireVars

\* and so every step preserves the invariant,
LEMMA WireStepInv == WireInv /\ WireNext => WireInv'
  <1> SUFFICES ASSUME WireInv, WireNext PROVE WireInv'
    OBVIOUS
  <1> USE DEF WireInv
  <1>1. CASE NextHeader
    <2>1. Types(accepted)' = Types(accepted)
      BY <1>1 DEF NextHeader, Types
    <2> QED BY <1>1, <2>1 DEF NextHeader
  <1>2. ASSUME NEW f \in WireFrame, AcceptWireFrame(f), ~CanAccept(f) PROVE WireInv'
    <2>1. UNCHANGED <<wireRx, accepted>> /\ wirePhase' = "Failed"
      BY <1>2 DEF AcceptWireFrame
    <2>2. Types(accepted)' = Types(accepted)
      BY <2>1 DEF Types
    <2> QED BY <2>1, <2>2
  <1> HIDE DEF WireInv
  <1> QED BY <1>1, <1>2, AcceptWireFrameInv DEF WireNext

\* which says that the frames accepted are a legal conversation.
LEMMA WireInvImplies == WireInv => AcceptedIsLegal
  <1> SUFFICES ASSUME WireInv PROVE AcceptedIsLegal
    OBVIOUS
  <1>1. Types(accepted) \in Seq(MessageTypes)
    BY TypesFacts DEF WireInv
  <1>2. Legal(Types(accepted))
    BY <1>1, ConversationIsLegal DEF WireInv
  <1> QED BY <1>2 DEF AcceptedIsLegal, WireInv, Types

-----------------------------------------------------------------------------
(* The server session.  While a reply is pending, the last entry of the    *)
(* dialogue is the request it will answer.                                 *)

Entries == {"DeviceList", "ImportOffered", "DeviceListReply", "ImportGranted", "ImportDenied"}

ServerInv ==
    /\ dialogue \in Seq(Entries)
    /\ RepliesTakeTurns
    /\ serverState = "DeviceListReplyPending" => Last(dialogue) = "DeviceList"
    /\ serverState = "ImportReplyPending" => Last(dialogue) = "ImportOffered"
    /\ serverState = "Imported" => dialogue # <<>> /\ Last(dialogue) = "ImportGranted"
    /\ \A i \in DOMAIN dialogue : dialogue[i] = "ImportGranted" =>
          i = Len(dialogue) /\ serverState \in {"Imported", "Closed", "Failed"}

\* A server session starts with an empty dialogue.
LEMMA ServerInitInv == ServerInit => ServerInv
  <1> SUFFICES ASSUME ServerInit PROVE ServerInv
    OBVIOUS
  <1>1. /\ dialogue = <<>> /\ <<>> \in Seq(Entries) /\ Len(<<>>) = 0
        /\ DOMAIN dialogue = 1 .. 0 /\ serverState = "New"
    BY EmptySeq, LenProperties DEF ServerInit
  <1> QED BY <1>1 DEF ServerInv, RepliesTakeTurns

\* What saying one more thing, in its turn, keeps of the dialogue.
LEMMA SaysFacts ==
    ASSUME NEW entry \in Entries, dialogue \in Seq(Entries), Says(entry)
    PROVE  /\ dialogue' \in Seq(Entries) /\ dialogue' # <<>>
           /\ Len(dialogue) \in Nat /\ Len(dialogue') = Len(dialogue) + 1
           /\ Last(dialogue') = entry /\ dialogue'[Len(dialogue) + 1] = entry
           /\ DOMAIN dialogue = 1 .. Len(dialogue)
           /\ DOMAIN dialogue' = 1 .. Len(dialogue) + 1
           /\ \A i \in 1 .. Len(dialogue) : dialogue'[i] = dialogue[i]
  BY AppendProperties, LenProperties DEF Says, Last

InTurn(d, i) == IF i % 2 = 1 THEN IsRequest(d[i]) ELSE Answers(d[i], d[i - 1])

\* A dialogue stays in turn when its new entry is in turn.
LEMMA SaysInTurn ==
    ASSUME NEW entry \in Entries, dialogue \in Seq(Entries), Says(entry),
           \A i \in DOMAIN dialogue : InTurn(dialogue, i),
           InTurn(dialogue', Len(dialogue) + 1)
    PROVE  \A i \in DOMAIN dialogue' : InTurn(dialogue', i)
  <1>1. TAKE i \in DOMAIN dialogue'
  <1>2. CASE i = Len(dialogue) + 1
    BY <1>2
  <1>3. CASE i # Len(dialogue) + 1
    <2>1. i \in 1 .. Len(dialogue) /\ dialogue'[i] = dialogue[i] /\ InTurn(dialogue, i)
      BY <1>3, SaysFacts
    <2>2. i % 2 # 1 => i - 1 \in 1 .. Len(dialogue)
      BY <2>1, SaysFacts
    <2>3. i % 2 # 1 => dialogue'[i - 1] = dialogue[i - 1]
      BY <2>2, SaysFacts
    <2> QED BY <2>1, <2>3 DEF InTurn
  <1> QED BY <1>2, <1>3

\* A request is taken only when the server owes no reply,
LEMMA RequestInv ==
    ASSUME ServerInv, NEW request \in Requests, AcceptRequest(request)
    PROVE  ServerInv'
  <1>1. CASE ~Accepts(request)
    BY <1>1 DEF AcceptRequest, ServerInv, RepliesTakeTurns, Last
  <1>2. CASE Accepts(request)
    <2>1. /\ request \in {"DeviceList", "ImportOffered"} /\ request \in Entries
          /\ serverState \in {"New", "Ready"} /\ Says(request)
          /\ serverState' = IF request = "DeviceList"
                            THEN "DeviceListReplyPending" ELSE "ImportReplyPending"
      BY <1>2 DEF Accepts, AcceptRequest, Entries
    <2>2. Len(dialogue) \in Nat /\ Len(dialogue) % 2 # 1
      BY <2>1, SaysFacts DEF ServerInv, RepliesTakeTurns
    <2>3. (Len(dialogue) + 1) % 2 = 1
      BY <2>2
    <2>4. \A i \in DOMAIN dialogue' : InTurn(dialogue', i)
      <3>1. InTurn(dialogue', Len(dialogue) + 1)
        BY <2>1, <2>3, SaysFacts DEF InTurn, IsRequest, ServerInv
      <3> QED BY <2>1, <3>1, SaysInTurn DEF ServerInv, RepliesTakeTurns, InTurn
    <2>5. RepliesTakeTurns'
      BY <2>1, <2>3, <2>4, SaysFacts DEF ServerInv, RepliesTakeTurns, InTurn
    <2> QED BY <2>1, <2>5, SaysFacts DEF ServerInv
  <1> QED BY <1>1, <1>2

\* An answer to the pending request takes its turn.
LEMMA AnswerInTurn ==
    ASSUME ServerInv, NEW entry \in Entries, Says(entry),
           serverState \in {"DeviceListReplyPending", "ImportReplyPending"},
           Answers(entry, Last(dialogue)),
           serverState' \in {"Ready", "Imported"}
    PROVE  dialogue' \in Seq(Entries) /\ RepliesTakeTurns'
  <1>1. Len(dialogue) \in Nat /\ Len(dialogue) % 2 = 1
    BY SaysFacts DEF ServerInv, RepliesTakeTurns
  <1>2. (Len(dialogue) + 1) % 2 # 1 /\ Len(dialogue) \in 1 .. Len(dialogue)
    BY <1>1
  <1>3. InTurn(dialogue', Len(dialogue) + 1)
    <2>1. /\ dialogue'[Len(dialogue) + 1] = entry
          /\ dialogue'[Len(dialogue)] = Last(dialogue)
      BY <1>2, SaysFacts DEF ServerInv, Last
    <2>2. Len(dialogue) + 1 - 1 = Len(dialogue)
      BY <1>1
    <2> QED BY <1>2, <2>1, <2>2 DEF InTurn
  <1>4. \A i \in DOMAIN dialogue' : InTurn(dialogue', i)
    BY <1>3, SaysInTurn DEF ServerInv, RepliesTakeTurns, InTurn
  <1> QED BY <1>2, <1>4, SaysFacts DEF ServerInv, RepliesTakeTurns, InTurn

\* a reply is given only when it owes that one,
LEMMA CompleteInv ==
    ASSUME ServerInv,
           \/ \E failed \in BOOLEAN, count \in 0 .. 1 : CompleteDeviceList(failed, count)
           \/ \E failed \in BOOLEAN, device \in Devices : CompleteImport(failed, device)
    PROVE  ServerInv'
  <1>1. ASSUME serverState = "DeviceListReplyPending", serverState' = "Ready",
               Says("DeviceListReply")
        PROVE  ServerInv'
    <2>1. "DeviceListReply" \in Entries /\ Answers("DeviceListReply", Last(dialogue))
      BY <1>1 DEF ServerInv, Answers, Entries
    <2> QED BY <1>1, <2>1, AnswerInTurn, SaysFacts DEF ServerInv
  <1>2. ASSUME serverState = "ImportReplyPending", serverState' = "Ready",
               Says("ImportDenied")
        PROVE  ServerInv'
    <2>1. "ImportDenied" \in Entries /\ Answers("ImportDenied", Last(dialogue))
      BY <1>2 DEF ServerInv, Answers, Entries
    <2> QED BY <1>2, <2>1, AnswerInTurn, SaysFacts DEF ServerInv
  <1>3. ASSUME serverState = "ImportReplyPending", serverState' = "Imported",
               Says("ImportGranted")
        PROVE  ServerInv'
    <2>1. "ImportGranted" \in Entries /\ Answers("ImportGranted", Last(dialogue))
      BY <1>3 DEF ServerInv, Answers, Entries
    <2> QED BY <1>3, <2>1, AnswerInTurn, SaysFacts DEF ServerInv
  <1>4. ASSUME serverState' = "Failed", serverState = "ImportReplyPending",
               UNCHANGED dialogue
        PROVE  ServerInv'
    BY <1>4 DEF ServerInv, RepliesTakeTurns, Last
  <1> QED BY <1>1, <1>2, <1>3, <1>4 DEF CompleteDeviceList, CompleteImport

\* and so every step preserves the invariant,
LEMMA ServerStepInv == ServerInv /\ (ServerNext \/ UNCHANGED serverVars) => ServerInv'
  <1>1. ServerInv /\ CloseServer => ServerInv'
    BY DEF CloseServer, ServerInv, RepliesTakeTurns, Last
  <1>2. ServerInv /\ UNCHANGED serverVars => ServerInv'
    BY DEF serverVars, ServerInv, RepliesTakeTurns, Last
  <1> QED BY <1>1, <1>2, RequestInv, CompleteInv DEF ServerNext

\* which says that replies take turns and data follow a granted import.
LEMMA ServerInvImplies == ServerInv => RepliesTakeTurns /\ DataFollowsGrantedImport
  <1> SUFFICES ASSUME ServerInv PROVE DataFollowsGrantedImport
    BY DEF ServerInv
  <1>1. dialogue # <<>> => Len(dialogue) \in DOMAIN dialogue
    BY EmptySeq, LenProperties DEF ServerInv
  <1> QED BY <1>1 DEF ServerInv, DataFollowsGrantedImport, AcceptsData, Last

-----------------------------------------------------------------------------
(* The URB codec.  What it encodes and decodes says nothing of an earlier  *)
(* state: the properties are facts about the operators.                    *)

\* Decoding what Request::encode() wrote gives the request back,
LEMMA EncodedIsDecoded ==
    ASSUME NEW r \in UrbSubmit \cup UrbUnlink, EncodesRequest(r)
    PROVE  /\ DecodesRequest(EncodeRequest(r))
           /\ DecodeRequest(EncodeRequest(r)) = r
  <1> USE DEF EncodesRequest, DecodesRequest, EncodeRequest, DecodeRequest, ValidCommon,
              Carries, NonIsoPackets, InDirection, OutDirection
  <1>1. CASE r \in UrbSubmit
    <2>1. DecodesRequest(EncodeRequest(r))
      BY <1>1, UrbAssumption DEF UrbSubmit, DecodesSubmit
    <2>2. DecodeRequest(EncodeRequest(r)) = r
      BY <1>1 DEF UrbSubmit
    <2> QED BY <2>1, <2>2
  <1>2. CASE r \in UrbUnlink
    <2>1. DecodesRequest(EncodeRequest(r))
      BY <1>2, UrbAssumption DEF UrbUnlink, DecodesUnlink
    <2>2. DecodeRequest(EncodeRequest(r)) = r
      BY <1>2 DEF UrbUnlink
    <2> QED BY <2>1, <2>2
  <1> QED BY <1>1, <1>2

\* encoding a decoded request gives its meaningful fields back,
LEMMA DecodedIsEncoded ==
    ASSUME NEW w \in WireUrb, DecodesRequest(w)
    PROVE  LET again == EncodeRequest(DecodeRequest(w))
           IN  /\ EncodesRequest(DecodeRequest(w))
               /\ w.command = 2 => again = w
               /\ \A field \in DOMAIN w \ {"packets", "zeros", "target"} :
                     again[field] = w[field]
  <1> DEFINE again == EncodeRequest(DecodeRequest(w))
  <1> USE DEF EncodesRequest, DecodesRequest, EncodeRequest, DecodeRequest, ValidCommon,
              Carries, NonIsoPackets, InDirection, OutDirection, DecodesSubmit, DecodesUnlink
  <1>1. CASE w.command = 1
    <2>1. EncodesRequest(DecodeRequest(w))
      BY <1>1
    <2>2. \A field \in {"command", "seq", "direction", "endpoint", "length", "data"} :
             again[field] = w[field]
      BY <1>1
    <2>3. DOMAIN w \ {"packets", "zeros", "target"}
            = {"command", "seq", "direction", "endpoint", "length", "data"}
      BY DEF WireUrb
    <2> QED BY <1>1, <2>1, <2>2, <2>3
  <1>2. CASE w.command = 2
    <2>1. EncodesRequest(DecodeRequest(w))
      BY <1>2
    <2>2. again = w
      BY <1>2 DEF WireUrb
    <2> QED BY <2>1, <2>2
  <1> QED BY <1>1, <1>2

\* and a reply comes back but for the direction of an empty one.
LEMMA EncodedReplyIsDecoded ==
    ASSUME NEW r \in UrbSubmitReply \cup UrbUnlinkReply, EncodesReply(r)
    PROVE  LET back == DecodeReply(EncodeReply(r))
           IN  /\ DecodesReply(EncodeReply(r))
               /\ DOMAIN back = DOMAIN r
               /\ \A field \in DOMAIN r :
                     back[field] = IF field = "direction" /\ r.length = 0
                                   THEN InDirection ELSE r[field]
  <1> DEFINE back == DecodeReply(EncodeReply(r))
  <1> USE DEF EncodesReply, DecodesReply, EncodeReply, DecodeReply, Carries,
              NonIsoPackets, InDirection, OutDirection, InferDirection
  <1>1. CASE r \in UrbSubmitReply
    <2>1. DecodesReply(EncodeReply(r))
      BY <1>1, UrbAssumption DEF UrbSubmitReply
    <2>2. DOMAIN r = {"command", "seq", "direction", "length", "data"}
            /\ DOMAIN back = DOMAIN r
      BY <1>1 DEF UrbSubmitReply
    <2>3. /\ back.command = r.command /\ back.seq = r.seq
          /\ back.length = r.length /\ back.data = r.data
      BY <1>1 DEF UrbSubmitReply
    <2>4. back.direction = IF r.length = 0 THEN InDirection ELSE r.direction
      BY <1>1, UrbAssumption DEF UrbSubmitReply
    <2> HIDE DEF back
    <2>5. \A field \in {"command", "seq", "direction", "length", "data"} :
             back[field] = IF field = "direction" /\ r.length = 0
                           THEN InDirection ELSE r[field]
      BY <2>3, <2>4
    <2> QED BY <2>1, <2>2, <2>5 DEF back
  <1>2. CASE r \in UrbUnlinkReply
    <2>1. DecodesReply(EncodeReply(r))
      BY <1>2 DEF UrbUnlinkReply
    <2>2. back = r /\ DOMAIN r = {"command", "seq"}
      BY <1>2 DEF UrbUnlinkReply
    <2> QED BY <2>1, <2>2
  <1> QED BY <1>1, <1>2

\* So requests and replies keep their meaning.
LEMMA CodecIsFaithful == RequestsMeanTheSame /\ RepliesKeepTheirMeaning
  <1>1. RequestsMeanTheSame
    BY EncodedIsDecoded, DecodedIsEncoded DEF RequestsMeanTheSame
  <1>2. RepliesKeepTheirMeaning
    BY EncodedReplyIsDecoded DEF RepliesKeepTheirMeaning
  <1> QED BY <1>1, <1>2

-----------------------------------------------------------------------------
(* The events of the C ABI.  An event's number is its place among those    *)
(* the engine made, so the order of what was handed over is the order of   *)
(* its numbers; what is queued is the rest of what was made.               *)

Event == [kind : Kinds, number : Nat \ {0}]
Gone == Len(produced) - Len(queue)

QueueIsTheRest ==
    /\ produced \in Seq(Event) /\ queue \in Seq(Event)
    /\ \A i \in 1 .. Len(produced) : produced[i].number = i
    /\ Len(queue) <= Len(produced)
    /\ \A i \in 1 .. Len(queue) : queue[i] = produced[Gone + i]

HandedInOrder ==
    /\ handed \in Seq(Event)
    /\ \A i, j \in 1 .. Len(handed) : i < j => handed[i].number < handed[j].number
    /\ \A i \in 1 .. Len(handed) :
          \E k \in 1 .. Gone : handed[i] = produced[k] /\ Converts(produced[k])
    /\ \A k \in 1 .. Gone :
          Converts(produced[k]) => \E i \in 1 .. Len(handed) : handed[i] = produced[k]

PortInv == QueueIsTheRest /\ HandedInOrder /\ DataBelongsToEvent

\* A port starts with an empty queue.
LEMMA PortInitInv == PortInit => PortInv
  <1> SUFFICES ASSUME PortInit PROVE PortInv
    OBVIOUS
  <1>1. <<>> \in Seq(Event) /\ Len(<<>>) = 0
    BY EmptySeq
  <1>2. produced = <<>> /\ queue = <<>> /\ handed = <<>> /\ fresh = FALSE
    BY DEF PortInit
  <1>3. QueueIsTheRest /\ HandedInOrder
    BY <1>1, <1>2 DEF QueueIsTheRest, HandedInOrder, Gone
  <1> QED BY <1>2, <1>3 DEF PortInv, DataBelongsToEvent

\* A call of the engine puts one event at the end of both sequences.
LEMMA EngineCallInv ==
    ASSUME PortInv, NEW kind \in Kinds, EngineCall(kind)
    PROVE  PortInv'
  <1> DEFINE n == Len(produced)
             q == Len(queue)
             e == [kind |-> kind, number |-> n + 1]
  <1>1. /\ produced \in Seq(Event) /\ queue \in Seq(Event)
        /\ n \in Nat /\ q \in Nat /\ q <= n
    BY LenProperties DEF PortInv, QueueIsTheRest
  <1>2. e \in Event /\ e.number = n + 1
    BY <1>1 DEF Event
  <1>3. produced' = Append(produced, e) /\ queue' = Append(queue, e)
    BY DEF EngineCall
  <1> HIDE DEF e
  <1>4. /\ produced' \in Seq(Event) /\ Len(produced') = n + 1
        /\ \A i \in 1 .. n : produced'[i] = produced[i]
        /\ produced'[n + 1] = e
        /\ queue' \in Seq(Event) /\ Len(queue') = q + 1
        /\ \A i \in 1 .. q : queue'[i] = queue[i]
        /\ queue'[q + 1] = e
    BY <1>1, <1>2, <1>3, AppendProperties
  <1>5. Gone \in Nat /\ Gone' = Gone /\ Gone + q = n
    BY <1>1, <1>4 DEF Gone
  <1>6. QueueIsTheRest'
    <2>1. ASSUME NEW i \in 1 .. n + 1 PROVE produced'[i].number = i
      BY <1>1, <1>2, <1>4 DEF PortInv, QueueIsTheRest
    <2>2. ASSUME NEW i \in 1 .. q + 1 PROVE queue'[i] = produced'[Gone + i]
      <3>1. CASE i = q + 1
        BY <1>4, <1>5, <3>1
      <3>2. CASE i # q + 1
        <4>1. i \in 1 .. q /\ Gone + i \in 1 .. n
          BY <1>1, <1>5, <3>2
        <4> QED BY <1>4, <4>1 DEF PortInv, QueueIsTheRest
      <3> QED BY <3>1, <3>2
    <2> QED BY <1>1, <1>4, <1>5, <2>1, <2>2 DEF QueueIsTheRest
  <1>7. HandedInOrder'
    <2>1. \A k \in 1 .. Gone : produced'[k] = produced[k]
      BY <1>1, <1>4, <1>5
    <2>2. handed' = handed
      BY DEF EngineCall
    <2> QED BY <1>5, <2>1, <2>2 DEF PortInv, HandedInOrder
  <1>8. DataBelongsToEvent'
    BY DEF EngineCall, PortInv, DataBelongsToEvent, Last
  <1> QED BY <1>6, <1>7, <1>8 DEF PortInv

\* A call that finds an event takes the first one that is left.
LEMMA TakeEventInv ==
    ASSUME PortInv, NextEventCall(TRUE), queue # <<>>
    PROVE  PortInv'
  <1> DEFINE n == Len(produced)
             q == Len(queue)
             e == Head(queue)
             h == Len(handed)
  <1>1. /\ produced \in Seq(Event) /\ queue \in Seq(Event) /\ handed \in Seq(Event)
        /\ n \in Nat /\ q \in Nat /\ q <= n /\ q > 0 /\ h \in Nat
    BY LenProperties, EmptySeq DEF PortInv, QueueIsTheRest, HandedInOrder
  <1>2. /\ e \in Event /\ e = queue[1]
        /\ queue' \in Seq(Event) /\ Len(queue') = q - 1
        /\ \A i \in 1 .. q - 1 : queue'[i] = queue[i + 1]
    BY <1>1, HeadTailProperties DEF NextEventCall
  <1>3. Taken = e /\ Taken # NoEvent
    BY <1>2 DEF Taken, Event, NoEvent, Kinds
  <1>4. Gone \in Nat /\ Gone' = Gone + 1 /\ Gone + q = n /\ produced' = produced
    BY <1>1, <1>2 DEF Gone, NextEventCall
  <1>5. e = produced[Gone + 1] /\ Gone + 1 \in 1 .. n /\ e.number = Gone + 1
    BY <1>1, <1>2, <1>4 DEF PortInv, QueueIsTheRest
  <1>6. QueueIsTheRest'
    <2>1. ASSUME NEW i \in 1 .. q - 1 PROVE queue'[i] = produced'[Gone' + i]
      <3>1. i + 1 \in 1 .. q /\ Gone' + i = Gone + (i + 1)
        BY <1>1, <1>4
      <3> QED BY <1>2, <1>4, <3>1 DEF PortInv, QueueIsTheRest
    <2>2. \A i \in 1 .. Len(queue') : queue'[i] = produced'[Gone' + i]
      BY <1>2, <2>1
    <2>3. /\ produced' \in Seq(Event) /\ Len(queue') <= Len(produced')
          /\ \A i \in 1 .. Len(produced') : produced'[i].number = i
      BY <1>1, <1>2, <1>4 DEF PortInv, QueueIsTheRest
    <2> QED BY <1>2, <2>2, <2>3 DEF QueueIsTheRest
  <1> HIDE DEF e
  <1>7. CASE Converts(e)
    <2>1. /\ handed' = Append(handed, e) /\ fresh'
          /\ out' = [event |-> e, data |-> DataOf(e)]
          /\ currentEvent' = e /\ scratch' = Encoded(e)
      BY <1>3, <1>7 DEF NextEventCall
    <2>2. /\ handed' \in Seq(Event) /\ Len(handed') = h + 1 /\ handed' # <<>>
          /\ \A i \in 1 .. h : handed'[i] = handed[i]
          /\ handed'[h + 1] = e
      BY <1>1, <1>2, <2>1, AppendProperties
    <2>3. ASSUME NEW i \in 1 .. h PROVE handed[i].number < e.number
      <3>1. PICK k \in 1 .. Gone : handed[i] = produced[k]
        BY DEF PortInv, HandedInOrder
      <3>2. k \in 1 .. n /\ k < Gone + 1
        BY <1>1, <1>4, <3>1
      <3> QED BY <1>5, <3>1, <3>2 DEF PortInv, QueueIsTheRest
    <2>4. ASSUME NEW i \in 1 .. h + 1, NEW j \in 1 .. h + 1, i < j
          PROVE  handed'[i].number < handed'[j].number
      <3>1. CASE j = h + 1
        <4>1. i \in 1 .. h
          BY <1>1, <2>4, <3>1
        <4> QED BY <2>2, <2>3, <3>1, <4>1
      <3>2. CASE j # h + 1
        <4>1. i \in 1 .. h /\ j \in 1 .. h
          BY <1>1, <2>4, <3>2
        <4> QED BY <2>2, <2>4, <4>1 DEF PortInv, HandedInOrder
      <3> QED BY <3>1, <3>2
    <2>5. ASSUME NEW i \in 1 .. h + 1
          PROVE  \E k \in 1 .. Gone + 1 : handed'[i] = produced[k] /\ Converts(produced[k])
      <3>1. CASE i = h + 1
        BY <1>4, <1>5, <1>7, <2>2, <3>1
      <3>2. CASE i # h + 1
        <4>1. i \in 1 .. h /\ handed'[i] = handed[i]
          BY <1>1, <2>2, <3>2
        <4>2. PICK k \in 1 .. Gone : handed[i] = produced[k] /\ Converts(produced[k])
          BY <4>1 DEF PortInv, HandedInOrder
        <4>3. k \in 1 .. Gone + 1
          BY <1>4
        <4> QED BY <4>1, <4>2, <4>3
      <3> QED BY <3>1, <3>2
    <2>6. ASSUME NEW k \in 1 .. Gone + 1, Converts(produced[k])
          PROVE  \E i \in 1 .. h + 1 : handed'[i] = produced[k]
      <3>1. CASE k = Gone + 1
        BY <1>1, <1>5, <2>2, <3>1
      <3>2. CASE k # Gone + 1
        <4>1. PICK i \in 1 .. h : handed[i] = produced[k]
          BY <1>4, <2>6, <3>2 DEF PortInv, HandedInOrder
        <4> QED BY <1>1, <2>2, <4>1
      <3> QED BY <3>1, <3>2
    <2>7. HandedInOrder'
      BY <1>4, <2>2, <2>4, <2>5, <2>6 DEF HandedInOrder, Converts
    <2>8. DataBelongsToEvent'
      BY <1>1, <2>1, <2>2 DEF DataBelongsToEvent, Last, DataOf, Encoded
    <2> QED BY <1>6, <2>7, <2>8 DEF PortInv
  <1>8. CASE ~Converts(e)
    <2>1. handed' = handed /\ ~fresh'
      BY <1>3, <1>8 DEF NextEventCall
    <2>2. \A k \in 1 .. Gone + 1 : Converts(produced[k]) => k \in 1 .. Gone
      BY <1>4, <1>5, <1>8
    <2>3. 1 .. Gone \subseteq 1 .. Gone + 1
      BY <1>4
    <2>4. HandedInOrder'
      BY <1>4, <2>1, <2>2, <2>3 DEF PortInv, HandedInOrder, Converts
    <2> QED BY <1>6, <2>1, <2>4 DEF PortInv, DataBelongsToEvent
  <1> QED BY <1>7, <1>8

\* Every call of the port preserves the invariant,
LEMMA PortStepInv == PortInv /\ (PortNext \/ UNCHANGED portVars) => PortInv'
  <1> SUFFICES ASSUME PortInv, PortNext \/ UNCHANGED portVars PROVE PortInv'
    OBVIOUS
  <1>1. CASE UNCHANGED portVars
    BY <1>1 DEF portVars, PortInv, QueueIsTheRest, HandedInOrder, DataBelongsToEvent,
                Gone, Converts, Last
  <1>2. ASSUME NEW writable \in BOOLEAN, NextEventCall(writable), queue = <<>>
        PROVE  PortInv'
    <2>1. /\ queue' = queue /\ produced' = produced /\ handed' = handed
          /\ out' = [event |-> NoEvent, data |-> DataOf(NoEvent)]
      BY <1>2 DEF NextEventCall, Taken, Converts, NoEvent
    <2>2. DataBelongsToEvent'
      BY <2>1 DEF DataBelongsToEvent, DataOf, NoEvent
    <2> QED BY <2>1, <2>2 DEF PortInv, QueueIsTheRest, HandedInOrder, Gone, Converts
  <1>3. ASSUME NEW writable \in BOOLEAN, NextEventCall(writable), queue # <<>>
        PROVE  PortInv'
    <2>1. NextEventCall(TRUE)
      BY <1>3 DEF NextEventCall
    <2> QED BY <1>3, <2>1, TakeEventInv
  <1> QED BY <1>1, <1>2, <1>3, EngineCallInv DEF PortNext

\* which says what is lost and whose data is copied.
LEMMA PortInvImplies == PortInv => OnlyRejectionsAreLost /\ DataBelongsToEvent
  <1> SUFFICES ASSUME PortInv PROVE OnlyRejectionsAreLost
    BY DEF PortInv
  <1>1. /\ Len(produced) \in Nat /\ Len(queue) \in Nat /\ Len(queue) <= Len(produced)
        /\ Gone \in Nat /\ Gone + Len(queue) = Len(produced)
        /\ DOMAIN handed = 1 .. Len(handed)
    BY LenProperties DEF PortInv, QueueIsTheRest, HandedInOrder, Gone
  <1>2. queue = SubSeq(produced, Gone + 1, Len(produced))
    <2> DEFINE rest == SubSeq(produced, Gone + 1, Len(produced))
    <2>1. \A i \in Gone + 1 .. Len(produced) : produced[i] \in Event
      BY <1>1, ElementOfSeq DEF PortInv, QueueIsTheRest
    <2>2. /\ rest \in Seq(Event)
          /\ Len(rest) = IF Gone + 1 <= Len(produced)
                         THEN Len(produced) - (Gone + 1) + 1 ELSE 0
          /\ \A i \in 1 .. Len(produced) - (Gone + 1) + 1 :
                rest[i] = produced[Gone + 1 + i - 1]
      BY <1>1, <2>1, SubSeqProperties
    <2> HIDE DEF rest
    <2>3. Len(rest) = Len(queue)
      BY <1>1, <2>2
    <2>4. \A i \in 1 .. Len(queue) : queue[i] = rest[i]
      BY <1>1, <2>2 DEF PortInv, QueueIsTheRest
    <2>5. queue = rest
      BY <2>2, <2>3, <2>4, SeqEqual DEF PortInv, QueueIsTheRest
    <2> QED BY <2>5 DEF rest
  <1>3. Range(handed) = {produced[i] : i \in {k \in 1 .. Gone : Converts(produced[k])}}
    BY <1>1 DEF Range, PortInv, HandedInOrder
  <1> QED BY <1>1, <1>2, <1>3 DEF OnlyRejectionsAreLost, Gone, PortInv, HandedInOrder

-----------------------------------------------------------------------------
(* The parts together: a step of one leaves the others alone.              *)

PassiveInv == WireInv /\ ServerInv /\ PortInv

\* The parts of the passive model keep their invariants together, whichever moves.
THEOREM PassiveInvariant == PassiveSpec => []PassiveInv
  <1>1. PassiveInit => PassiveInv
    BY WireInitInv, ServerInitInv, PortInitInv DEF PassiveInit, PassiveInv
  <1>2. PassiveInv /\ [PassiveNext]_<<wireVars, serverVars, urb, portVars>> => PassiveInv'
    BY WireStepInv, WireUnchanged, ServerStepInv, PortStepInv DEF PassiveInv, PassiveNext
  <1> QED BY <1>1, <1>2, PTL DEF PassiveSpec

\* WireSession::accept() admits nothing but a legal conversation, in consecutive
\* numbers, and nothing after what ends it.
THEOREM WireAcceptsLegal == PassiveSpec => []AcceptedIsLegal
  <1>1. PassiveInv => AcceptedIsLegal
    BY WireInvImplies DEF PassiveInv
  <1> QED BY <1>1, PassiveInvariant, PTL

\* ServerSession answers every request before the next, each with a reply of its
\* kind.
THEOREM ServerTakesTurns == PassiveSpec => []RepliesTakeTurns
  <1>1. PassiveInv => RepliesTakeTurns
    BY ServerInvImplies DEF PassiveInv
  <1> QED BY <1>1, PassiveInvariant, PTL

\* ServerSession lets URB data pass only once an import was granted, and says
\* nothing more after granting it.
THEOREM ServerGrantsFirst == PassiveSpec => []DataFollowsGrantedImport
  <1>1. PassiveInv => DataFollowsGrantedImport
    BY ServerInvImplies DEF PassiveInv
  <1> QED BY <1>1, PassiveInvariant, PTL

\* A request survives the codec of pdu.rs both ways, for every range of its
\* fields.
THEOREM CodecKeepsRequests == PassiveSpec => []RequestsMeanTheSame
  BY CodecIsFaithful, PTL

\* A reply survives the codec but for the direction of one that moved nothing.
THEOREM CodecKeepsReplies == PassiveSpec => []RepliesKeepTheirMeaning
  BY CodecIsFaithful, PTL

\* rusb_session_next_event() hands over every event once and in order, but for
\* the rejections it cannot express.
THEOREM PortLosesOnlyRejections == PassiveSpec => []OnlyRejectionsAreLost
  <1>1. PassiveInv => OnlyRejectionsAreLost
    BY PortInvImplies DEF PassiveInv
  <1> QED BY <1>1, PassiveInvariant, PTL

\* The data pointer of the caller's structure belongs to its event until the
\* next call.
THEOREM PortDataIsTheEvents == PassiveSpec => []DataBelongsToEvent
  <1>1. PassiveInv => DataBelongsToEvent
    BY PortInvImplies DEF PassiveInv
  <1> QED BY <1>1, PassiveInvariant, PTL
=============================================================================
