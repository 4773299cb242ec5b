------------------------- MODULE TransportAccounts --------------------------
(***************************************************************************)
(* What the session engine keeps count of, as predicates of an output side *)
(* (see Transport and TransportOutput): the credit of the PDUs that await  *)
(* an acknowledgement, and the answers of the admitted requests; and which *)
(* requests the steps of the executor make due an answer.                  *)
(***************************************************************************)
EXTENDS TransportOutput

-----------------------------------------------------------------------------
(* Credit.                                                                 *)

\* The bytes of the PDUs in a table of reservations.
BytesOf(res) == UNION {{id} \X (1 .. res[id]) : id \in DOMAIN res}

\* The broker's counters are those of the reservations.
Credit(o) ==
    /\ IsFiniteSet(DOMAIN o.reservations) /\ IsFiniteSet(BytesOf(o.reservations))
    /\ o.pdus = Cardinality(DOMAIN o.reservations)
    /\ o.bytes = Cardinality(BytesOf(o.reservations))

\* They are within the window and the limit agreed with the peer.
WithinWindow(o) ==
    /\ o.bytes <= TxWindowBytes
    /\ o.pdus <= Broker!Least(TxWindowPdus, negotiatedMaxInflight)

\* A PDU has as many bytes as its size says.
LEMMA PduBytes ==
    ASSUME NEW id, NEW size \in Nat
    PROVE  IsFiniteSet({id} \X (1 .. size)) /\ Cardinality({id} \X (1 .. size)) = size
  <1>. DEFINE f == [n \in 1 .. size |-> <<id, n>>]
  <1>1. f \in Bijection(1 .. size, {id} \X (1 .. size))
    <2>1. f \in [1 .. size -> {id} \X (1 .. size)]
      OBVIOUS
    <2>2. \A a, b \in 1 .. size : f[a] = f[b] => a = b
      OBVIOUS
    <2>3. \A pair \in {id} \X (1 .. size) : \E n \in 1 .. size : f[n] = pair
      OBVIOUS
    <2>. QED
      BY <2>1, <2>2, <2>3 DEF Bijection, Injection, Surjection, IsInjective
  <1>2. ExistsBijection(1 .. size, {id} \X (1 .. size))
    BY <1>1 DEF ExistsBijection
  <1>3. IsFiniteSet(1 .. size) /\ Cardinality(1 .. size) = size
    BY FS_Interval
  <1>. QED
    BY <1>2, <1>3, FS_Bijection

\* One reservation more is that PDU and its bytes more.
LEMMA OneReservation ==
    ASSUME NEW rest, NEW res, NEW id \in DOMAIN res, res[id] \in Nat,
           DOMAIN rest = DOMAIN res \ {id},
           \A k \in DOMAIN rest : rest[k] = res[k],
           IsFiniteSet(DOMAIN rest), IsFiniteSet(BytesOf(rest))
    PROVE  /\ IsFiniteSet(DOMAIN res) /\ IsFiniteSet(BytesOf(res))
           /\ Cardinality(DOMAIN res) = Cardinality(DOMAIN rest) + 1
           /\ Cardinality(BytesOf(res)) = Cardinality(BytesOf(rest)) + res[id]
           /\ Cardinality(DOMAIN rest) \in Nat /\ Cardinality(BytesOf(rest)) \in Nat
  <1>. DEFINE own == {id} \X (1 .. res[id])
  <1>1. IsFiniteSet(own) /\ Cardinality(own) = res[id]
    BY PduBytes
  <1>2. DOMAIN res = DOMAIN rest \cup {id} /\ id \notin DOMAIN rest
    OBVIOUS
  <1>3. BytesOf(res) = BytesOf(rest) \cup own
    <2>1. ASSUME NEW byte \in BytesOf(res)
          PROVE  byte \in BytesOf(rest) \cup own
      <3>1. PICK k \in DOMAIN res : byte \in {k} \X (1 .. res[k])
        BY DEF BytesOf
      <3>. QED
        BY <3>1 DEF BytesOf
    <2>2. ASSUME NEW byte \in BytesOf(rest)
          PROVE  byte \in BytesOf(res)
      <3>1. PICK k \in DOMAIN rest : byte \in {k} \X (1 .. rest[k])
        BY DEF BytesOf
      <3>. QED
        BY <3>1 DEF BytesOf
    <2>3. own \subseteq BytesOf(res)
      BY DEF BytesOf
    <2>. QED
      BY <2>1, <2>2, <2>3
  <1>4. BytesOf(rest) \cap own = {}
    <2>1. \A byte \in BytesOf(rest) : byte[1] \in DOMAIN rest
      BY DEF BytesOf
    <2>2. \A byte \in own : byte[1] = id
      OBVIOUS
    <2>. QED
      BY <1>2, <2>1, <2>2
  <1>. HIDE DEF own
  <1>5. IsFiniteSet(BytesOf(res))
        /\ Cardinality(BytesOf(res)) = Cardinality(BytesOf(rest)) + res[id]
    <2>1. Cardinality(BytesOf(rest)) \in Nat
      BY FS_CardinalityType
    <2>2. Cardinality(BytesOf(rest) \cap own) = 0
      BY <1>4, FS_EmptySet
    <2>3. IsFiniteSet(BytesOf(rest) \cup own)
          /\ Cardinality(BytesOf(rest) \cup own) =
               Cardinality(BytesOf(rest)) + Cardinality(own) - Cardinality(BytesOf(rest) \cap own)
      BY <1>1, FS_Union
    <2>. QED
      BY <1>1, <1>3, <2>1, <2>2, <2>3
  <1>6. IsFiniteSet(DOMAIN res) /\ Cardinality(DOMAIN res) = Cardinality(DOMAIN rest) + 1
    BY <1>2, FS_AddElement
  <1>7. Cardinality(DOMAIN rest) \in Nat /\ Cardinality(BytesOf(rest)) \in Nat
    BY FS_CardinalityType
  <1>. QED
    BY <1>5, <1>6, <1>7

\* A PDU that may be sent is reserved and counted.
LEMMA SentKeepsCredit ==
    ASSUME Broker!BrokerTypeOK,
           NEW o \in Outputs, NEW id \in Nat, NEW size \in Nat,
           SendResult(id, size, o) = "Ok", Credit(o)
    PROVE  Credit(Sent(o, id, size)) /\ WithinWindow(Sent(o, id, size))
  <1>. DEFINE res == o.reservations
              after == Executor!Insert(res, id, size)
  <1>1. /\ id \notin DOMAIN res /\ size \in 1 .. MaxReassembly
        /\ o.bytes + size <= TxWindowBytes /\ o.pdus + 1 <= TxWindowPdus
        /\ o.pdus + 1 <= negotiatedMaxInflight
    BY SendOk
  <1>2. /\ Sent(o, id, size).bytes = o.bytes + size
        /\ Sent(o, id, size).pdus = o.pdus + 1
        /\ Sent(o, id, size).reservations = after
    BY <1>1, SentFacts
  <1>3. /\ DOMAIN after = DOMAIN res \cup {id} /\ after[id] = size
        /\ \A k \in DOMAIN res \ {id} : after[k] = res[k]
    <2>1. res \in Reservations
      BY FieldsOfOutput
    <2>. HIDE DEF res
    <2>. QED
      BY <1>1, <2>1, InsertReservation
  <1>. HIDE DEF after
  <1>4. DOMAIN res = DOMAIN after \ {id} /\ \A k \in DOMAIN res : res[k] = after[k]
    BY <1>1, <1>3
  <1>5. /\ IsFiniteSet(DOMAIN after) /\ IsFiniteSet(BytesOf(after))
        /\ Cardinality(DOMAIN after) = Cardinality(DOMAIN res) + 1
        /\ Cardinality(BytesOf(after)) = Cardinality(BytesOf(res)) + size
    <2>1. IsFiniteSet(DOMAIN res) /\ IsFiniteSet(BytesOf(res))
      BY DEF Credit
    <2>2. after[id] \in Nat /\ id \in DOMAIN after
      BY <1>3
    <2>. HIDE DEF res
    <2>3. /\ IsFiniteSet(DOMAIN after) /\ IsFiniteSet(BytesOf(after))
          /\ Cardinality(DOMAIN after) = Cardinality(DOMAIN res) + 1
          /\ Cardinality(BytesOf(after)) = Cardinality(BytesOf(res)) + after[id]
      BY <1>4, <2>1, <2>2, OneReservation
    <2>. QED
      BY <1>3, <2>3
  <1>6. Credit(Sent(o, id, size))
    BY <1>2, <1>5 DEF Credit
  <1>7. WithinWindow(Sent(o, id, size))
    BY <1>1, <1>2 DEF WithinWindow, Broker!Least
  <1>. QED
    BY <1>6, <1>7

\* A reservation that goes takes its credit with it, and the broker had it.
LEMMA RemoveKeepsCredit ==
    ASSUME NEW o \in Outputs, Credit(o), NEW id \in DOMAIN o.reservations
    PROVE  LET rest == Executor!Remove(o.reservations, {id})
               size == o.reservations[id]
           IN  /\ rest \in Reservations /\ DOMAIN rest = DOMAIN o.reservations \ {id}
               /\ size \in 1 .. MaxReassembly
               /\ IsFiniteSet(DOMAIN rest) /\ IsFiniteSet(BytesOf(rest))
               /\ size <= o.bytes /\ o.pdus >= 1
               /\ o.pdus - 1 = Cardinality(DOMAIN rest)
               /\ o.bytes - size = Cardinality(BytesOf(rest))
               /\ o.bytes - size \in Nat /\ o.pdus - 1 \in Nat
  <1>. DEFINE res == o.reservations
              rest == Executor!Remove(res, {id})
  <1>1. /\ res \in Reservations /\ DOMAIN res \subseteq Nat
        /\ \A k \in DOMAIN res : res[k] \in 1 .. MaxReassembly
    BY FieldsOfOutput, ReservationFacts
  <1>2. DOMAIN rest = DOMAIN res \ {id} /\ \A k \in DOMAIN rest : rest[k] = res[k]
    BY DEF Executor!Remove, Executor!Restrict
  <1>3. rest \in Reservations
    <2>1. rest \in [DOMAIN res \ {id} -> 1 .. MaxReassembly]
      BY <1>1 DEF Executor!Remove, Executor!Restrict
    <2>2. DOMAIN res \ {id} \in SUBSET Nat
      BY <1>1
    <2>. QED
      BY <2>1, <2>2, ReservationFacts
  <1>. HIDE DEF rest
  <1>4. IsFiniteSet(DOMAIN rest)
    BY <1>2, FS_Subset DEF Credit
  <1>5. IsFiniteSet(BytesOf(rest))
    <2>1. BytesOf(rest) \subseteq BytesOf(res)
      BY <1>2 DEF BytesOf
    <2>. QED
      BY <2>1, FS_Subset DEF Credit
  <1>6. res[id] \in Nat /\ res[id] >= 1
    <2>1. MaxReassembly \in Nat
      BY ConfigAssumption
    <2>. QED
      BY <1>1, <2>1
  <1>7. /\ Cardinality(DOMAIN res) = Cardinality(DOMAIN rest) + 1
        /\ Cardinality(BytesOf(res)) = Cardinality(BytesOf(rest)) + res[id]
        /\ Cardinality(DOMAIN rest) \in Nat /\ Cardinality(BytesOf(rest)) \in Nat
    BY <1>2, <1>4, <1>5, <1>6, OneReservation
  <1>8. o.pdus = Cardinality(DOMAIN res) /\ o.bytes = Cardinality(BytesOf(res))
    BY DEF Credit
  <1>9. /\ res[id] <= o.bytes /\ o.pdus >= 1
        /\ o.pdus - 1 = Cardinality(DOMAIN rest)
        /\ o.bytes - res[id] = Cardinality(BytesOf(rest))
    BY <1>6, <1>7, <1>8
  <1>. QED
    BY <1>1, <1>2, <1>3, <1>4, <1>5, <1>7, <1>9 DEF rest

-----------------------------------------------------------------------------
(* Answers.                                                                *)

\* A RET_SUBMIT of a token at a place of a queue of replies.
Answer(replies, i, t) == replies[i].kind = "RetSubmit" /\ replies[i].token = t
AnswersAt(replies, t) == {i \in DOMAIN replies : Answer(replies, i, t)}

\* The tokens that are due an answer, and no others, have one: it waits at one
\* place, or was turned into frames once.
Answered(o, due) ==
    \A t \in Tokens :
        /\ o.framed[t] \in {0, 1}
        /\ \A i, j \in AnswersAt(o.replies, t) : i = j
        /\ o.framed[t] = 1 => AnswersAt(o.replies, t) = {}
        /\ t \in due <=> o.framed[t] = 1 \/ AnswersAt(o.replies, t) # {}

\* As a count.
LEMMA AnsweredCount ==
    ASSUME NEW o \in Outputs, NEW due, Answered(o, due), NEW t \in Tokens
    PROVE  o.framed[t] + Cardinality(AnswersAt(o.replies, t)) = IF t \in due THEN 1 ELSE 0
  <1>. DEFINE held == AnswersAt(o.replies, t)
  <1>1. /\ o.framed[t] \in {0, 1} /\ \A i, j \in held : i = j
        /\ o.framed[t] = 1 => held = {}
        /\ t \in due <=> o.framed[t] = 1 \/ held # {}
    BY DEF Answered
  <1>. HIDE DEF held
  <1>2. CASE held = {}
    BY <1>1, <1>2, FS_EmptySet DEF held
  <1>3. CASE held # {}
    <2>1. \E i : held = {i}
      BY <1>1, <1>3
    <2>2. Cardinality(held) = 1
      BY <2>1, FS_Singleton
    <2>. QED
      BY <1>1, <1>3, <2>2 DEF held
  <1>. QED
    BY <1>2, <1>3

\* A reply that leaves the queue is counted as it leaves.
LEMMA FrontSentKeepsAnswers ==
    ASSUME NEW o \in Outputs, o.replies # <<>>, Head(o.replies).size <= MaxReassembly,
           NEW due, Answered(o, due)
    PROVE  Answered(FrontSent(o), due)
  <1>. DEFINE after == FrontSent(o)
              front == Head(o.replies)
              n == Len(o.replies)
  <1>1. /\ after \in Outputs /\ after.replies = Tail(o.replies)
        /\ after.framed =
             [t \in Tokens |-> o.framed[t] +
                (IF front.kind = "RetSubmit" /\ front.token = t THEN 1 ELSE 0)]
    BY FrontSentFacts
  <1>2. /\ n \in Nat \ {0} /\ DOMAIN o.replies = 1 .. n /\ front = o.replies[1]
        /\ DOMAIN after.replies = 1 .. n - 1
        /\ \A i \in 1 .. n - 1 : after.replies[i] = o.replies[i + 1]
    <2>1. o.replies \in Seq(Replies)
      BY FieldsOfOutput
    <2>2. n \in Nat /\ n # 0 /\ DOMAIN o.replies = 1 .. n
      BY <2>1, EmptySeq, LenProperties
    <2>3. /\ Tail(o.replies) \in Seq(Replies) /\ Len(Tail(o.replies)) = n - 1
          /\ \A i \in 1 .. n - 1 : Tail(o.replies)[i] = o.replies[i + 1]
      BY <2>1, HeadTailProperties
    <2>4. DOMAIN after.replies = 1 .. n - 1
      BY <1>1, <2>3, LenProperties
    <2>5. front = o.replies[1]
      BY <2>1, <2>2
    <2>. QED
      BY <1>1, <2>2, <2>3, <2>4, <2>5
  <1>. HIDE DEF after, front, n
  <1>3. ASSUME NEW t \in Tokens
        PROVE  /\ after.framed[t] \in {0, 1}
               /\ \A i, j \in AnswersAt(after.replies, t) : i = j
               /\ after.framed[t] = 1 => AnswersAt(after.replies, t) = {}
               /\ t \in due <=> after.framed[t] = 1 \/ AnswersAt(after.replies, t) # {}
    <2>. DEFINE held == AnswersAt(o.replies, t)
                left == AnswersAt(after.replies, t)
    <2>1. /\ o.framed[t] \in {0, 1} /\ \A i, j \in held : i = j
          /\ o.framed[t] = 1 => held = {}
          /\ t \in due <=> o.framed[t] = 1 \/ held # {}
      BY DEF Answered
    <2>2. \A i \in left : i \in Nat \ {0} /\ i + 1 \in held
      BY <1>2 DEF AnswersAt, Answer
    <2>3. \A i \in held : i \in Nat \ {0} /\ (i # 1 => i - 1 \in left)
      <3>1. ASSUME NEW i \in held
            PROVE  i \in Nat \ {0} /\ (i # 1 => i - 1 \in left)
        <4>1. i \in 1 .. n /\ Answer(o.replies, i, t)
          BY <1>2 DEF AnswersAt
        <4>2. ASSUME i # 1
              PROVE  i - 1 \in left
          <5>1. i - 1 \in 1 .. n - 1 /\ i - 1 + 1 = i
            BY <1>2, <4>1, <4>2
          <5>2. after.replies[i - 1] = o.replies[i]
            BY <1>2, <5>1
          <5>. QED
            BY <1>2, <4>1, <5>1, <5>2 DEF AnswersAt, Answer
        <4>. QED
          BY <4>1, <4>2
      <3>. QED
        BY <3>1
    <2>4. 1 \in held <=> front.kind = "RetSubmit" /\ front.token = t
      BY <1>2 DEF AnswersAt, Answer
    <2>5. after.framed[t] = o.framed[t] + (IF 1 \in held THEN 1 ELSE 0)
      BY <1>1, <2>4
    <2>. HIDE DEF held, left
    <2>6. CASE 1 \in held
      <3>1. o.framed[t] = 0 /\ after.framed[t] = 1
        BY <2>1, <2>5, <2>6
      <3>2. left = {}
        <4>1. ASSUME NEW i \in left PROVE FALSE
          BY <2>1, <2>2, <2>6
        <4>. QED
          BY <4>1
      <3>. QED
        BY <2>1, <2>6, <3>1, <3>2 DEF left
    <2>7. CASE 1 \notin held
      <3>1. after.framed[t] = o.framed[t]
        BY <2>1, <2>5, <2>7
      <3>2. left = {} <=> held = {}
        BY <2>2, <2>3, <2>7
      <3>3. \A i, j \in left : i = j
        <4>1. ASSUME NEW i \in left, NEW j \in left PROVE i = j
          <5>1. i + 1 = j + 1
            BY <2>1, <2>2
          <5>. QED
            BY <2>2, <5>1
        <4>. QED
          BY <4>1
      <3>. QED
        BY <2>1, <3>1, <3>2, <3>3 DEF left
    <2>. QED
      BY <2>6, <2>7
  <1>. QED
    BY <1>3 DEF Answered, after

\* Replies that join the queue answer the tokens they answer.
LEMMA EnqueueKeepsAnswers ==
    ASSUME NEW o \in Outputs, NEW replies \in Seq(UnsentReplies),
           NEW due, Answered(o, due), NEW fresh, fresh \cap due = {},
           \A t \in Tokens : t \in fresh <=> AnswersAt(replies, t) # {},
           \A t \in Tokens : \A i, j \in AnswersAt(replies, t) : i = j
    PROVE  Answered(Enqueue(o, replies), due \cup fresh)
  <1>. DEFINE after == Enqueue(o, replies)
              n == Len(o.replies)
              m == Len(replies)
  <1>1. /\ after \in Outputs /\ after.framed = o.framed /\ Len(after.replies) = n + m
        /\ \A i \in 1 .. n : after.replies[i] = o.replies[i]
    BY EnqueueFacts
  <1>2. \A i \in 1 .. m : /\ after.replies[n + i].kind = replies[i].kind
                           /\ after.replies[n + i].token = replies[i].token
    BY EnqueueFacts
  <1>3. /\ n \in Nat /\ m \in Nat
        /\ DOMAIN o.replies = 1 .. n /\ DOMAIN replies = 1 .. m
        /\ DOMAIN after.replies = 1 .. n + m
    <2>1. after.replies \in Seq(Replies) /\ o.replies \in Seq(Replies)
      BY <1>1, FieldsOfOutput
    <2>. QED
      BY <1>1, <2>1, LenProperties
  <1>. HIDE DEF after, n, m
  <1>4. ASSUME NEW t \in Tokens
        PROVE  /\ after.framed[t] \in {0, 1}
               /\ \A i, j \in AnswersAt(after.replies, t) : i = j
               /\ after.framed[t] = 1 => AnswersAt(after.replies, t) = {}
               /\ t \in due \cup fresh
                    <=> after.framed[t] = 1 \/ AnswersAt(after.replies, t) # {}
    <2>. DEFINE held == AnswersAt(o.replies, t)
                new == AnswersAt(replies, t)
                all == AnswersAt(after.replies, t)
    <2>1. /\ o.framed[t] \in {0, 1} /\ \A i, j \in held : i = j
          /\ o.framed[t] = 1 => held = {}
          /\ t \in due <=> o.framed[t] = 1 \/ held # {}
      BY DEF Answered
    <2>2. (t \in fresh <=> new # {}) /\ \A i, j \in new : i = j
      OBVIOUS
    <2>3. \A i \in held : i \in all
      BY <1>1, <1>3 DEF AnswersAt, Answer
    <2>4. \A i \in new : n + i \in all
      BY <1>2, <1>3 DEF AnswersAt, Answer
    <2>5. ASSUME NEW i \in all
          PROVE  i \in held \/ \E j \in new : i = n + j
      <3>1. i \in 1 .. n + m /\ Answer(after.replies, i, t)
        BY <1>3 DEF AnswersAt
      <3>2. CASE i <= n
        <4>1. i \in 1 .. n
          BY <1>3, <3>1, <3>2
        <4>. QED
          BY <1>1, <1>3, <3>1, <4>1 DEF AnswersAt, Answer
      <3>3. CASE i > n
        <4>1. i - n \in 1 .. m /\ i = n + (i - n)
          BY <1>3, <3>1, <3>3
        <4>2. i - n \in new
          BY <1>2, <1>3, <3>1, <4>1 DEF AnswersAt, Answer
        <4>. QED
          BY <4>1, <4>2
      <3>. QED
        BY <1>3, <3>1, <3>2, <3>3
    <2>. HIDE DEF held, new, all
    <2>6. \A i, j \in all : i = j
      <3>1. CASE new = {}
        BY <2>1, <2>5, <3>1
      <3>2. CASE new # {}
        <4>1. held = {}
          BY <2>1, <2>2, <3>2
        <4>. QED
          BY <2>2, <2>5, <4>1
      <3>. QED
        BY <3>1, <3>2
    <2>7. after.framed[t] = o.framed[t]
      BY <1>1
    <2>8. all = {} <=> held = {} /\ new = {}
      BY <2>3, <2>4, <2>5
    <2>9. after.framed[t] = 1 => all = {}
      BY <2>1, <2>2, <2>7, <2>8
    <2>10. t \in due \cup fresh <=> after.framed[t] = 1 \/ all # {}
      BY <2>1, <2>2, <2>7, <2>8
    <2>. QED
      BY <2>1, <2>6, <2>7, <2>9, <2>10 DEF all
  <1>. QED
    BY <1>4 DEF Answered, after

\* A concatenation holds the answers of its parts.
LEMMA AnswersOfConcat ==
    ASSUME NEW S, NEW front \in Seq(S), NEW back \in Seq(S), NEW t,
           \A i, j \in AnswersAt(front, t) : i = j,
           \A i, j \in AnswersAt(back, t) : i = j,
           AnswersAt(front, t) = {} \/ AnswersAt(back, t) = {}
    PROVE  /\ \A i, j \in AnswersAt(front \o back, t) : i = j
           /\ AnswersAt(front \o back, t) = {}
                <=> AnswersAt(front, t) = {} /\ AnswersAt(back, t) = {}
  <1>. DEFINE whole == front \o back
              n == Len(front)
              held == AnswersAt(front, t)
              new == AnswersAt(back, t)
              all == AnswersAt(whole, t)
  <1>1. /\ n \in Nat /\ Len(back) \in Nat
        /\ DOMAIN front = 1 .. n /\ DOMAIN back = 1 .. Len(back)
        /\ DOMAIN whole = 1 .. n + Len(back)
        /\ \A i \in 1 .. n : whole[i] = front[i]
        /\ \A i \in 1 .. Len(back) : whole[n + i] = back[i]
    BY ConcatParts
  <1>. HIDE DEF whole, n
  <1>2. \A i \in held : i \in all
    BY <1>1 DEF AnswersAt, Answer
  <1>3. \A i \in new : n + i \in all
    BY <1>1 DEF AnswersAt, Answer
  <1>4. ASSUME NEW i \in all
        PROVE  i \in held \/ \E j \in new : i = n + j
    <2>1. i \in 1 .. n + Len(back) /\ Answer(whole, i, t)
      BY <1>1 DEF AnswersAt
    <2>2. CASE i <= n
      <3>1. i \in 1 .. n
        BY <1>1, <2>1, <2>2
      <3>. QED
        BY <1>1, <2>1, <3>1 DEF AnswersAt, Answer
    <2>3. CASE i > n
      <3>1. i - n \in 1 .. Len(back) /\ i = n + (i - n)
        BY <1>1, <2>1, <2>3
      <3>2. i - n \in new
        BY <1>1, <2>1, <3>1 DEF AnswersAt, Answer
      <3>. QED
        BY <3>1, <3>2
    <2>. QED
      BY <1>1, <2>1, <2>2, <2>3
  <1>5. /\ \A i, j \in held : i = j
        /\ \A i, j \in new : i = j
        /\ held = {} \/ new = {}
    OBVIOUS
  <1>. HIDE DEF held, new, all
  <1>6. \A i, j \in all : i = j
    BY <1>4, <1>5
  <1>7. all = {} <=> held = {} /\ new = {}
    BY <1>2, <1>3, <1>4
  <1>. QED
    BY <1>6, <1>7 DEF held, new, all, whole

-----------------------------------------------------------------------------
(* All of it together, for the state of the broker.                        *)

\* An established broker counts what is reserved; any other counts nothing, and
\* before the handshake there is nothing to acknowledge.
Accounts(o) ==
    /\ brokerState = "Established" => Credit(o) /\ WithinWindow(o)
    /\ brokerState # "Established" => o.bytes = 0 /\ o.pdus = 0
    /\ brokerState \in {"New", "HelloSent"} => DOMAIN o.reservations = {}

Sound(o, due) ==
    o \in Outputs /\ Framing(o) /\ Accounts(o) /\ Answered(o, due)

\* Credit and answers are a matter of the fields they are read from.
LEMMA SameAccounts ==
    ASSUME NEW o, NEW p, p.bytes = o.bytes, p.pdus = o.pdus, p.reservations = o.reservations,
           Accounts(o)
    PROVE  Accounts(p)
  BY DEF Accounts, Credit, WithinWindow

\* Answers depend on the framed replies and on the waiting ones only.
LEMMA SameAnswers ==
    ASSUME NEW o, NEW p, NEW due, p.framed = o.framed, p.replies = o.replies, Answered(o, due)
    PROVE  Answered(p, due)
  BY DEF Answered, AnswersAt, Answer

\* Whether the front reply is blocked depends on the credit and the replies only.
LEMMA SameBlocked ==
    ASSUME NEW o, NEW p, p.bytes = o.bytes, p.pdus = o.pdus, p.reservations = o.reservations,
           p.replies = o.replies
    PROVE  Blocked(p) <=> Blocked(o)
  BY DEF Blocked, FrontResult, SendResult

\* Notices to the owner keep an output side sound,
LEMMA NotifySound ==
    ASSUME NEW o, NEW due, Sound(o, due), NEW notices \in Seq(Events), At(notices) = {}
    PROVE  /\ Sound(Notify(o, notices), due)
           /\ Blocked(Notify(o, notices)) <=> Blocked(o)
  <1>. DEFINE after == Notify(o, notices)
  <1>1. o \in Outputs /\ Framing(o) /\ Accounts(o) /\ Answered(o, due)
    BY DEF Sound
  <1>2. /\ after \in Outputs /\ after.bytes = o.bytes /\ after.pdus = o.pdus
        /\ after.reservations = o.reservations /\ after.replies = o.replies
        /\ after.framed = o.framed
    BY <1>1, NotifyFacts
  <1>3. Framing(after)
    BY <1>1, NotifyKeepsFraming
  <1>. HIDE DEF after
  <1>4. Accounts(after) /\ Answered(after, due)
    BY <1>1, <1>2, SameAccounts, SameAnswers
  <1>5. Blocked(after) <=> Blocked(o)
    BY <1>2, SameBlocked
  <1>6. Sound(after, due)
    BY <1>2, <1>3, <1>4 DEF Sound
  <1>. QED
    BY <1>5, <1>6 DEF after

\* and so do control frames
LEMMA ControlSound ==
    ASSUME NEW o, NEW due, Sound(o, due), NEW type \in FrameTypes
    PROVE  Sound(Control(o, type), due) /\ Control(o, type).replies = o.replies
  <1>. DEFINE after == Control(o, type)
  <1>1. o \in Outputs /\ Framing(o) /\ Accounts(o) /\ Answered(o, due)
    BY DEF Sound
  <1>2. /\ after \in Outputs /\ after.bytes = o.bytes /\ after.pdus = o.pdus
        /\ after.reservations = o.reservations /\ after.replies = o.replies
        /\ after.framed = o.framed
    BY <1>1, ControlFacts
  <1>3. Framing(after)
    BY <1>1, ControlKeepsFraming
  <1>. HIDE DEF after
  <1>4. Accounts(after) /\ Answered(after, due)
    BY <1>1, <1>2, SameAccounts, SameAnswers
  <1>5. Sound(after, due)
    BY <1>2, <1>3, <1>4 DEF Sound
  <1>. QED
    BY <1>2, <1>5 DEF after

\* What send_pdu() refuses it still refuses after it sent another PDU.
LEMMA SentStaysBlocked ==
    ASSUME Broker!BrokerTypeOK, NEW o \in Outputs, Blocked(o),
           NEW id \in Nat, NEW size \in 1 .. MaxReassembly
    PROVE  Blocked(Sent(o, id, size))
  <1>. DEFINE after == Sent(o, id, size)
              front == Head(o.replies)
  <1>1. /\ after \in Outputs /\ after.bytes = o.bytes + size /\ after.pdus = o.pdus + 1
        /\ after.reservations = Executor!Insert(o.reservations, id, size)
        /\ after.replies = o.replies
    BY SentFacts
  <1>2. DOMAIN after.reservations = DOMAIN o.reservations \cup {id}
    <2>1. o.reservations \in Reservations
      BY FieldsOfOutput
    <2>2. DOMAIN Executor!Insert(o.reservations, id, size) = DOMAIN o.reservations \cup {id}
      BY <2>1, InsertReservation
    <2>. HIDE DEF after
    <2>. QED
      BY <1>1, <2>2
  <1>. HIDE DEF after
  <1>. SUFFICES ASSUME o.replies # <<>>, FrontResult(after) = "Ok"
                PROVE  FrontResult(o) = "Ok"
    BY <1>1 DEF Blocked, after
  <1>3. front.id \in Nat /\ front.size \in Nat
    <2>1. o.replies \in Seq(Replies)
      BY FieldsOfOutput
    <2>2. front \in Replies
      BY <2>1, HeadTailProperties
    <2>. QED
      BY <2>2 DEF Replies
  <1>4. SendResult(front.id, front.size, after) = "Ok"
    BY <1>1 DEF FrontResult
  <1>. HIDE DEF front
  <1>5. /\ state = "Running" /\ brokerState = "Established"
        /\ front.id \notin DOMAIN after.reservations /\ front.size \in 1 .. MaxReassembly
        /\ after.bytes + front.size <= TxWindowBytes /\ after.pdus + 1 <= TxWindowPdus
        /\ front.size <= negotiatedMaxPdu /\ after.pdus + 1 <= negotiatedMaxInflight
        /\ CanFragment(front.size)
    BY <1>1, <1>3, <1>4, SendOk
  <1>6. /\ o.bytes \in Nat /\ o.pdus \in Nat /\ size \in Nat
        /\ negotiatedMaxPdu \in Nat /\ negotiatedMaxInflight \in Nat
    BY FieldsOfOutput DEF Broker!BrokerTypeOK
  <1>7. TxWindowBytes \in Nat /\ TxWindowPdus \in Nat
    BY ConfigAssumption
  <1>8. /\ ~ (front.size > negotiatedMaxPdu) /\ ~ (o.pdus >= negotiatedMaxInflight)
        /\ ~ (front.size > TxWindowBytes - o.bytes) /\ ~ (o.pdus >= TxWindowPdus)
        /\ front.size # 0
    BY <1>1, <1>3, <1>5, <1>6, <1>7
  <1>9. Broker!ReserveSendResult(front.size, o.bytes, o.pdus) = "Ok"
    BY <1>5, <1>8 DEF Broker!ReserveSendResult, Broker!ReserveResult, Broker!Exceeds
  <1>10. SendResult(front.id, front.size, o) = "Ok"
    BY <1>2, <1>5, <1>9 DEF SendResult
  <1>. QED
    BY <1>10 DEF FrontResult, front

\* and a PDU that the owner sends while the replies wait.
LEMMA SentSound ==
    ASSUME Broker!BrokerTypeOK, NEW o, NEW due, Sound(o, due), Blocked(o),
           NEW id \in OwnPduIds, NEW size \in Nat, SendResult(id, size, o) = "Ok"
    PROVE  Sound(Sent(o, id, size), due) /\ Blocked(Sent(o, id, size))
  <1>. DEFINE after == Sent(o, id, size)
  <1>1. o \in Outputs /\ Framing(o) /\ Accounts(o) /\ Answered(o, due)
    BY DEF Sound
  <1>2. id \in Nat
    BY ConfigAssumption
  <1>3. brokerState = "Established" /\ size \in 1 .. MaxReassembly
    BY <1>1, <1>2, SendOk
  <1>4. after \in Outputs /\ after.replies = o.replies /\ after.framed = o.framed
    BY <1>1, <1>2, <1>3, SentFacts
  <1>5. Framing(after)
    BY <1>1, <1>3, SentKeepsFraming
  <1>6. Credit(after) /\ WithinWindow(after)
    <2>1. Credit(o)
      BY <1>1, <1>3 DEF Accounts
    <2>. QED
      BY <1>1, <1>2, <2>1, SentKeepsCredit
  <1>7. Blocked(after)
    BY <1>1, <1>2, <1>3, SentStaysBlocked
  <1>. HIDE DEF after
  <1>8. Accounts(after)
    BY <1>3, <1>6 DEF Accounts
  <1>9. Answered(after, due)
    BY <1>1, <1>4, SameAnswers
  <1>10. Sound(after, due)
    BY <1>4, <1>5, <1>8, <1>9 DEF Sound
  <1>. QED
    BY <1>7, <1>10 DEF after

\* A turn of the loop that drains.
LEMMA TurnSound ==
    ASSUME Broker!BrokerTypeOK, NEW o, NEW due, Sound(o, due)
    PROVE  Sound(DrainTurn(o), due)
  <1>. DEFINE front == Head(o.replies)
              sent == Sent(o, front.id, front.size)
              after == FrontSent(o)
  <1>1. o \in Outputs /\ Framing(o) /\ Accounts(o) /\ Answered(o, due)
    BY DEF Sound
  <1>2. CASE o.replies = <<>> \/ FrontResult(o) # "Ok"
    BY <1>2 DEF DrainTurn
  <1>3. CASE o.replies # <<>> /\ FrontResult(o) = "Ok"
    <2>1. DrainTurn(o) = after
      BY <1>3 DEF DrainTurn
    <2>2. front.id \in Nat /\ front.size \in Nat
      <3>1. o.replies \in Seq(Replies)
        BY <1>1, FieldsOfOutput
      <3>2. front \in Replies
        BY <1>3, <3>1, HeadTailProperties
      <3>. QED
        BY <3>2 DEF Replies
    <2>3. SendResult(front.id, front.size, o) = "Ok"
      BY <1>3 DEF FrontResult
    <2>4. brokerState = "Established" /\ front.size \in 1 .. MaxReassembly
      BY <1>1, <2>2, <2>3, SendOk
    <2>5. front.size <= MaxReassembly
      <3>1. MaxReassembly \in Nat
        BY ConfigAssumption
      <3>. QED
        BY <2>4, <3>1
    <2>6. /\ after \in Outputs
          /\ after.bytes = sent.bytes /\ after.pdus = sent.pdus
          /\ after.reservations = sent.reservations
      BY <1>1, <1>3, <2>5, FrontSentFacts
    <2>7. Framing(after)
      BY <1>1, <1>3, <2>5, FrontSentKeepsFraming
    <2>8. Answered(after, due)
      BY <1>1, <1>3, <2>5, FrontSentKeepsAnswers
    <2>9. Credit(sent) /\ WithinWindow(sent)
      <3>1. Credit(o)
        BY <1>1, <2>4 DEF Accounts
      <3>. QED
        BY <1>1, <2>2, <2>3, <3>1, SentKeepsCredit
    <2>. HIDE DEF front, sent, after
    <2>10. Accounts(after)
      <3>1. Accounts(sent)
        BY <2>4, <2>9 DEF Accounts
      <3>. QED
        BY <2>6, <3>1, SameAccounts
    <2>11. Sound(after, due)
      BY <2>6, <2>7, <2>8, <2>10 DEF Sound
    <2>. QED
      BY <2>1, <2>11
  <1>. QED
    BY <1>2, <1>3

\* And the loop.
LEMMA DrainedSound ==
    ASSUME Broker!BrokerTypeOK, NEW o, NEW due, Sound(o, due)
    PROVE  Sound(Drained(o), due) /\ Blocked(Drained(o))
  <1>. DEFINE S == {p \in Outputs : Sound(p, due)}
  <1>1. o \in S
    BY DEF Sound
  <1>2. ASSUME NEW p \in S
        PROVE  DrainTurn(p) \in S
    <2>1. Sound(DrainTurn(p), due)
      BY <1>2, TurnSound
    <2>. QED
      BY <2>1 DEF Sound
  <1>. HIDE DEF S
  <1>3. S \in SUBSET Outputs
    BY DEF S
  <1>4. Drained(o) \in S /\ Blocked(Drained(o))
    BY <1>1, <1>2, <1>3, DrainLoop
  <1>. QED
    BY <1>4 DEF S

\* What handling the executor's events leaves behind.
LEMMA AfterExecutorSound ==
    ASSUME Broker!BrokerTypeOK, NEW o, NEW due, Sound(o, due),
           NEW notices \in Seq(Events), At(notices) = {},
           NEW replies \in Seq(UnsentReplies), NEW fresh, fresh \cap due = {},
           \A t \in Tokens : t \in fresh <=> AnswersAt(replies, t) # {},
           \A t \in Tokens : \A i, j \in AnswersAt(replies, t) : i = j
    PROVE  /\ Sound(AfterExecutor(o, notices, replies), due \cup fresh)
           /\ Blocked(AfterExecutor(o, notices, replies))
  <1>. DEFINE told == Notify(o, notices)
              queued == Enqueue(told, replies)
  <1>1. Sound(told, due)
    BY NotifySound
  <1>. HIDE DEF told
  <1>2. told \in Outputs /\ Framing(told) /\ Accounts(told) /\ Answered(told, due)
    BY <1>1 DEF Sound
  <1>3. /\ queued \in Outputs /\ queued.bytes = told.bytes /\ queued.pdus = told.pdus
        /\ queued.reservations = told.reservations
    BY <1>2, EnqueueFacts
  <1>4. Framing(queued)
    BY <1>2, EnqueueKeepsFraming
  <1>5. Answered(queued, due \cup fresh)
    BY <1>2, EnqueueKeepsAnswers
  <1>. HIDE DEF queued
  <1>6. Accounts(queued)
    BY <1>2, <1>3, SameAccounts
  <1>7. Sound(queued, due \cup fresh)
    BY <1>3, <1>4, <1>5, <1>6 DEF Sound
  <1>8. AfterExecutor(o, notices, replies) = Drained(queued)
    BY DEF AfterExecutor, queued, told
  <1>. QED
    BY <1>7, <1>8, DrainedSound

-----------------------------------------------------------------------------
(* The requests.                                                           *)

\* The tokens that are due an answer: admitted, and no longer live.
Due == {t \in Tokens : t < nextToken /\ t \notin LiveTokens}

\* The executor's indexes agree: a live token was issued and leads to its
\* request, and every request has its type.
Requests ==
    /\ nextToken \in 1 .. MaxToken
    /\ \A t \in LiveTokens :
          /\ t \in 1 .. nextToken - 1
          /\ sequenceByToken[t] \in DOMAIN pendingBySequence
          /\ pendingBySequence[sequenceByToken[t]].token = t
    /\ \A seq \in DOMAIN pendingBySequence : pendingBySequence[seq] \in Executor!Pending

\* A step that leaves the executor alone changes no request,
LEMMA RequestsKept ==
    ASSUME Requests, UNCHANGED executorVars
    PROVE  Requests' /\ Due' = Due
  BY DEF Requests, Due, executorVars, LiveTokens, Executor!LiveTokens

\* an admitted SUBMIT gets a token that is due nothing yet,
LEMMA SubmitRequests ==
    ASSUME Requests, NEW r \in Executor!SubmitRequest, Executor!AcceptSubmit(r)
    PROVE  Requests' /\ Due' = Due
  <1>. DEFINE request == [token |-> nextToken, dir |-> r.dir, len |-> r.len,
                          unlink |-> Executor!NoUnlink]
  <1>1. /\ nextToken \in Nat \ {0} /\ nextToken < MaxToken /\ MaxToken \in Nat
        /\ r.seq \notin DOMAIN pendingBySequence /\ nextToken' = nextToken + 1
    <2>1. MaxToken \in Nat
      BY ConfigAssumption
    <2>2. nextToken \in 1 .. MaxToken
      BY DEF Requests
    <2>. QED
      BY <2>1, <2>2 DEF Executor!AcceptSubmit, Executor!CanAdmit
  <1>2. /\ DOMAIN sequenceByToken' = LiveTokens \cup {nextToken}
        /\ sequenceByToken'[nextToken] = r.seq
        /\ \A t \in LiveTokens \ {nextToken} : sequenceByToken'[t] = sequenceByToken[t]
    BY DEF Executor!AcceptSubmit, Executor!Insert, LiveTokens, Executor!LiveTokens
  <1>3. /\ DOMAIN pendingBySequence' = DOMAIN pendingBySequence \cup {r.seq}
        /\ pendingBySequence'[r.seq] = request
        /\ \A seq \in DOMAIN pendingBySequence :
              pendingBySequence'[seq] = pendingBySequence[seq]
    BY <1>1 DEF Executor!AcceptSubmit, Executor!Insert
  <1>4. request \in Executor!Pending
    BY <1>1 DEF Executor!Pending, Executor!SubmitRequest, Executor!Tokens, Executor!NoUnlink
  <1>5. \A t \in LiveTokens : t \in Nat /\ t < nextToken
    BY <1>1 DEF Requests
  <1>6. LiveTokens' = LiveTokens \cup {nextToken}
    BY <1>2 DEF LiveTokens, Executor!LiveTokens
  <1>7. Requests'
    <2>1. nextToken' \in 1 .. MaxToken
      BY <1>1
    <2>2. ASSUME NEW t \in LiveTokens'
          PROVE  /\ t \in 1 .. nextToken' - 1
                 /\ sequenceByToken'[t] \in DOMAIN pendingBySequence'
                 /\ pendingBySequence'[sequenceByToken'[t]].token = t
      <3>1. CASE t = nextToken
        BY <1>1, <1>2, <1>3, <3>1
      <3>2. CASE t # nextToken
        <4>1. t \in LiveTokens
          BY <1>6, <3>2
        <4>2. t \in 1 .. nextToken - 1
          BY <4>1 DEF Requests
        <4>3. t \in 1 .. nextToken' - 1
          BY <1>1, <4>2
        <4>. QED
          BY <1>2, <1>3, <3>2, <4>1, <4>3 DEF Requests
      <3>. QED
        BY <3>1, <3>2
    <2>3. \A seq \in DOMAIN pendingBySequence' :
             pendingBySequence'[seq] \in Executor!Pending
      BY <1>3, <1>4 DEF Requests
    <2>. QED
      BY <2>1, <2>2, <2>3 DEF Requests
  <1>8. Due' = Due
    <2>1. \A t \in Tokens : t \in Nat
      BY <1>1 DEF Tokens, Executor!Tokens
    <2>. QED
      BY <1>1, <1>5, <1>6, <2>1 DEF Due
  <1>. QED
    BY <1>7, <1>8

\* an accepted UNLINK marks a request that stays live,
LEMMA UnlinkRequests ==
    ASSUME Requests, NEW unlink \in SeqNums, NEW target \in SeqNums,
           Executor!AcceptUnlink(unlink, target)
    PROVE  Requests' /\ Due' = Due /\ pendingBySequence[target].token \in Nat
  <1>1. /\ target \in DOMAIN pendingBySequence
        /\ pendingBySequence' = [pendingBySequence EXCEPT ![target].unlink = unlink]
        /\ UNCHANGED <<nextToken, sequenceByToken>>
    BY DEF Executor!AcceptUnlink, Executor!CanUnlink, Executor!IsPending
  <1>2. \A seq \in DOMAIN pendingBySequence : pendingBySequence[seq] \in Executor!Pending
    BY DEF Requests
  <1>3. DOMAIN pendingBySequence' = DOMAIN pendingBySequence
    BY <1>1
  <1>4. ASSUME NEW seq \in DOMAIN pendingBySequence
        PROVE  /\ pendingBySequence'[seq] \in Executor!Pending
               /\ pendingBySequence'[seq].token = pendingBySequence[seq].token
    <2>1. CASE seq = target
      <3>1. pendingBySequence'[seq] = [pendingBySequence[seq] EXCEPT !.unlink = unlink]
        BY <1>1, <2>1
      <3>. QED
        BY <1>2, <3>1 DEF Executor!Pending
    <2>2. CASE seq # target
      <3>1. pendingBySequence'[seq] = pendingBySequence[seq]
        BY <1>1, <2>2
      <3>. QED
        BY <1>2, <3>1
    <2>. QED
      BY <2>1, <2>2
  <1>5. LiveTokens' = LiveTokens /\ Due' = Due
    BY <1>1 DEF LiveTokens, Executor!LiveTokens, Due
  <1>6. Requests'
    <2>1. \A t \in LiveTokens' :
             /\ t \in 1 .. nextToken' - 1
             /\ sequenceByToken'[t] \in DOMAIN pendingBySequence'
             /\ pendingBySequence'[sequenceByToken'[t]].token = t
      BY <1>1, <1>3, <1>4, <1>5 DEF Requests
    <2>2. nextToken' \in 1 .. MaxToken
      BY <1>1 DEF Requests
    <2>. QED
      BY <1>3, <1>4, <2>1, <2>2 DEF Requests
  <1>7. pendingBySequence[target].token \in Nat
    <2>1. MaxToken \in Nat
      BY ConfigAssumption
    <2>2. pendingBySequence[target].token \in 1 .. MaxToken - 1
      BY <1>1, <1>2 DEF Executor!Pending, Executor!Tokens
    <2>. QED
      BY <2>1, <2>2
  <1>. QED
    BY <1>5, <1>6, <1>7

\* a retired request is due its answer from now on,
LEMMA RetireRequests ==
    ASSUME Requests, NEW t \in LiveTokens, Executor!Retire(t)
    PROVE  Requests' /\ Due' = Due \cup {t} /\ t \in Tokens /\ t \notin Due
  <1>1. /\ DOMAIN sequenceByToken' = LiveTokens \ {t}
        /\ \A u \in LiveTokens \ {t} : sequenceByToken'[u] = sequenceByToken[u]
        /\ nextToken' = nextToken
    BY DEF Executor!Retire, Executor!Remove, Executor!Restrict, LiveTokens, Executor!LiveTokens
  <1>2. /\ DOMAIN pendingBySequence' = DOMAIN pendingBySequence \ {sequenceByToken[t]}
        /\ \A seq \in DOMAIN pendingBySequence' :
              pendingBySequence'[seq] = pendingBySequence[seq]
    BY DEF Executor!Retire, Executor!Remove, Executor!Restrict
  <1>3. LiveTokens' = LiveTokens \ {t}
    BY <1>1 DEF LiveTokens, Executor!LiveTokens
  <1>4. t \in Tokens /\ t < nextToken
    <2>1. MaxToken \in Nat
      BY ConfigAssumption
    <2>2. nextToken \in 1 .. MaxToken /\ t \in 1 .. nextToken - 1
      BY DEF Requests
    <2>. QED
      BY <2>1, <2>2 DEF Tokens, Executor!Tokens
  <1>5. Requests'
    <2>1. ASSUME NEW u \in LiveTokens'
          PROVE  /\ u \in 1 .. nextToken' - 1
                 /\ sequenceByToken'[u] \in DOMAIN pendingBySequence'
                 /\ pendingBySequence'[sequenceByToken'[u]].token = u
      <3>1. u \in LiveTokens /\ u # t
        BY <1>3
      <3>2. sequenceByToken[u] # sequenceByToken[t]
        BY <3>1 DEF Requests
      <3>. QED
        BY <1>1, <1>2, <3>1, <3>2 DEF Requests
    <2>2. \A seq \in DOMAIN pendingBySequence' :
             pendingBySequence'[seq] \in Executor!Pending
      BY <1>2 DEF Requests
    <2>. QED
      BY <1>1, <2>1, <2>2 DEF Requests
  <1>6. Due' = Due \cup {t} /\ t \notin Due
    BY <1>1, <1>3, <1>4 DEF Due
  <1>. QED
    BY <1>4, <1>5, <1>6

\* and a close makes every live request due.
LEMMA CloseRequests ==
    ASSUME Requests, NEW order, Executor!CloseExecutor(order)
    PROVE  /\ Requests' /\ Due' = Due \cup LiveTokens
           /\ Executor!FoundTokens = LiveTokens /\ IsFiniteSet(LiveTokens)
           /\ LiveTokens \subseteq Tokens /\ LiveTokens \cap Due = {}
  <1>1. LiveTokens' = {} /\ nextToken' = nextToken
    BY DEF Executor!CloseExecutor, LiveTokens, Executor!LiveTokens, Executor!EmptyMap
  <1>2. /\ DOMAIN pendingBySequence' \subseteq DOMAIN pendingBySequence
        /\ \A seq \in DOMAIN pendingBySequence' :
              pendingBySequence'[seq] = pendingBySequence[seq]
    BY DEF Executor!CloseExecutor, Executor!Remove, Executor!Restrict
  <1>3. MaxToken \in Nat
    BY ConfigAssumption
  <1>4. \A t \in LiveTokens : t \in Tokens /\ t < nextToken
    <2>1. nextToken \in 1 .. MaxToken /\ \A t \in LiveTokens : t \in 1 .. nextToken - 1
      BY DEF Requests
    <2>. QED
      BY <1>3, <2>1 DEF Tokens, Executor!Tokens
  <1>5. Requests'
    BY <1>1, <1>2 DEF Requests
  <1>6. Due' = Due \cup LiveTokens
    BY <1>1, <1>4 DEF Due
  <1>7. Executor!FoundTokens = LiveTokens
    BY DEF Executor!FoundTokens, Executor!IsLive, Requests, LiveTokens
  <1>8. IsFiniteSet(LiveTokens)
    <2>1. IsFiniteSet(1 .. MaxToken - 1)
      BY <1>3, FS_Interval
    <2>. QED
      BY <1>4, <2>1, FS_Subset DEF Tokens, Executor!Tokens
  <1>. QED
    BY <1>4, <1>5, <1>6, <1>7, <1>8 DEF Due

\* The order of a walk visits every token once.
LEMMA OrderVisits ==
    ASSUME NEW S, IsFiniteSet(S), NEW order \in Executor!Orders(S)
    PROVE  /\ Len(order) \in Nat /\ DOMAIN order = 1 .. Len(order)
           /\ \A i \in 1 .. Len(order) : order[i] \in S
           /\ \A i, j \in 1 .. Len(order) : order[i] = order[j] => i = j
           /\ \A x \in S : \E i \in 1 .. Len(order) : order[i] = x
  <1>. DEFINE n == Cardinality(S)
  <1>1. n \in Nat /\ Executor!Cardinality(S) = n
    BY FS_CardinalityType DEF Executor!Cardinality, Cardinality
  <1>. HIDE DEF n
  <1>2. /\ order \in [1 .. n -> S]
        /\ \A i, j \in 1 .. n : order[i] = order[j] => i = j
    BY <1>1 DEF Executor!Orders, Executor!IsInjective
  <1>3. Len(order) = n
    BY <1>1, <1>2
  <1>4. order \in Injection(1 .. n, S)
    BY <1>2 DEF Injection, IsInjective
  <1>5. IsFiniteSet(1 .. n) /\ Cardinality(1 .. n) = n
    BY <1>1, FS_Interval
  <1>6. order \in Surjection(1 .. n, S)
    BY <1>4, <1>5, FS_Injection DEF n
  <1>7. \A x \in S : \E i \in 1 .. n : order[i] = x
    BY <1>6 DEF Surjection
  <1>. QED
    BY <1>1, <1>2, <1>3, <1>7

-----------------------------------------------------------------------------
(* The replies of the executor.                                            *)

\* Replies as the executor makes them.
Raw == {Executor!RetSubmit(t) : t \in Nat}
         \cup {Executor!RetUnlink(t, seq) : t \in Nat, seq \in Nat}

\* A reply of the executor is a RET_SUBMIT or a RET_UNLINK of some token.
LEMMA RawFacts ==
    \A reply \in Raw : reply.kind \in {"RetSubmit", "RetUnlink"} /\ reply.token \in Nat
  BY DEF Raw, Executor!RetSubmit, Executor!RetUnlink

\* Their sizes leave the answers where they are.
LEMMA SizedFacts ==
    ASSUME NEW replies \in Seq(Raw), NEW size \in Nat \ {0}
    PROVE  /\ Sized(replies, size) \in Seq(UnsentReplies)
           /\ \A t : AnswersAt(Sized(replies, size), t) = AnswersAt(replies, t)
  <1>. DEFINE sized == Sized(replies, size)
  <1>1. HeaderSize \in Nat \ {0}
    BY ConfigAssumption
  <1>2. Len(replies) \in Nat /\ DOMAIN replies = 1 .. Len(replies)
        /\ \A i \in 1 .. Len(replies) : replies[i] \in Raw
    BY LenProperties, ElementOfSeq
  <1>3. \A i \in 1 .. Len(replies) :
           replies[i].kind \in {"RetSubmit", "RetUnlink"} /\ replies[i].token \in Nat
    BY <1>2, RawFacts
  <1>4. sized = [i \in 1 .. Len(replies) |->
                   [kind |-> replies[i].kind, token |-> replies[i].token,
                    size |-> IF replies[i].kind = "RetSubmit" THEN size ELSE HeaderSize]]
    BY <1>2 DEF Sized
  <1>5. \A i \in 1 .. Len(replies) : sized[i] \in UnsentReplies
    BY <1>1, <1>3, <1>4 DEF UnsentReplies
  <1>. HIDE DEF sized
  <1>6. sized \in Seq(UnsentReplies)
    BY <1>2, <1>4, <1>5
  <1>7. DOMAIN sized = DOMAIN replies
        /\ \A i \in DOMAIN replies :
              sized[i].kind = replies[i].kind /\ sized[i].token = replies[i].token
    BY <1>2, <1>4
  <1>8. \A t : AnswersAt(sized, t) = AnswersAt(replies, t)
    BY <1>7 DEF AnswersAt, Answer
  <1>. QED
    BY <1>6, <1>8 DEF sized

\* The replies of one token answer that token, at one place.
LEMMA OneTokenReplies ==
    ASSUME NEW t \in Nat, NEW replies,
           \/ replies = <<Executor!RetSubmit(t)>>
           \/ \E seq \in Nat : replies = <<Executor!RetSubmit(t), Executor!RetUnlink(t, seq)>>
    PROVE  /\ replies \in Seq(Raw)
           /\ AnswersAt(replies, t) = {1}
           /\ \A u : u # t => AnswersAt(replies, u) = {}
  <1>1. /\ Executor!RetSubmit(t) \in Raw
        /\ Executor!RetSubmit(t).kind = "RetSubmit" /\ Executor!RetSubmit(t).token = t
    BY DEF Raw, Executor!RetSubmit
  <1>2. \A seq \in Nat : /\ Executor!RetUnlink(t, seq) \in Raw
                         /\ Executor!RetUnlink(t, seq).kind = "RetUnlink"
    BY DEF Raw, Executor!RetUnlink
  <1>3. CASE replies = <<Executor!RetSubmit(t)>>
    <2>1. replies \in Seq(Raw) /\ DOMAIN replies = {1} /\ replies[1] = Executor!RetSubmit(t)
      BY <1>1, <1>3
    <2>. QED
      BY <1>1, <2>1 DEF AnswersAt, Answer
  <1>4. ASSUME NEW seq \in Nat,
               replies = <<Executor!RetSubmit(t), Executor!RetUnlink(t, seq)>>
        PROVE  /\ replies \in Seq(Raw)
               /\ AnswersAt(replies, t) = {1}
               /\ \A u : u # t => AnswersAt(replies, u) = {}
    <2>1. /\ replies \in Seq(Raw) /\ DOMAIN replies = {1, 2}
          /\ replies[1] = Executor!RetSubmit(t) /\ replies[2] = Executor!RetUnlink(t, seq)
      BY <1>1, <1>2, <1>4
    <2>2. replies[2].kind # "RetSubmit"
      BY <1>2, <2>1
    <2>. QED
      BY <1>1, <2>1, <2>2 DEF AnswersAt, Answer
  <1>. QED
    BY <1>3, <1>4

\* A retired request is answered once, and it alone.
LEMMA RepliesOfToken ==
    ASSUME Requests, NEW t \in LiveTokens
    PROVE  LET replies == Executor!RepliesOf(t)
           IN  /\ replies \in Seq(Raw)
               /\ AnswersAt(replies, t) = {1}
               /\ \A u : u # t => AnswersAt(replies, u) = {}
  <1>. DEFINE request == Executor!Request(t)
  <1>1. request \in Executor!Pending
    BY DEF Requests, Executor!Request
  <1>2. request.unlink \in Nat
    <2>1. SeqNums \subseteq Nat
      BY ConfigAssumption
    <2>. HIDE DEF request
    <2>2. request.unlink \in SeqNums \cup {Executor!NoUnlink}
      BY <1>1 DEF Executor!Pending
    <2>3. Executor!NoUnlink \in Nat
      BY DEF Executor!NoUnlink
    <2>. QED
      BY <2>1, <2>2, <2>3
  <1>3. t \in Nat
    <2>1. MaxToken \in Nat
      BY ConfigAssumption
    <2>. QED
      BY <2>1 DEF Requests
  <1>4. \/ Executor!RepliesOf(t) = <<Executor!RetSubmit(t)>>
        \/ Executor!RepliesOf(t) =
             <<Executor!RetSubmit(t), Executor!RetUnlink(t, request.unlink)>>
    BY DEF Executor!RepliesOf
  <1>. HIDE DEF request
  <1>. QED
    BY <1>2, <1>3, <1>4, OneTokenReplies

-----------------------------------------------------------------------------
(* The replies of a whole walk.                                            *)

\* A concatenation of sequences is built up one sequence after the other.
LEMMA FlattenFacts ==
    ASSUME NEW S, NEW seqs \in Seq(Seq(S)), seqs # <<>>
    PROVE  \E parts \in [1 .. Len(seqs) -> Seq(S)] :
              /\ parts[1] = seqs[1]
              /\ \A i \in 2 .. Len(seqs) : parts[i] = parts[i - 1] \o seqs[i]
              /\ FlattenSeq(seqs) = parts[Len(seqs)]
  <1>. DEFINE N == Len(seqs)
              Join(part, i) == part \o seqs[i]
              Loop(f) == [i \in 1 .. N |-> IF i = 1 THEN seqs[i] ELSE Join(f[i - 1], i)]
              flatten == CHOOSE f : f = Loop(f)
              Run(g, n) == /\ g \in [1 .. n -> Seq(S)]
                           /\ g[1] = seqs[1]
                           /\ \A i \in 2 .. n : g[i] = Join(g[i - 1], i)
  <1>1. N \in Nat /\ N # 0
    BY LenProperties, EmptySeq
  <1>2. seqs[1] \in Seq(S)
    BY <1>1, ElementOfSeq
  <1>3. \A i \in 1 .. N : \A part \in Seq(S) : Join(part, i) \in Seq(S)
    BY ElementOfSeq, ConcatProperties
  <1>4. FlattenSeq(seqs) = flatten[N]
    BY <1>1 DEF FlattenSeq
  <1>5. \A part, i : Join(part, i) = part \o seqs[i]
    OBVIOUS
  <1>. HIDE DEF N, Join
  <1>6. Run([i \in 1 .. 1 |-> seqs[1]], 1)
    BY <1>2
  <1>7. ASSUME NEW n \in Nat \ {0}, n + 1 <= N, NEW g, Run(g, n)
        PROVE  \E h : Run(h, n + 1)
    <2>. DEFINE h == [i \in 1 .. n + 1 |-> IF i <= n THEN g[i] ELSE Join(g[n], n + 1)]
    <2>1. g[n] \in Seq(S) /\ n + 1 \in 1 .. N
      BY <1>1, <1>7
    <2>2. Join(g[n], n + 1) \in Seq(S)
      BY <1>3, <2>1
    <2>3. h \in [1 .. n + 1 -> Seq(S)]
      BY <1>7, <2>2
    <2>4. h[1] = seqs[1]
      BY <1>7
    <2>5. ASSUME NEW i \in 2 .. n + 1
          PROVE  h[i] = Join(h[i - 1], i)
      <3>1. CASE i <= n
        <4>1. i \in 2 .. n /\ i - 1 \in 1 .. n /\ i - 1 <= n
          BY <3>1
        <4>2. h[i] = g[i] /\ h[i - 1] = g[i - 1]
          BY <4>1
        <4>. QED
          BY <1>7, <4>1, <4>2
      <3>2. CASE i = n + 1
        <4>1. i - 1 = n /\ n \in 1 .. n + 1 /\ ~ (i <= n) /\ n <= n
          BY <3>2
        <4>2. h[i] = Join(g[n], n + 1) /\ h[n] = g[n]
          BY <4>1
        <4>. QED
          BY <3>2, <4>1, <4>2
      <3>. QED
        BY <3>1, <3>2
    <2>6. Run(h, n + 1)
      BY <2>3, <2>4, <2>5
    <2>. QED
      BY <2>6
  <1>8. \E g : Run(g, N)
    <2>. HIDE DEF Run
    <2>. DEFINE Long == {n \in Nat : n = 0 \/ n > N \/ \E g : Run(g, n)}
    <2>1. 0 \in Long
      OBVIOUS
    <2>2. ASSUME NEW n \in Nat, n \in Long
          PROVE  n + 1 \in Long
      <3>1. CASE n = 0
        <4>1. n + 1 = 1 /\ \E g : Run(g, 1)
          BY <1>6, <3>1
        <4>. QED
          BY <4>1
      <3>2. CASE n # 0 /\ n + 1 <= N
        <4>1. \E g : Run(g, n)
          BY <1>1, <2>2, <3>2
        <4>2. \E h : Run(h, n + 1)
          BY <1>7, <3>2, <4>1
        <4>. QED
          BY <4>2
      <3>3. CASE n + 1 > N
        BY <3>3
      <3>. QED
        BY <1>1, <3>1, <3>2, <3>3
    <2>3. Nat \subseteq Long
      BY <2>1, <2>2, SetInduction
    <2>4. ~ (N > N)
      BY <1>1
    <2>5. ASSUME NEW n \in Nat, n # 0, ~ (n > N)
          PROVE  \E g : Run(g, n)
      BY <2>3, <2>5
    <2>. QED
      BY <1>1, <2>4, <2>5
  <1>9. PICK g : Run(g, N)
    BY <1>8
  <1>10. g = Loop(g)
    <2>1. g \in [1 .. N -> Seq(S)]
      BY <1>9
    <2>2. ASSUME NEW i \in 1 .. N
          PROVE  g[i] = Loop(g)[i]
      <3>1. CASE i = 1
        BY <1>9, <3>1
      <3>2. CASE i # 1
        <4>1. i \in 2 .. N
          BY <1>1, <3>2
        <4>. QED
          BY <1>9, <3>2, <4>1
      <3>. QED
        BY <3>1, <3>2
    <2>. QED
      BY <2>1, <2>2
  <1>11. flatten = Loop(flatten)
    BY <1>10
  <1>. HIDE DEF flatten
  <1>12. flatten[1] = seqs[1]
    BY <1>1, <1>11
  <1>13. ASSUME NEW i \in 2 .. N
         PROVE  flatten[i] = Join(flatten[i - 1], i)
    <2>1. i \in 1 .. N /\ i # 1
      BY <1>1
    <2>2. Loop(flatten)[i] = Join(flatten[i - 1], i)
      BY <2>1
    <2>. QED
      BY <1>11, <2>2
  <1>14. flatten \in [1 .. N -> Seq(S)]
    <2>. DEFINE Typed == {n \in Nat : n = 0 \/ n > N \/ flatten[n] \in Seq(S)}
    <2>1. 0 \in Typed
      OBVIOUS
    <2>2. ASSUME NEW n \in Nat, n \in Typed
          PROVE  n + 1 \in Typed
      <3>1. CASE n = 0
        <4>1. n + 1 = 1
          BY <3>1
        <4>. QED
          BY <1>2, <1>12, <4>1
      <3>2. CASE n # 0 /\ n + 1 <= N
        <4>1. n + 1 \in 2 .. N /\ (n + 1) - 1 = n /\ n + 1 \in 1 .. N
          BY <1>1, <3>2
        <4>2. flatten[n + 1] = Join(flatten[n], n + 1)
          BY <1>13, <4>1
        <4>3. flatten[n] \in Seq(S)
          BY <1>1, <2>2, <3>2
        <4>4. flatten[n + 1] \in Seq(S)
          BY <1>3, <4>1, <4>2, <4>3
        <4>. QED
          BY <4>4
      <3>3. CASE n + 1 > N
        BY <3>3
      <3>. QED
        BY <1>1, <3>1, <3>2, <3>3
    <2>3. Nat \subseteq Typed
      BY <2>1, <2>2, SetInduction
    <2>4. ASSUME NEW i \in 1 .. N
          PROVE  flatten[i] \in Seq(S)
      <3>1. i \in Nat /\ i # 0 /\ ~ (i > N)
        BY <1>1
      <3>. QED
        BY <2>3, <3>1
    <2>5. flatten = [i \in 1 .. N |-> flatten[i]]
      BY <1>11
    <2>. QED
      BY <2>4, <2>5
  <1>15. \A i \in 2 .. N : flatten[i] = flatten[i - 1] \o seqs[i]
    BY <1>5, <1>13
  <1>. QED
    BY <1>4, <1>12, <1>14, <1>15 DEF N

\* The concatenation of all sequences of two sequences of them is the first one's
\* and then the second one's.  (Induction on the length of the second, over sets.)
LEMMA FlattenConcat ==
    ASSUME NEW S, NEW front \in Seq(Seq(S)), NEW back \in Seq(Seq(S))
    PROVE  /\ FlattenSeq(front \o back) = FlattenSeq(front) \o FlattenSeq(back)
           /\ FlattenSeq(front) \in Seq(S)
  <1>. DEFINE whole == front \o back
              n == Len(front)
              m == Len(back)
  <1>1. /\ n \in Nat /\ m \in Nat /\ whole \in Seq(Seq(S)) /\ Len(whole) = n + m
        /\ \A i \in 1 .. n : whole[i] = front[i]
        /\ \A i \in 1 .. m : whole[n + i] = back[i]
    BY ConcatParts, ConcatProperties
  <1>2. ASSUME NEW seqs \in Seq(Seq(S)), Len(seqs) = 0
        PROVE  FlattenSeq(seqs) = <<>> /\ seqs = <<>>
    BY <1>2, EmptySeq DEF FlattenSeq
  <1>3. ASSUME NEW seqs \in Seq(Seq(S))
        PROVE  FlattenSeq(seqs) \in Seq(S)
    <2>1. CASE Len(seqs) = 0
      <3>1. <<>> \in Seq(S)
        BY EmptySeq
      <3>. QED
        BY <1>2, <2>1, <3>1
    <2>2. CASE Len(seqs) # 0
      <3>1. seqs # <<>> /\ Len(seqs) \in 1 .. Len(seqs)
        BY <2>2, LenProperties, EmptySeq
      <3>2. PICK parts \in [1 .. Len(seqs) -> Seq(S)] : FlattenSeq(seqs) = parts[Len(seqs)]
        BY <3>1, FlattenFacts
      <3>. QED
        BY <3>1, <3>2
    <2>. QED
      BY <2>1, <2>2
  <1>4. CASE n = 0
    <2>1. front = <<>> /\ FlattenSeq(front) = <<>>
      BY <1>2, <1>4
    <2>2. whole = back
      BY <2>1, ConcatEmptySeq
    <2>3. FlattenSeq(back) \in Seq(S)
      BY <1>3
    <2>4. <<>> \o FlattenSeq(back) = FlattenSeq(back)
      BY <2>3, ConcatEmptySeq
    <2>. QED
      BY <1>3, <2>1, <2>2, <2>4
  <1>5. CASE m = 0
    <2>1. back = <<>> /\ FlattenSeq(back) = <<>>
      BY <1>2, <1>5
    <2>2. whole = front
      BY <2>1, ConcatEmptySeq
    <2>3. FlattenSeq(front) \in Seq(S)
      BY <1>3
    <2>4. FlattenSeq(front) \o <<>> = FlattenSeq(front)
      BY <2>3, ConcatEmptySeq
    <2>. QED
      BY <1>3, <2>1, <2>2, <2>4
  <1>6. CASE n # 0 /\ m # 0
    <2>. HIDE DEF n, m, whole
    <2>1. front # <<>> /\ back # <<>> /\ whole # <<>>
      BY <1>1, <1>6, EmptySeq DEF n, m
    <2>2. PICK a \in [1 .. n -> Seq(S)] :
             /\ a[1] = front[1]
             /\ \A i \in 2 .. n : a[i] = a[i - 1] \o front[i]
             /\ FlattenSeq(front) = a[n]
      BY <2>1, FlattenFacts DEF n
    <2>3. PICK b \in [1 .. m -> Seq(S)] :
             /\ b[1] = back[1]
             /\ \A i \in 2 .. m : b[i] = b[i - 1] \o back[i]
             /\ FlattenSeq(back) = b[m]
      BY <2>1, FlattenFacts DEF m
    <2>4. PICK c \in [1 .. n + m -> Seq(S)] :
             /\ c[1] = whole[1]
             /\ \A i \in 2 .. n + m : c[i] = c[i - 1] \o whole[i]
             /\ FlattenSeq(whole) = c[n + m]
      <3>1. Len(whole) = n + m
        BY <1>1 DEF n, m
      <3>2. PICK c \in [1 .. Len(whole) -> Seq(S)] :
               /\ c[1] = whole[1]
               /\ \A i \in 2 .. Len(whole) : c[i] = c[i - 1] \o whole[i]
               /\ FlattenSeq(whole) = c[Len(whole)]
        BY <1>1, <2>1, FlattenFacts
      <3>. QED
        BY <3>1, <3>2
    <2>5. /\ n \in Nat \ {0} /\ m \in Nat \ {0}
          /\ \A i \in 1 .. n : whole[i] = front[i]
          /\ \A i \in 1 .. m : whole[n + i] = back[i] /\ back[i] \in Seq(S)
      BY <1>1, <1>6, ElementOfSeq DEF n, m, whole
    <2>6. \A i \in 1 .. n : c[i] = a[i]
      <3>. DEFINE Equal(k) == c[k] = a[k]
                  Same == {k \in Nat : k = 0 \/ k > n \/ Equal(k)}
      <3>1. 0 \in Same
        OBVIOUS
      <3>2. ASSUME NEW k \in Nat, k \in Same
            PROVE  k + 1 \in Same
        <4>1. CASE k = 0
          <5>1. 1 \in 1 .. n /\ k + 1 = 1
            BY <2>5, <4>1
          <5>2. Equal(k + 1)
            BY <2>2, <2>4, <2>5, <5>1
          <5>. HIDE DEF Equal
          <5>. QED
            BY <5>2
        <4>2. CASE k # 0 /\ k + 1 <= n
          <5>1. k + 1 \in 2 .. n /\ k + 1 \in 2 .. n + m /\ (k + 1) - 1 = k /\ k + 1 \in 1 .. n
            BY <2>5, <4>2
          <5>2. c[k + 1] = c[k] \o whole[k + 1] /\ a[k + 1] = a[k] \o front[k + 1]
            BY <2>2, <2>4, <5>1
          <5>3. c[k] = a[k] /\ whole[k + 1] = front[k + 1]
            BY <2>5, <3>2, <4>2, <5>1
          <5>4. Equal(k + 1)
            BY <5>2, <5>3
          <5>. HIDE DEF Equal
          <5>. QED
            BY <5>4
        <4>3. CASE k + 1 > n
          BY <4>3
        <4>. QED
          BY <2>5, <4>1, <4>2, <4>3
      <3>3. Nat \subseteq Same
        BY <3>1, <3>2, SetInduction
      <3>4. ASSUME NEW i \in 1 .. n
            PROVE  c[i] = a[i]
        <4>1. i \in Nat /\ i # 0 /\ ~ (i > n)
          BY <2>5
        <4>. QED
          BY <3>3, <4>1
      <3>. QED
        BY <3>4
    <2>7. \A i \in 1 .. m : c[n + i] = a[n] \o b[i]
      <3>. DEFINE Follows(k) == c[n + k] = a[n] \o b[k]
                  Joined == {k \in Nat : k = 0 \/ k > m \/ Follows(k)}
      <3>1. 0 \in Joined
        OBVIOUS
      <3>2. ASSUME NEW k \in Nat, k \in Joined
            PROVE  k + 1 \in Joined
        <4>0. n + (k + 1) \in Nat /\ (n + (k + 1)) - 1 = n + k /\ n \in 1 .. n
          BY <2>5
        <4>1. CASE k = 0
          <5>1. n + 1 \in 2 .. n + m /\ (n + 1) - 1 = n /\ 1 \in 1 .. m /\ k + 1 = 1
            BY <2>5, <4>1
          <5>2. c[n + 1] = c[n] \o whole[n + 1]
            BY <2>4, <5>1
          <5>3. c[n] = a[n] /\ whole[n + 1] = b[1]
            BY <2>3, <2>5, <2>6, <4>0, <5>1
          <5>4. Follows(k + 1)
            BY <5>1, <5>2, <5>3
          <5>. HIDE DEF Follows
          <5>. QED
            BY <5>4
        <4>2. CASE k # 0 /\ k + 1 <= m
          <5>1. /\ k + 1 \in 2 .. m /\ k + 1 \in 1 .. m /\ (k + 1) - 1 = k
                /\ n + (k + 1) \in 2 .. n + m /\ k \in 1 .. m /\ ~ (k > m)
            BY <2>5, <4>2
          <5>2. c[n + (k + 1)] = c[n + k] \o whole[n + (k + 1)]
            BY <2>4, <4>0, <5>1
          <5>3. b[k + 1] = b[k] \o back[k + 1]
            BY <2>3, <5>1
          <5>4. c[n + k] = a[n] \o b[k] /\ whole[n + (k + 1)] = back[k + 1]
            BY <2>5, <3>2, <4>2, <5>1
          <5>5. a[n] \in Seq(S) /\ b[k] \in Seq(S) /\ back[k + 1] \in Seq(S)
            BY <2>2, <2>3, <2>5, <4>0, <5>1
          <5>6. (a[n] \o b[k]) \o back[k + 1] = a[n] \o (b[k] \o back[k + 1])
            <6>1. \A s, t, u \in Seq(S) : (s \o t) \o u = s \o (t \o u)
              BY ConcatAssociative
            <6>. HIDE DEF Joined, Follows
            <6>. QED
              BY <5>5, <6>1
          <5>7. Follows(k + 1)
            BY <5>2, <5>3, <5>4, <5>6
          <5>. HIDE DEF Follows
          <5>. QED
            BY <5>7
        <4>. HIDE DEF Follows
        <4>3. CASE k + 1 > m
          BY <4>3
        <4>. HIDE DEF Joined
        <4>. QED
          BY <2>5, <4>1, <4>2, <4>3
      <3>3. Nat \subseteq Joined
        BY <3>1, <3>2, SetInduction
      <3>4. ASSUME NEW i \in 1 .. m
            PROVE  c[n + i] = a[n] \o b[i]
        <4>1. i \in Nat /\ i # 0 /\ ~ (i > m)
          BY <2>5
        <4>. QED
          BY <3>3, <4>1
      <3>. QED
        BY <3>4
    <2>8. m \in 1 .. m
      BY <2>5
    <2>9. c[n + m] = a[n] \o b[m]
      BY <2>7, <2>8
    <2>10. FlattenSeq(whole) = FlattenSeq(front) \o FlattenSeq(back)
      BY <2>2, <2>3, <2>4, <2>9
    <2>. QED
      BY <1>3, <2>10 DEF whole
  <1>. QED
    BY <1>1, <1>4, <1>5, <1>6

\* The replies of a close answer each live request once.  (Induction on the
\* length of the walk, over sets.)
LEMMA WalkReplies ==
    ASSUME Requests, Executor!FoundTokens = LiveTokens, IsFiniteSet(LiveTokens),
           NEW order \in Executor!Orders(Executor!FoundTokens)
    PROVE  LET replies == FlattenSeq([i \in DOMAIN order |-> Executor!CloseReplies(order[i])])
           IN  /\ replies \in Seq(Raw)
               /\ \A t : \A i, j \in AnswersAt(replies, t) : i = j
               /\ \A t : t \in LiveTokens <=> AnswersAt(replies, t) # {}
  <1>. DEFINE N == Len(order)
              seqs == [i \in DOMAIN order |-> Executor!CloseReplies(order[i])]
              replies == FlattenSeq(seqs)
              Visited(t, n) == \E k \in 1 .. n : order[k] = t
  <1>1. /\ N \in Nat /\ DOMAIN order = 1 .. N
        /\ \A i \in 1 .. N : order[i] \in LiveTokens
        /\ \A i, j \in 1 .. N : order[i] = order[j] => i = j
        /\ \A t \in LiveTokens : \E i \in 1 .. N : order[i] = t
    BY OrderVisits
  <1>2. ASSUME NEW i \in 1 .. N
        PROVE  /\ seqs[i] \in Seq(Raw)
               /\ AnswersAt(seqs[i], order[i]) = {1}
               /\ \A u : u # order[i] => AnswersAt(seqs[i], u) = {}
    <2>1. seqs[i] = Executor!RepliesOf(order[i])
      BY <1>1 DEF Executor!CloseReplies
    <2>. HIDE DEF seqs
    <2>. QED
      BY <1>1, <2>1, RepliesOfToken
  <1>3. seqs \in Seq(Seq(Raw)) /\ Len(seqs) = N
    <2>1. seqs = [i \in 1 .. N |-> seqs[i]]
      BY <1>1
    <2>. HIDE DEF seqs
    <2>. QED
      BY <1>1, <1>2, <2>1
  <1>. HIDE DEF N, seqs
  <1>4. CASE N = 0
    <2>1. seqs = <<>>
      BY <1>3, <1>4, EmptySeq
    <2>2. replies = <<>>
      BY <1>3, <1>4, <2>1 DEF FlattenSeq
    <2>3. LiveTokens = {}
      BY <1>1, <1>4
    <2>4. replies \in Seq(Raw) /\ \A t : AnswersAt(replies, t) = {}
      BY <2>2 DEF AnswersAt
    <2>. QED
      BY <2>3, <2>4 DEF seqs
  <1>5. CASE N # 0
    <2>1. seqs # <<>>
      BY <1>3, <1>5, EmptySeq
    <2>2. PICK parts \in [1 .. N -> Seq(Raw)] :
             /\ parts[1] = seqs[1]
             /\ \A i \in 2 .. N : parts[i] = parts[i - 1] \o seqs[i]
             /\ replies = parts[N]
      BY <1>3, <2>1, FlattenFacts
    <2>. DEFINE Once(n) == \A t : /\ \A i, j \in AnswersAt(parts[n], t) : i = j
                                  /\ AnswersAt(parts[n], t) = {} <=> ~ Visited(t, n)
                Good == {n \in Nat : n = 0 \/ n > N \/ Once(n)}
    <2>3. Once(1)
      <3>1. /\ AnswersAt(parts[1], order[1]) = {1}
            /\ \A u : u # order[1] => AnswersAt(parts[1], u) = {}
        <4>1. 1 \in 1 .. N
          BY <1>1, <1>5
        <4>. QED
          BY <1>2, <2>2, <4>1
      <3>2. \A t : Visited(t, 1) <=> t = order[1]
        OBVIOUS
      <3>. HIDE DEF Visited
      <3>3. ASSUME NEW t
            PROVE  /\ \A i, j \in AnswersAt(parts[1], t) : i = j
                   /\ AnswersAt(parts[1], t) = {} <=> ~ Visited(t, 1)
        BY <3>1, <3>2
      <3>. QED
        BY <3>3
    <2>4. ASSUME NEW n \in Nat \ {0}, n + 1 <= N, Once(n)
          PROVE  Once(n + 1)
      <3>. DEFINE last == order[n + 1]
      <3>1. n \in 1 .. N /\ n + 1 \in 2 .. N /\ n + 1 \in 1 .. N /\ (n + 1) - 1 = n
        BY <1>1, <2>4
      <3>2. parts[n + 1] = parts[n] \o seqs[n + 1] /\ parts[n] \in Seq(Raw)
        BY <2>2, <3>1
      <3>3. /\ seqs[n + 1] \in Seq(Raw)
            /\ AnswersAt(seqs[n + 1], last) = {1}
            /\ \A u : u # last => AnswersAt(seqs[n + 1], u) = {}
        BY <1>2, <3>1
      <3>4. \A t : Visited(t, n + 1) <=> Visited(t, n) \/ t = last
        <4>1. \A k : k \in 1 .. n + 1 <=> k \in 1 .. n \/ k = n + 1
          BY <3>1
        <4>. QED
          BY <4>1
      <3>5. ~ Visited(last, n)
        <4>1. \A k \in 1 .. n : k \in 1 .. N /\ k # n + 1
          BY <1>1, <3>1
        <4>. QED
          BY <1>1, <3>1, <4>1
      <3>. HIDE DEF Visited, last
      <3>6. ASSUME NEW t
            PROVE  /\ \A i, j \in AnswersAt(parts[n + 1], t) : i = j
                   /\ AnswersAt(parts[n + 1], t) = {} <=> ~ Visited(t, n + 1)
        <4>1. \A i, j \in AnswersAt(parts[n], t) : i = j
          BY <2>4
        <4>2. AnswersAt(parts[n], t) = {} <=> ~ Visited(t, n)
          BY <2>4
        <4>3. \A i, j \in AnswersAt(seqs[n + 1], t) : i = j
          BY <3>3
        <4>4. AnswersAt(seqs[n + 1], t) = {} <=> t # last
          BY <3>3
        <4>5. AnswersAt(parts[n], t) = {} \/ AnswersAt(seqs[n + 1], t) = {}
          BY <3>5, <4>2, <4>4
        <4>6. \A i, j \in AnswersAt(parts[n] \o seqs[n + 1], t) : i = j
          BY <3>2, <3>3, <4>1, <4>3, <4>5, AnswersOfConcat
        <4>7. AnswersAt(parts[n] \o seqs[n + 1], t) = {}
                 <=> AnswersAt(parts[n], t) = {} /\ AnswersAt(seqs[n + 1], t) = {}
          BY <3>2, <3>3, <4>1, <4>3, <4>5, AnswersOfConcat
        <4>8. AnswersAt(parts[n + 1], t) = {} <=> ~ Visited(t, n + 1)
          BY <3>2, <3>4, <4>2, <4>4, <4>7
        <4>. QED
          BY <3>2, <4>6, <4>8
      <3>. QED
        BY <3>6
    <2>5. Once(N)
      <3>. HIDE DEF Once
      <3>1. 0 \in Good
        OBVIOUS
      <3>2. ASSUME NEW n \in Nat, n \in Good
            PROVE  n + 1 \in Good
        <4>1. CASE n = 0
          <5>1. n + 1 = 1
            BY <4>1
          <5>. QED
            BY <2>3, <5>1
        <4>2. CASE n # 0 /\ n + 1 <= N
          <5>1. Once(n)
            BY <1>1, <3>2, <4>2
          <5>2. Once(n + 1)
            BY <2>4, <4>2, <5>1
          <5>. QED
            BY <5>2
        <4>3. CASE n + 1 > N
          BY <4>3
        <4>. QED
          BY <1>1, <4>1, <4>2, <4>3
      <3>3. Nat \subseteq Good
        BY <3>1, <3>2, SetInduction
      <3>4. ASSUME NEW n \in Nat, n # 0, ~ (n > N)
            PROVE  Once(n)
        BY <3>3, <3>4
      <3>5. ~ (N > N)
        BY <1>1
      <3>. QED
        BY <1>1, <1>5, <3>4, <3>5
    <2>6. replies \in Seq(Raw)
      <3>1. N \in 1 .. N
        BY <1>1, <1>5
      <3>. QED
        BY <2>2, <3>1
    <2>7. \A t : Visited(t, N) <=> t \in LiveTokens
      BY <1>1
    <2>8. ASSUME NEW t
          PROVE  /\ \A i, j \in AnswersAt(replies, t) : i = j
                 /\ t \in LiveTokens <=> AnswersAt(replies, t) # {}
      <3>. HIDE DEF Visited, replies
      <3>1. \A i, j \in AnswersAt(parts[N], t) : i = j
        BY <2>5
      <3>2. AnswersAt(parts[N], t) = {} <=> ~ Visited(t, N)
        BY <2>5
      <3>3. replies = parts[N]
        BY <2>2
      <3>. QED
        BY <2>7, <3>1, <3>2, <3>3
    <2>. QED
      BY <2>6, <2>8 DEF seqs
  <1>. QED
    BY <1>4, <1>5

-----------------------------------------------------------------------------
(* What the handlers announce and answer.                                  *)

\* Notices to the owner are events, and no frames.
LEMMA NoticeFacts ==
    /\ <<>> \in Seq(Events) /\ At(<<>>) = {}
    /\ \A kind \in NoticeKinds :
          <<Event(kind)>> \in Seq(Events) /\ At(<<Event(kind)>>) = {}
    /\ \A kind \in NoticeKinds, t \in Nat :
          <<TokenEvent(kind, t)>> \in Seq(Events) /\ At(<<TokenEvent(kind, t)>>) = {}
  <1>1. "OutputFrame" \notin NoticeKinds
    BY DEF NoticeKinds
  <1>2. ASSUME NEW e \in Notices
        PROVE  <<e>> \in Seq(Events) /\ At(<<e>>) = {}
    <2>1. e \in Events /\ e.kind \in NoticeKinds
      BY DEF Events, Notices
    <2>2. ~ IsFrame(e)
      BY <1>1, <2>1 DEF IsFrame
    <2>3. DOMAIN <<e>> = {1} /\ <<e>>[1] = e /\ <<e>> \in Seq(Events)
      BY <2>1
    <2>. QED
      BY <2>2, <2>3 DEF At
  <1>3. \A kind \in NoticeKinds : Event(kind) \in Notices
    BY DEF Notices, Event
  <1>4. \A kind \in NoticeKinds, t \in Nat : TokenEvent(kind, t) \in Notices
    BY DEF Notices, TokenEvent
  <1>5. <<>> \in Seq(Events) /\ At(<<>>) = {}
    BY DEF At
  <1>. QED
    BY <1>2, <1>3, <1>4, <1>5

\* No replies, and the reply to an UNLINK of an unknown request, answer nothing.
LEMMA NoAnswers ==
    /\ <<>> \in Seq(UnsentReplies) /\ \A t : AnswersAt(<<>>, t) = {}
    /\ \A unlink \in SeqNums :
          LET replies == Sized(<<Executor!NoEntryReply(unlink)>>, HeaderSize)
          IN  replies \in Seq(UnsentReplies) /\ \A t : AnswersAt(replies, t) = {}
  <1>1. <<>> \in Seq(UnsentReplies) /\ \A t : AnswersAt(<<>>, t) = {}
    BY DEF AnswersAt
  <1>2. HeaderSize \in Nat \ {0}
    BY ConfigAssumption
  <1>3. SeqNums \subseteq Nat
    BY ConfigAssumption
  <1>4. ASSUME NEW unlink \in SeqNums
        PROVE  LET replies == Sized(<<Executor!NoEntryReply(unlink)>>, HeaderSize)
               IN  replies \in Seq(UnsentReplies) /\ \A t : AnswersAt(replies, t) = {}
    <2>. DEFINE reply == Executor!NoEntryReply(unlink)
                replies == <<reply>>
    <2>1. reply \in Raw /\ reply.kind = "RetUnlink"
      BY <1>3 DEF Raw, Executor!NoEntryReply, Executor!RetUnlink, Executor!NoToken
    <2>. HIDE DEF reply
    <2>2. replies \in Seq(Raw) /\ DOMAIN replies = {1} /\ replies[1] = reply
      BY <2>1
    <2>3. \A t : AnswersAt(replies, t) = {}
      BY <2>1, <2>2 DEF AnswersAt, Answer
    <2>. HIDE DEF replies
    <2>4. /\ Sized(replies, HeaderSize) \in Seq(UnsentReplies)
          /\ \A t : AnswersAt(Sized(replies, HeaderSize), t) = {}
      BY <1>2, <2>2, <2>3, SizedFacts
    <2>. QED
      BY <2>4 DEF replies, reply
  <1>. QED
    BY <1>1, <1>4

\* The replies to a completion or a cancellation answer its token once.
LEMMA TokenAnswers ==
    ASSUME Requests, NEW t \in LiveTokens, NEW size \in Nat \ {0}
    PROVE  LET replies == Sized(Executor!RepliesOf(t), size)
           IN  /\ replies \in Seq(UnsentReplies)
               /\ \A u : u \in {t} <=> AnswersAt(replies, u) # {}
               /\ \A u : \A i, j \in AnswersAt(replies, u) : i = j
  <1>. DEFINE raw == Executor!RepliesOf(t)
              replies == Sized(raw, size)
  <1>1. /\ raw \in Seq(Raw) /\ AnswersAt(raw, t) = {1}
        /\ \A u : u # t => AnswersAt(raw, u) = {}
    BY RepliesOfToken
  <1>. HIDE DEF raw
  <1>2. replies \in Seq(UnsentReplies) /\ \A u : AnswersAt(replies, u) = AnswersAt(raw, u)
    BY <1>1, SizedFacts
  <1>. HIDE DEF replies
  <1>3. \A u : u \in {t} <=> AnswersAt(replies, u) # {}
    BY <1>1, <1>2
  <1>4. ASSUME NEW u, NEW i \in AnswersAt(replies, u), NEW j \in AnswersAt(replies, u)
        PROVE  i = j
    BY <1>1, <1>2
  <1>. QED
    BY <1>2, <1>3, <1>4 DEF replies, raw

\* So do those of a whole close.
LEMMA CloseAnswers ==
    ASSUME Requests, Executor!FoundTokens = LiveTokens, IsFiniteSet(LiveTokens),
           NEW order \in Executor!Orders(Executor!FoundTokens)
    PROVE  LET raw == FlattenSeq([i \in DOMAIN order |-> Executor!CloseReplies(order[i])])
               replies == Sized(raw, HeaderSize)
           IN  /\ replies \in Seq(UnsentReplies)
               /\ \A u : u \in LiveTokens <=> AnswersAt(replies, u) # {}
               /\ \A u : \A i, j \in AnswersAt(replies, u) : i = j
  <1>. DEFINE raw == FlattenSeq([i \in DOMAIN order |-> Executor!CloseReplies(order[i])])
              replies == Sized(raw, HeaderSize)
  <1>1. HeaderSize \in Nat \ {0}
    BY ConfigAssumption
  <1>2. raw \in Seq(Raw)
    BY WalkReplies
  <1>3. \A t : \A i, j \in AnswersAt(raw, t) : i = j
    BY WalkReplies
  <1>4. \A t : t \in LiveTokens <=> AnswersAt(raw, t) # {}
    BY WalkReplies
  <1>. HIDE DEF raw
  <1>5. replies \in Seq(UnsentReplies) /\ \A u : AnswersAt(replies, u) = AnswersAt(raw, u)
    BY <1>1, <1>2, SizedFacts
  <1>. HIDE DEF replies
  <1>6. \A u : u \in LiveTokens <=> AnswersAt(replies, u) # {}
    BY <1>4, <1>5
  <1>7. \A u : \A i, j \in AnswersAt(replies, u) : i = j
    BY <1>3, <1>5
  <1>. QED
    BY <1>5, <1>6, <1>7 DEF replies, raw

=============================================================================
