--------------------------- MODULE EndpointProofs ---------------------------
(***************************************************************************)
(* What the session engine keeps when the messages it takes are those of   *)
(* another engine.  The lemmas speak of one endpoint, so that a module     *)
(* with two of them can use each lemma for both.                           *)
(***************************************************************************)
EXTENDS Endpoint, TransportProofs

-----------------------------------------------------------------------------
(* A stream of messages.                                                   *)

\* Queues whose frames have the same numbers in the same order are the same stream.
LEMMA SameFrames ==
    ASSUME NEW queue, NEW copy, NEW from, NEW to, Stream(queue, from, to),
           NEW place \in [At(copy) -> At(queue)],
           \A k \in At(queue) : \E i \in At(copy) : place[i] = k,
           \A i, j \in At(copy) : i < j => place[i] < place[j],
           \A i \in At(copy) : copy[i].seq = queue[place[i]].seq
    PROVE  Stream(copy, from, to)
  <1>1. \A i \in At(copy) : place[i] \in At(queue)
    OBVIOUS
  <1>2. {copy[i].seq : i \in At(copy)} = {queue[k].seq : k \in At(queue)}
    BY <1>1
  <1>3. \A i, j \in At(copy) : i < j => copy[i].seq < copy[j].seq
    BY <1>1 DEF Stream, At
  <1>. QED
    BY <1>2, <1>3 DEF Stream, At

\* A notice adds nothing to a stream, wherever it stands,
LEMMA DropNotice ==
    ASSUME NEW front \in Seq(Events), NEW back \in Seq(Events), back # <<>>,
           ~ IsFrame(Head(back)),
           NEW from, NEW to, Stream(front \o back, from, to)
    PROVE  Stream(front \o Tail(back), from, to)
  <1>. DEFINE whole == front \o back
              rest == Tail(back)
              copy == front \o rest
              n == Len(front)
              place == [i \in At(copy) |-> IF i <= n THEN i ELSE i + 1]
  <1>1. /\ rest \in Seq(Events) /\ Len(rest) = Len(back) - 1 /\ Head(back) = back[1]
        /\ \A i \in 1 .. Len(rest) : rest[i] = back[i + 1]
        /\ Len(back) \in Nat
    BY HeadTailProperties, LenProperties
  <1>2. n \in Nat /\ Len(rest) \in Nat
    BY <1>1, LenProperties
  <1>3. /\ DOMAIN whole = 1 .. n + Len(back)
        /\ \A i \in 1 .. n : whole[i] = front[i]
        /\ \A i \in 1 .. Len(back) : whole[n + i] = back[i]
    BY ConcatParts
  <1>4. /\ DOMAIN copy = 1 .. n + Len(rest)
        /\ \A i \in 1 .. n : copy[i] = front[i]
        /\ \A i \in 1 .. Len(rest) : copy[n + i] = rest[i]
    BY <1>1, ConcatParts
  <1>. HIDE DEF whole, rest, copy, n
  <1>5. ASSUME NEW i \in 1 .. n + Len(rest)
        PROVE  /\ i <= n => i \in DOMAIN whole /\ copy[i] = whole[i]
               /\ i > n => i + 1 \in DOMAIN whole /\ copy[i] = whole[i + 1]
    <2>1. CASE i <= n
      BY <1>1, <1>2, <1>3, <1>4, <2>1
    <2>2. CASE i > n
      <3>1. i - n \in 1 .. Len(rest) /\ i - n + 1 \in 1 .. Len(back)
        BY <1>1, <1>2, <2>2
      <3>2. copy[n + (i - n)] = rest[i - n] /\ whole[n + (i - n + 1)] = back[i - n + 1]
            /\ rest[i - n] = back[i - n + 1]
        BY <1>1, <1>3, <1>4, <3>1
      <3>3. n + (i - n) = i /\ n + (i - n + 1) = i + 1
        BY <1>2
      <3>. QED
        BY <1>1, <1>2, <1>3, <2>2, <3>2, <3>3
    <2>. QED
      BY <1>2, <2>1, <2>2
  <1>6. At(copy) \subseteq 1 .. n + Len(rest) /\ At(whole) \subseteq 1 .. n + Len(back)
    BY <1>3, <1>4 DEF At
  <1>7. ASSUME NEW i \in At(copy)
        PROVE  place[i] \in At(whole) /\ copy[i] = whole[place[i]]
    <2>1. i \in 1 .. n + Len(rest) /\ IsFrame(copy[i])
      BY <1>6 DEF At
    <2>. QED
      BY <1>2, <1>5, <2>1 DEF At
  <1>8. ASSUME NEW k \in At(whole)
        PROVE  \E i \in At(copy) : place[i] = k
    <2>1. k \in 1 .. n + Len(back) /\ IsFrame(whole[k])
      BY <1>6 DEF At
    <2>2. k # n + 1
      <3>1. k = n + 1 => ~ IsFrame(whole[k])
        BY <1>1, <1>2, <1>3, <2>1
      <3>. QED
        BY <2>1, <3>1
    <2>3. CASE k <= n
      <3>1. k \in 1 .. n + Len(rest)
        BY <1>2, <2>1, <2>3
      <3>2. k \in At(copy)
        BY <1>4, <1>5, <2>1, <2>3, <3>1 DEF At
      <3>. QED
        BY <2>3, <3>2
    <2>4. CASE k > n
      <3>1. k - 1 \in 1 .. n + Len(rest) /\ k - 1 > n /\ k - 1 + 1 = k
        BY <1>1, <1>2, <2>1, <2>2, <2>4
      <3>2. k - 1 \in At(copy)
        BY <1>4, <1>5, <2>1, <3>1 DEF At
      <3>3. place[k - 1] = k
        BY <1>2, <3>1, <3>2
      <3>. QED
        BY <3>2, <3>3
    <2>. QED
      BY <1>2, <2>1, <2>3, <2>4
  <1>9. \A i, j \in At(copy) : i < j => place[i] < place[j]
    BY <1>2, <1>6
  <1>10. place \in [At(copy) -> At(whole)]
    BY <1>7
  <1>11. \A i \in At(copy) : copy[i].seq = whole[place[i]].seq
    BY <1>7
  <1>. HIDE DEF place
  <1>12. Stream(whole, from, to)
    BY DEF whole
  <1>13. Stream(copy, from, to)
    BY <1>8, <1>9, <1>10, <1>11, <1>12, SameFrames
  <1>. QED
    BY <1>13 DEF copy, rest

\* the frame at the front carries the number that the stream starts with,
LEMMA DropFrame ==
    ASSUME NEW queue \in Seq(Events), queue # <<>>, IsFrame(Head(queue)),
           NEW from \in Nat, NEW to \in Nat, Stream(queue, from, to)
    PROVE  Head(queue).seq = from /\ Stream(Tail(queue), from + 1, to)
  <1>. DEFINE rest == Tail(queue)
  <1>1. \A i \in At(rest) : i \in Nat /\ i + 1 \in At(queue) /\ rest[i] = queue[i + 1]
    BY FramesOfTail
  <1>2. \A k \in At(queue) : k \in Nat \ {0} /\ (k > 1 => k - 1 \in At(rest))
    BY FramesStay
  <1>3. 1 \in At(queue) /\ queue[1] = Head(queue)
    <2>1. 1 \in DOMAIN queue /\ queue[1] = Head(queue)
      BY EmptySeq, LenProperties, HeadTailProperties
    <2>. QED
      BY <2>1 DEF At
  <1>4. \A i \in At(rest) : i > 0
    <2>1. DOMAIN rest = 1 .. Len(rest)
      BY HeadTailProperties, LenProperties
    <2>. QED
      BY <2>1 DEF At
  <1>. HIDE DEF rest
  <1>5. /\ {queue[k].seq : k \in At(queue)} = from .. to - 1
        /\ \A i, j \in At(queue) : i < j => queue[i].seq < queue[j].seq
    BY DEF Stream, At
  <1>6. \A k \in At(queue) : queue[k].seq \in from .. to - 1
    BY <1>5
  <1>7. from \in from .. to - 1
    BY <1>3, <1>6
  <1>8. PICK first \in At(queue) : queue[first].seq = from
    BY <1>5, <1>7
  <1>9. first = 1
    <2>1. ~ (1 < first)
      BY <1>3, <1>5, <1>6, <1>8
    <2>. QED
      BY <1>2, <2>1
  <1>10. \A i \in At(rest) : rest[i].seq \in from + 1 .. to - 1
    <2>1. ASSUME NEW i \in At(rest)
          PROVE  rest[i].seq \in from + 1 .. to - 1
      <3>1. 1 < i + 1
        BY <1>1, <1>4
      <3>2. queue[1].seq < queue[i + 1].seq
        BY <1>1, <1>3, <1>5, <3>1
      <3>. QED
        BY <1>1, <1>6, <1>8, <1>9, <3>2
    <2>. QED
      BY <2>1
  <1>11. ASSUME NEW n \in from + 1 .. to - 1
         PROVE  \E i \in At(rest) : rest[i].seq = n
    <2>1. n \in from .. to - 1 /\ n # from
      OBVIOUS
    <2>2. PICK k \in At(queue) : queue[k].seq = n
      BY <1>5, <2>1
    <2>3. k > 1
      BY <1>2, <1>8, <1>9, <2>1, <2>2
    <2>4. k - 1 \in At(rest) /\ k - 1 + 1 = k
      BY <1>2, <2>3
    <2>. QED
      BY <1>1, <2>2, <2>4
  <1>12. {rest[i].seq : i \in At(rest)} = from + 1 .. to - 1
    BY <1>10, <1>11
  <1>13. \A i, j \in At(rest) : i < j => rest[i].seq < rest[j].seq
    <2>1. ASSUME NEW i \in At(rest), NEW j \in At(rest), i < j
          PROVE  rest[i].seq < rest[j].seq
      <3>1. i + 1 < j + 1
        BY <1>1, <2>1
      <3>. QED
        BY <1>1, <1>5, <3>1
    <2>. QED
      BY <2>1
  <1>14. from + 1 <= to
    BY <1>7
  <1>15. Stream(rest, from + 1, to)
    BY <1>12, <1>13, <1>14 DEF Stream, At
  <1>. QED
    BY <1>3, <1>8, <1>9, <1>15 DEF rest

\* a run of frames is a stream,
LEMMA FramesAreStream ==
    ASSUME NEW frames \in Seq(Events), NEW next \in Nat,
           \A i \in 1 .. Len(frames) : IsFrame(frames[i]) /\ frames[i].seq = next + i - 1
    PROVE  Stream(frames, next, next + Len(frames))
  <1>. DEFINE m == Len(frames)
  <1>1. m \in Nat /\ DOMAIN frames = 1 .. m
    BY LenProperties
  <1>2. At(frames) = 1 .. m
    BY <1>1 DEF At
  <1>3. \A i \in 1 .. m : frames[i].seq = next + i - 1
    OBVIOUS
  <1>. HIDE DEF m
  <1>4. \A i \in 1 .. m : frames[i].seq \in next .. (next + m) - 1
    BY <1>1, <1>3
  <1>5. ASSUME NEW k \in next .. (next + m) - 1
        PROVE  \E i \in 1 .. m : frames[i].seq = k
    <2>1. k - next + 1 \in 1 .. m /\ next + (k - next + 1) - 1 = k
      BY <1>1
    <2>. QED
      BY <1>3, <2>1
  <1>6. {frames[i].seq : i \in 1 .. m} = next .. (next + m) - 1
    BY <1>4, <1>5
  <1>7. \A i, j \in 1 .. m : i < j => frames[i].seq < frames[j].seq
    BY <1>1, <1>3
  <1>8. next <= next + m
    BY <1>1
  <1>. QED
    BY <1>2, <1>6, <1>7, <1>8 DEF Stream, At, m

\* so is a queue of notices,
LEMMA NoticesAreStream ==
    ASSUME NEW notices, At(notices) = {}, NEW next \in Nat
    PROVE  Stream(notices, next, next)
  <1>1. next <= next /\ next .. next - 1 = {}
    OBVIOUS
  <1>. QED
    BY <1>1 DEF Stream, At

\* and a stream goes on with the next one.
LEMMA StreamsJoin ==
    ASSUME NEW front \in Seq(Events), NEW back \in Seq(Events),
           NEW from \in Nat, NEW next \in Nat, NEW to \in Nat,
           Stream(front, from, next), Stream(back, next, to)
    PROVE  Stream(front \o back, from, to)
  <1>. DEFINE whole == front \o back
              n == Len(front)
  <1>1. /\ n \in Nat /\ DOMAIN front = 1 .. n /\ DOMAIN back = 1 .. Len(back)
        /\ \A i \in 1 .. n : whole[i] = front[i]
        /\ \A i \in 1 .. Len(back) : whole[n + i] = back[i]
    BY ConcatParts
  <1>2. At(back) \subseteq 1 .. Len(back) /\ At(front) \subseteq 1 .. n
    BY <1>1 DEF At
  <1>3. /\ \A i \in 1 .. n : i \in At(whole) <=> i \in At(front)
        /\ \A i \in 1 .. Len(back) : n + i \in At(whole) <=> i \in At(back)
        /\ \A i \in At(whole) : i \in At(front) \/ \E j \in At(back) : i = n + j
    BY FramesOfConcat
  <1>4. /\ from <= next /\ {front[i].seq : i \in At(front)} = from .. next - 1
        /\ \A i, j \in At(front) : i < j => front[i].seq < front[j].seq
    BY DEF Stream, At
  <1>5. /\ next <= to /\ {back[i].seq : i \in At(back)} = next .. to - 1
        /\ \A i, j \in At(back) : i < j => back[i].seq < back[j].seq
    BY DEF Stream, At
  <1>6. \A i \in At(front) : /\ i \in At(whole) /\ whole[i].seq = front[i].seq
                             /\ whole[i].seq \in from .. next - 1
    BY <1>1, <1>2, <1>3, <1>4
  <1>7. \A j \in At(back) : /\ n + j \in At(whole) /\ whole[n + j].seq = back[j].seq
                            /\ whole[n + j].seq \in next .. to - 1
    BY <1>1, <1>2, <1>3, <1>5
  <1>. HIDE DEF whole, n
  <1>8. \A i \in At(whole) : whole[i].seq \in from .. to - 1
    <2>1. from .. next - 1 \subseteq from .. to - 1 /\ next .. to - 1 \subseteq from .. to - 1
      BY <1>4, <1>5
    <2>. QED
      BY <1>3, <1>6, <1>7, <2>1
  <1>9. ASSUME NEW k \in from .. to - 1
        PROVE  \E i \in At(whole) : whole[i].seq = k
    <2>1. CASE k \in from .. next - 1
      <3>1. PICK i \in At(front) : front[i].seq = k
        BY <1>4, <2>1
      <3>. QED
        BY <1>6, <3>1
    <2>2. CASE k \in next .. to - 1
      <3>1. PICK j \in At(back) : back[j].seq = k
        BY <1>5, <2>2
      <3>. QED
        BY <1>7, <3>1
    <2>. QED
      BY <2>1, <2>2
  <1>10. {whole[i].seq : i \in At(whole)} = from .. to - 1
    BY <1>8, <1>9
  <1>11. ASSUME NEW i \in At(whole), NEW j \in At(whole), i < j
         PROVE  whole[i].seq < whole[j].seq
    <2>1. CASE i \in At(front) /\ j \in At(front)
      BY <1>4, <1>6, <1>11, <2>1
    <2>2. ASSUME i \in At(front), NEW l \in At(back), j = n + l
          PROVE  whole[i].seq < whole[j].seq
      <3>1. whole[i].seq \in from .. next - 1 /\ whole[j].seq \in next .. to - 1
        BY <1>6, <1>7, <2>2
      <3>. QED
        BY <3>1
    <2>3. ASSUME NEW k \in At(back), i = n + k, NEW l \in At(back), j = n + l
          PROVE  whole[i].seq < whole[j].seq
      <3>1. k < l
        BY <1>1, <1>2, <1>11, <2>3
      <3>. QED
        BY <1>5, <1>7, <2>3, <3>1
    <2>4. ASSUME NEW k \in At(back), i = n + k, j \in At(front)
          PROVE  FALSE
      <3>1. j \in 1 .. n /\ k \in 1 .. Len(back)
        BY <1>2, <2>4
      <3>. QED
        BY <1>1, <1>11, <2>4, <3>1
    <2>. QED
      BY <1>3, <2>1, <2>2, <2>3, <2>4
  <1>12. from <= to
    BY <1>4, <1>5
  <1>13. Stream(whole, from, to)
    BY <1>10, <1>11, <1>12 DEF Stream, At
  <1>. QED
    BY <1>13 DEF whole

-----------------------------------------------------------------------------
(* What an engine's output adds to a stream.                               *)

\* From o to p an output side only adds to its queue, and the frames that it adds
\* are of the given types and numbered on from o's next number.
Grown(o, p, types) ==
    \E added \in Seq(Events) :
        /\ p.events = o.events \o added
        /\ Stream(added, o.seq, p.seq)
        /\ \A i \in At(added) : added[i].type \in types

\* (queues may be joined in any order)
LEMMA EventsAssociative ==
    ASSUME NEW a \in Seq(Events), NEW b \in Seq(Events), NEW c \in Seq(Events)
    PROVE  (a \o b) \o c = a \o (b \o c)
  <1>1. \A S : \A s, t, u \in Seq(S) : (s \o t) \o u = s \o (t \o u)
    BY ConcatAssociative
  <1>. QED
    BY <1>1

\* Growing may be done in several steps,
LEMMA GrownOn ==
    ASSUME NEW o \in Outputs, NEW p \in Outputs, NEW q \in Outputs, NEW types,
           Grown(o, p, types), Grown(p, q, types)
    PROVE  Grown(o, q, types)
  <1>1. PICK first \in Seq(Events) :
           /\ p.events = o.events \o first /\ Stream(first, o.seq, p.seq)
           /\ \A i \in At(first) : first[i].type \in types
    BY DEF Grown
  <1>2. PICK then \in Seq(Events) :
           /\ q.events = p.events \o then /\ Stream(then, p.seq, q.seq)
           /\ \A i \in At(then) : then[i].type \in types
    BY DEF Grown
  <1>. DEFINE added == first \o then
  <1>3. o.events \in Seq(Events) /\ o.seq \in Nat /\ p.seq \in Nat /\ q.seq \in Nat
    BY FieldsOfOutput
  <1>4. added \in Seq(Events) /\ q.events = o.events \o added
    <2>1. first \o then \in Seq(Events)
      BY ConcatProperties
    <2>2. (o.events \o first) \o then = o.events \o (first \o then)
      BY <1>3, EventsAssociative
    <2>. QED
      BY <1>1, <1>2, <2>1, <2>2
  <1>5. Stream(added, o.seq, q.seq)
    BY <1>1, <1>2, <1>3, StreamsJoin
  <1>6. \A i \in At(added) : added[i].type \in types
    <2>1. /\ \A i \in 1 .. Len(first) : added[i] = first[i]
          /\ \A i \in 1 .. Len(then) : added[Len(first) + i] = then[i]
          /\ DOMAIN then = 1 .. Len(then)
      BY ConcatParts
    <2>2. /\ At(first) \subseteq 1 .. Len(first)
          /\ \A i \in At(added) : i \in At(first) \/ \E j \in At(then) : i = Len(first) + j
      BY FramesOfConcat
    <2>3. At(then) \subseteq 1 .. Len(then)
      BY <2>1 DEF At
    <2>. HIDE DEF added
    <2>. QED
      BY <1>1, <1>2, <2>1, <2>2, <2>3
  <1>. QED
    BY <1>4, <1>5, <1>6 DEF Grown

\* by none,
LEMMA GrownNot ==
    ASSUME NEW o \in Outputs, NEW p, p.events = o.events, p.seq = o.seq, NEW types
    PROVE  Grown(o, p, types)
  <1>1. o.events \in Seq(Events) /\ o.seq \in Nat
    BY FieldsOfOutput
  <1>2. <<>> \in Seq(Events) /\ At(<<>>) = {} /\ o.events \o <<>> = o.events
    BY <1>1, NoticeFacts, ConcatEmptySeq
  <1>3. Stream(<<>>, o.seq, p.seq)
    BY <1>1, <1>2, NoticesAreStream
  <1>. QED
    BY <1>2, <1>3 DEF Grown

\* by notices,
LEMMA NotifyGrows ==
    ASSUME NEW o \in Outputs, NEW notices \in Seq(Events), At(notices) = {}, NEW types
    PROVE  Grown(o, Notify(o, notices), types)
  <1>1. /\ Notify(o, notices).events = o.events \o notices
        /\ Notify(o, notices).seq = o.seq /\ o.seq \in Nat
    BY FieldsOfOutput, NotifyFacts
  <1>2. Stream(notices, o.seq, Notify(o, notices).seq)
    BY <1>1, NoticesAreStream
  <1>. QED
    BY <1>1, <1>2 DEF Grown

\* by a control frame,
LEMMA ControlGrows ==
    ASSUME NEW o \in Outputs, NEW type \in FrameTypes, NEW types, type \in types
    PROVE  Grown(o, Control(o, type), types)
  <1>. DEFINE frame == Frame(type, NoId, o.seq)
              frames == <<frame>>
  <1>1. /\ Control(o, type).events = Append(o.events, frame) /\ frame \in Frames
        /\ Control(o, type).seq = o.seq + 1
    BY ControlFacts
  <1>2. o.events \in Seq(Events) /\ o.seq \in Nat
    BY FieldsOfOutput
  <1>3. frame \in Events /\ IsFrame(frame) /\ frame.seq = o.seq /\ frame.type = type
    BY <1>1 DEF Events, Frame, IsFrame
  <1>4. /\ frames \in Seq(Events) /\ Len(frames) = 1 /\ frames[1] = frame
        /\ DOMAIN frames = {1}
    BY <1>3
  <1>5. Append(o.events, frame) = o.events \o frames
    BY <1>2, <1>3, AppendIsConcat
  <1>. HIDE DEF frames, frame
  <1>6. \A i \in 1 .. Len(frames) : IsFrame(frames[i]) /\ frames[i].seq = o.seq + i - 1
    BY <1>2, <1>3, <1>4
  <1>7. Stream(frames, o.seq, o.seq + 1)
    BY <1>2, <1>4, <1>6, FramesAreStream
  <1>8. \A i \in At(frames) : frames[i].type \in types
    BY <1>3, <1>4 DEF At
  <1>. QED
    BY <1>1, <1>4, <1>5, <1>7, <1>8 DEF Grown

\* by the frames of a PDU,
LEMMA SentGrows ==
    ASSUME NEW o \in Outputs, NEW id \in Nat, NEW size \in 1 .. MaxReassembly,
           NEW types, "UsbIpData" \in types
    PROVE  Grown(o, Sent(o, id, size), types)
  <1>. DEFINE frames == DataFrames(id, size, o.seq)
  <1>1. /\ Sent(o, id, size).events = o.events \o frames
        /\ Sent(o, id, size).seq = o.seq + FrameCount(size)
    BY SentFacts
  <1>2. o.events \in Seq(Events) /\ o.seq \in Nat /\ size \in Nat \ {0}
    BY FieldsOfOutput
  <1>3. frames \in Seq(Events) /\ Len(frames) = FrameCount(size)
    BY <1>2, DataFramesFacts
  <1>4. \A i \in 1 .. Len(frames) : IsFrame(frames[i]) /\ frames[i].seq = o.seq + i - 1
    BY <1>2, DataFramesNumbers
  <1>5. \A i \in At(frames) : frames[i].type \in types
    <2>1. At(frames) \subseteq 1 .. FrameCount(size)
      <3>1. DOMAIN frames = 1 .. Len(frames)
        BY <1>3, LenProperties
      <3>. QED
        BY <1>3, <3>1 DEF At
    <2>2. \A i \in 1 .. FrameCount(size) : frames[i].type = "UsbIpData"
      BY DEF DataFrames, DataFrame
    <2>. HIDE DEF frames
    <2>. QED
      BY <2>1, <2>2
  <1>. HIDE DEF frames
  <1>6. Stream(frames, o.seq, o.seq + Len(frames))
    BY <1>2, <1>3, <1>4, FramesAreStream
  <1>. QED
    BY <1>1, <1>3, <1>5, <1>6 DEF Grown

\* by those of the replies that are drained,
LEMMA TurnGrows ==
    ASSUME Broker!BrokerTypeOK, NEW o \in Outputs, NEW types, "UsbIpData" \in types
    PROVE  DrainTurn(o) \in Outputs /\ Grown(o, DrainTurn(o), types)
  <1>. DEFINE front == Head(o.replies)
              sent == Sent(o, front.id, front.size)
  <1>1. CASE o.replies = <<>> \/ FrontResult(o) # "Ok"
    BY <1>1, GrownNot DEF DrainTurn
  <1>2. CASE o.replies # <<>> /\ FrontResult(o) = "Ok"
    <2>1. DrainTurn(o) = FrontSent(o)
      BY <1>2 DEF DrainTurn
    <2>2. front.id \in Nat /\ front.size \in Nat
      <3>1. o.replies \in Seq(Replies)
        BY FieldsOfOutput
      <3>2. front \in Replies
        BY <1>2, <3>1, HeadTailProperties
      <3>. QED
        BY <3>2 DEF Replies
    <2>3. SendResult(front.id, front.size, o) = "Ok"
      BY <1>2 DEF FrontResult
    <2>4. front.size \in 1 .. MaxReassembly
      BY <2>2, <2>3, SendOk
    <2>5. front.size <= MaxReassembly
      <3>1. MaxReassembly \in Nat
        BY ConfigAssumption
      <3>. QED
        BY <2>4, <3>1
    <2>6. FrontSent(o) \in Outputs /\ FrontSent(o).events = sent.events
          /\ FrontSent(o).seq = sent.seq
      BY <1>2, <2>5, FrontSentFacts
    <2>7. Grown(o, sent, types)
      BY <2>2, <2>4, SentGrows
    <2>. HIDE DEF sent, front
    <2>. QED
      BY <2>1, <2>6, <2>7 DEF Grown
  <1>. QED
    BY <1>1, <1>2

\* in one turn of the loop and in all,
LEMMA DrainedGrows ==
    ASSUME Broker!BrokerTypeOK, NEW o \in Outputs, NEW types, "UsbIpData" \in types
    PROVE  Drained(o) \in Outputs /\ Grown(o, Drained(o), types)
  <1>. DEFINE S == {p \in Outputs : Grown(o, p, types)}
  <1>1. o \in S
    BY GrownNot
  <1>2. ASSUME NEW p \in S
        PROVE  DrainTurn(p) \in S
    BY <1>2, TurnGrows, GrownOn
  <1>. HIDE DEF S
  <1>3. S \in SUBSET Outputs
    BY DEF S
  <1>4. Drained(o) \in S
    BY <1>1, <1>2, <1>3, DrainLoop
  <1>. QED
    BY <1>4 DEF S

\* and by all that follows a call of the executor.
LEMMA AfterExecutorGrows ==
    ASSUME Broker!BrokerTypeOK, NEW o \in Outputs,
           NEW notices \in Seq(Events), At(notices) = {}, NEW replies \in Seq(UnsentReplies),
           NEW types, "UsbIpData" \in types
    PROVE  /\ AfterExecutor(o, notices, replies) \in Outputs
           /\ Grown(o, AfterExecutor(o, notices, replies), types)
  <1>. DEFINE told == Notify(o, notices)
              queued == Enqueue(told, replies)
  <1>1. told \in Outputs /\ Grown(o, told, types)
    BY NotifyFacts, NotifyGrows
  <1>. HIDE DEF told
  <1>2. queued \in Outputs /\ Grown(told, queued, types)
    BY <1>1, EnqueueFacts, GrownNot
  <1>. HIDE DEF queued
  <1>3. Drained(queued) \in Outputs /\ Grown(queued, Drained(queued), types)
    BY <1>2, DrainedGrows
  <1>4. AfterExecutor(o, notices, replies) = Drained(queued)
    BY DEF AfterExecutor, queued, told
  <1>5. Grown(o, queued, types)
    BY <1>1, <1>2, GrownOn
  <1>. QED
    BY <1>2, <1>3, <1>4, <1>5, GrownOn

-----------------------------------------------------------------------------
(* What a step of the engine adds to its stream.                           *)

\* The types of frame that the engine may queue in a step: the PDUs of a running
\* session, the OPEN_OK with which one begins to run, and the other control frames.
Sayable ==
    IF state = "Running" THEN {"UsbIpData", "Close"}
    ELSE IF state' = "Running" THEN {"OpenOk"}
    ELSE {"Capability", "Open", "OpenReject", "Close"}

\* The frames queued in a step follow on those queued before.
Continues == Grown(Output, Output', Sayable)

\* So it is when the output side grows,
LEMMA OutputContinues ==
    ASSUME NEW o \in Outputs, SetOutput(o), Grown(Output, o, Sayable)
    PROVE  Continues
  <1>1. Output' = o
    BY SetOutputFacts
  <1>. QED
    BY <1>1 DEF Continues

\* when nothing is queued,
LEMMA NothingContinues ==
    ASSUME Inv, UNCHANGED <<events, nextTx>>
    PROVE  Continues
  <1>1. Output \in Outputs
    BY InvFacts
  <1>2. Output'.events = Output.events /\ Output'.seq = Output.seq
    BY DEF Output
  <1>. QED
    BY <1>1, <1>2, GrownNot DEF Continues

\* when the owner is told something,
LEMMA NoticesContinue ==
    ASSUME Inv, NEW notices \in Seq(Events), At(notices) = {},
           SetOutput(Notify(Output, notices))
    PROVE  Continues
  BY InvFacts, NotifyFacts, NotifyGrows, OutputContinues

\* and when the executor's replies are queued and drained.
LEMMA RepliesContinue ==
    ASSUME Inv, state = "Running", NEW notices \in Seq(Events), At(notices) = {},
           NEW replies \in Seq(UnsentReplies),
           SetOutput(AfterExecutor(Output, notices, replies))
    PROVE  Continues
  <1>1. "UsbIpData" \in Sayable
    BY DEF Sayable
  <1>. QED
    BY <1>1, InvFacts, AfterExecutorGrows, OutputContinues

\* A control frame of the opening,
LEMMA SendControlContinues ==
    ASSUME Inv, NEW role, NEW from, NEW type \in FrameTypes, NEW to,
           NEW notices \in Seq(Events), At(notices) = {},
           SendControl(role, from, type, to, notices), type \in Sayable
    PROVE  Continues
  <1>. DEFINE said == Control(Output, type)
              told == Notify(said, notices)
  <1>1. said \in Outputs /\ Grown(Output, said, Sayable)
    BY InvFacts, ControlFacts, ControlGrows
  <1>2. SetOutput(told)
    BY DEF SendControl
  <1>. HIDE DEF said
  <1>3. told \in Outputs /\ Grown(said, told, Sayable)
    BY <1>1, NotifyFacts, NotifyGrows
  <1>. HIDE DEF told
  <1>4. Output \in Outputs
    BY InvFacts
  <1>. QED
    BY <1>1, <1>2, <1>3, <1>4, GrownOn, OutputContinues

\* the CLOSE,
LEMMA TerminateContinues ==
    ASSUME Inv, NEW o \in Outputs, Grown(Output, o, Sayable), Terminate(o)
    PROVE  Continues
  <1>. DEFINE said == Control(o, "Close")
              told == Notify(Emptied(said), <<Event("Closed")>>)
  <1>0. "Close" \in Sayable /\ Output \in Outputs
    BY InvFacts DEF Sayable, Terminate
  <1>1. said \in Outputs /\ Grown(o, said, Sayable)
    BY <1>0, ControlFacts, ControlGrows DEF FrameTypes
  <1>2. SetOutput(told)
    BY DEF Terminate, Emptied
  <1>. HIDE DEF said
  <1>3. Emptied(said) \in Outputs /\ Grown(said, Emptied(said), Sayable)
    <2>1. /\ Emptied(said) \in Outputs
          /\ Emptied(said).events = said.events /\ Emptied(said).seq = said.seq
      BY <1>1 DEF Emptied, Outputs
    <2>. QED
      BY <1>1, <2>1, GrownNot
  <1>4. told \in Outputs /\ Grown(Emptied(said), told, Sayable)
    BY <1>3, NoticeFacts, NotifyFacts, NotifyGrows DEF NoticeKinds
  <1>. HIDE DEF told
  <1>5. Grown(o, Emptied(said), Sayable)
    BY <1>1, <1>3, GrownOn
  <1>6. Grown(o, told, Sayable)
    BY <1>3, <1>4, <1>5, GrownOn
  <1>7. Grown(Output, told, Sayable)
    BY <1>0, <1>4, <1>6, GrownOn
  <1>. QED
    BY <1>2, <1>4, <1>7, OutputContinues

\* the frames of a PDU,
LEMMA SendPduContinues ==
    ASSUME Inv, NEW id \in OwnPduIds, NEW size \in Nat, SendPdu(id, size)
    PROVE  Continues
  <1>1. SendResult(id, size, Output) = "Ok" /\ SetOutput(Sent(Output, id, size))
    BY DEF SendPdu
  <1>2. id \in Nat
    BY ConfigAssumption
  <1>3. size \in 1 .. MaxReassembly
    BY <1>1, <1>2, InvFacts, SendOk
  <1>4. "UsbIpData" \in Sayable
    BY <1>1 DEF SendResult, Sayable
  <1>. QED
    BY <1>1, <1>2, <1>3, <1>4, InvFacts, SentFacts, SentGrows, OutputContinues

\* and the replies that an acknowledgement lets go continue the stream;
LEMMA AckContinues ==
    ASSUME Inv, NEW id \in DOMAIN outputReservations, AckOutput(id)
    PROVE  Continues
  <1>. DEFINE size == outputReservations[id]
              rest == [Output EXCEPT !.reservations = Executor!Remove(@, {id})]
              free == [rest EXCEPT !.bytes = @ - size, !.pdus = @ - 1]
              o == IF Broker!CanConsume(size, txBytes, txPdus) THEN Drained(free) ELSE rest
  <1>1. SetOutput(o)
    BY DEF AckOutput
  <1>2. /\ Broker!CanConsume(size, txBytes, txPdus) <=> brokerState = "Established"
        /\ brokerState # "Established" => Sound(rest, Due)
        /\ brokerState = "Established" => Sound(free, Due)
    BY AckSound
  <1>3. Output \in Outputs
    BY InvFacts
  <1>4. Grown(Output, rest, Sayable) /\ Grown(Output, free, Sayable)
    <2>1. rest.events = Output.events /\ rest.seq = Output.seq
      BY DEF Output
    <2>2. free.events = rest.events /\ free.seq = rest.seq
      BY DEF Output
    <2>. HIDE DEF free, rest
    <2>. QED
      BY <1>3, <2>1, <2>2, GrownNot
  <1>. HIDE DEF free, rest
  <1>5. CASE brokerState = "Established"
    <2>1. free \in Outputs /\ o = Drained(free)
      BY <1>2, <1>5 DEF Sound
    <2>2. CASE state = "Running"
      <3>1. "UsbIpData" \in Sayable
        BY <2>2 DEF Sayable
      <3>2. o \in Outputs /\ Grown(free, o, Sayable)
        BY <2>1, <3>1, InvFacts, DrainedGrows
      <3>. HIDE DEF o
      <3>. QED
        BY <1>1, <1>3, <1>4, <2>1, <3>2, GrownOn, OutputContinues
    <2>3. CASE state # "Running"
      <3>1. o = free
        BY <2>1, <2>3, DrainedNone
      <3>. HIDE DEF o
      <3>. QED
        BY <1>1, <1>4, <2>1, <3>1, OutputContinues
    <2>. QED
      BY <2>2, <2>3
  <1>6. CASE brokerState # "Established"
    <2>1. rest \in Outputs /\ o = rest
      BY <1>2, <1>6 DEF Sound
    <2>. HIDE DEF o
    <2>. QED
      BY <1>1, <1>4, <2>1, OutputContinues
  <1>. QED
    BY <1>5, <1>6

\* so do the answers of a session that is closed,
LEMMA CloseContinues ==
    ASSUME Inv, NEW order \in Executor!Orders(Executor!FoundTokens), CloseRunning(order)
    PROVE  Continues
  <1>. DEFINE raw == FlattenSeq([i \in DOMAIN order |-> Executor!CloseReplies(order[i])])
              replies == Sized(raw, HeaderSize)
              o == AfterExecutor(Output, <<>>, replies)
  <1>1. /\ Executor!CloseExecutor(order) /\ (SetOutput(o) \/ Terminate(o))
        /\ state = "Running"
    BY DEF CloseRunning
  <1>2. Executor!FoundTokens = LiveTokens /\ IsFiniteSet(LiveTokens)
    BY <1>1, InvFacts, CloseRequests
  <1>3. replies \in Seq(UnsentReplies)
    BY <1>2, InvFacts, CloseAnswers
  <1>4. "UsbIpData" \in Sayable
    BY <1>1 DEF Sayable
  <1>. HIDE DEF replies, raw
  <1>5. o \in Outputs /\ Grown(Output, o, Sayable)
    BY <1>3, <1>4, InvFacts, NoticeFacts, AfterExecutorGrows
  <1>. HIDE DEF o
  <1>. QED
    BY <1>1, <1>5, OutputContinues, TerminateContinues

\* and every other call of the owner.
LEMMA OwnerCallContinues ==
    ASSUME Inv, OwnerCall
    PROVE  Continues
  <1>1. {"Capability", "Open", "OpenOk", "OpenReject"} \subseteq FrameTypes
    BY DEF FrameTypes
  <1>2. \A kind \in {"OutputHello", "Opened"} :
           <<Event(kind)>> \in Seq(Events) /\ At(<<Event(kind)>>) = {}
    BY NoticeFacts DEF NoticeKinds
  <1>3. CASE Start
    BY <1>2, <1>3, NoticesContinue DEF Start
  <1>4. CASE SendCapability
    <2>1. "Capability" \in Sayable
      BY <1>4 DEF SendCapability, SendControl, Sayable
    <2>. QED
      BY <1>1, <1>4, <2>1, NoticeFacts, SendControlContinues DEF SendCapability
  <1>5. CASE SendOpen
    <2>1. "Open" \in Sayable
      BY <1>5 DEF SendOpen, SendControl, Sayable
    <2>. QED
      BY <1>1, <1>5, <2>1, NoticeFacts, SendControlContinues DEF SendOpen
  <1>6. CASE SendOpenOk
    <2>1. "OpenOk" \in Sayable
      BY <1>6 DEF SendOpenOk, SendControl, Sayable
    <2>. QED
      BY <1>1, <1>2, <1>6, <2>1, SendControlContinues DEF SendOpenOk
  <1>7. CASE SendOpenReject
    <2>1. "OpenReject" \in Sayable
      BY <1>7 DEF SendOpenReject, SendControl, Sayable
    <2>. QED
      BY <1>1, <1>7, <2>1, NoticeFacts, SendControlContinues DEF SendOpenReject
  <1>8. CASE \E id \in DOMAIN outputReservations : AckOutput(id)
    BY <1>8, AckContinues
  <1>9. CASE \E order \in Executor!Orders(Executor!FoundTokens) : CloseRunning(order)
    BY <1>9, CloseContinues
  <1>10. Output \in Outputs /\ Grown(Output, Output, Sayable)
    BY InvFacts, GrownNot
  <1>11. CASE CloseUnopened
    <2>1. Terminate(Output)
      BY <1>11 DEF CloseUnopened
    <2>. QED
      BY <1>10, <2>1, TerminateContinues
  <1>12. CASE CloseRefused
    <2>1. SetOutput(Control(Output, "Close"))
      BY <1>12 DEF CloseRefused
    <2>2. "Close" \in Sayable
      BY <1>12 DEF CloseRefused, Sayable
    <2>. QED
      BY <1>10, <2>1, <2>2, ControlFacts, ControlGrows, OutputContinues DEF FrameTypes
  <1>. QED
    BY <1>3, <1>4, <1>5, <1>6, <1>7, <1>8, <1>9, <1>11, <1>12 DEF OwnerCall

\* The platform's completions continue the stream with their replies.
LEMMA PlatformContinues ==
    ASSUME Inv, PlatformStep
    PROVE  Continues
  <1>1. ASSUME NEW replies \in Seq(UnsentReplies), PlatformCall(replies)
        PROVE  Continues
    <2>1. SetOutput(AfterExecutor(Output, <<>>, replies)) /\ state = "Running"
      BY <1>1 DEF PlatformCall
    <2>. QED
      BY <1>1, <2>1, NoticeFacts, RepliesContinue
  <1>2. HeaderSize \in Nat \ {0} /\ MaxTransferSize \in Nat
    BY ConfigAssumption
  <1>3. ASSUME NEW t \in LiveTokens, NEW actual \in Executor!ByteCounts, Complete(t, actual)
        PROVE  Continues
    <2>1. actual \in Nat
      BY <1>2 DEF Executor!ByteCounts
    <2>2. Executor!SubmitReplySize(t, actual) \in Nat \ {0}
      BY <1>2, <2>1 DEF Executor!SubmitReplySize
    <2>3. PlatformCall(Sized(Executor!RepliesOf(t), Executor!SubmitReplySize(t, actual)))
      BY <1>3 DEF Complete, Executor!CompletionReplies
    <2>. QED
      BY <1>1, <2>2, <2>3, InvFacts, TokenAnswers
  <1>4. ASSUME NEW t \in LiveTokens, CompleteCancel(t)
        PROVE  Continues
    <2>1. Executor!Request(t).unlink # Executor!NoUnlink
      BY <1>4 DEF CompleteCancel, Executor!CompleteCancel, Executor!CanCancel
    <2>2. Executor!CancelReplies(t) = Executor!RepliesOf(t)
      BY <2>1 DEF Executor!CancelReplies, Executor!RepliesOf
    <2>3. PlatformCall(Sized(Executor!RepliesOf(t), HeaderSize))
      BY <1>4, <2>2 DEF CompleteCancel
    <2>. QED
      BY <1>1, <1>2, <2>3, InvFacts, TokenAnswers
  <1>5. ASSUME NEW t, CompleteLate(t)
        PROVE  Continues
    <2>1. PlatformCall(<<>>)
      BY <1>5 DEF CompleteLate
    <2>. QED
      BY <1>1, <2>1, NoAnswers
  <1>. QED
    BY <1>3, <1>4, <1>5 DEF PlatformStep, LiveTokens

-----------------------------------------------------------------------------
(* The messages of the peer.                                               *)


\* The content of a PDU that is handled has the type of its kind.
LEMMA HandledPdu ==
    ASSUME NEW id \in DOMAIN PeerPdus
    PROVE  LET pdu == PeerPdus[id]
           IN  /\ pdu.kind = "Submit" => pdu.request \in Executor!SubmitRequest
               /\ pdu.kind = "Unlink" => pdu.unlink \in SeqNums /\ pdu.target \in SeqNums
               /\ pdu.kind = "Opaque" => pdu.size \in Nat
  <1>1. PeerPdus[id] \in Pdus
    BY EndpointAssumption
  <1>. QED
    BY <1>1 DEF Pdus

\* A HELLO of the peer, and whatever is read as one, keeps the invariant,
LEMMA AcceptHelloMessageInv ==
    ASSUME Inv, NEW m, AcceptHelloMessage(m)
    PROVE  Inv'
  <1>1. /\ PeerHello.maxPdu \in Nat /\ PeerHello.maxInflight \in Nat
        /\ Garbage.maxPdu \in Nat /\ Garbage.maxInflight \in Nat
    BY EndpointAssumption DEF Garbage
  <1>2. AcceptHello(PeerHello) \/ AcceptHello(Garbage) \/ UNCHANGED vars
    BY DEF AcceptHelloMessage
  <1>. QED
    BY <1>1, <1>2, AcceptHelloInv, StutterInv

\* so does a frame that is taken,
LEMMA TakeFrameInv ==
    ASSUME Inv, NEW m, Expects(m), TakeFrame(m)
    PROVE  Inv'
  <1>. DEFINE f == FragmentOf(m)
  <1>1. CASE ReceiveCapability \/ ReceiveOpen \/ ReceiveOpenOk \/ ReceiveOpenReject
    BY <1>1, OpeningInv
  <1>2. CASE ReceiveClose
    BY <1>2, ReceiveCloseInv
  <1>3. CASE ReceiveFragment(f)
    BY <1>3, ReceiveFragmentInv
  <1>4. CASE m.type = "UsbIpData" /\ ~m.more /\ HandlePdu(f)
    <2>1. TakesFragment(f) /\ ~f.more
      BY <1>4 DEF Expects, FragmentOf
    <2>2. f.id \in DOMAIN PeerPdus
      BY <2>1 DEF TakesFragment, Handles
    <2>. DEFINE pdu == PeerPdus[f.id]
    <2>3. CASE pdu.kind = "Opaque" /\ ReceiveOpaque(f, f.total)
      BY <2>3, ReceiveOpaqueInv
    <2>4. CASE pdu.kind = "Submit" /\ ReceiveSubmit(f, pdu.request)
      BY <2>2, <2>4, HandledPdu, ReceiveSubmitInv
    <2>5. CASE pdu.kind = "Unlink" /\ (\/ ReceiveUnlink(f, pdu.unlink, pdu.target)
                                       \/ ReceiveUnlinkOfUnknown(f, pdu.unlink, pdu.target))
      BY <2>2, <2>5, HandledPdu, ReceiveUnlinkInv, ReceiveUnlinkOfUnknownInv
    <2>. QED
      BY <1>4, <2>3, <2>4, <2>5 DEF HandlePdu
  <1>. QED
    BY <1>1, <1>2, <1>3, <1>4 DEF TakeFrame

\* and so does every message (accept_hello and accept_frame).
LEMMA AcceptMessageInv ==
    ASSUME Inv, NEW m, AcceptMessage(m)
    PROVE  Inv'
  <1>1. CASE AcceptHelloMessage(m)
    BY <1>1, AcceptHelloMessageInv
  <1>2. CASE Expects(m) /\ TakeFrame(m)
    BY <1>2, TakeFrameInv
  <1>3. CASE RefuseFrame \/ RejectFrame
    BY <1>3, FailInv DEF RefuseFrame, RejectFrame
  <1>. QED
    BY <1>1, <1>2, <1>3 DEF AcceptMessage, AcceptFrame

\* A call of the owner that opens or closes the session, or acknowledges.
LEMMA OwnerCallInv ==
    ASSUME Inv, OwnerCall
    PROVE  Inv'
  BY OwnerInv DEF OwnerStep

\* A session that has ended takes no message.
LEMMA EndedTakesNothing ==
    ASSUME state \in {"Closed", "Failed"}, NEW m, AcceptMessage(m)
    PROVE  RejectFrame
  <1>1. ~ InSequence(m)
    BY DEF InSequence, Receiving
  <1>. QED
    BY <1>1 DEF AcceptMessage, AcceptHelloMessage, AcceptFrame

-----------------------------------------------------------------------------
(* The frames the engine has still to take.                                *)

\* The session takes messages, or may still do so after the handshake.
Expecting ==
    \/ state \in {"New", "AwaitHello"} /\ Broker!AwaitsHello
    \/ Receiving

\* After a message the session expects more only if it was expecting this one;
\* only a frame counts, and it has been taken.
Took(m) ==
    Expecting' => /\ Expecting
                  /\ nextRx' = IF IsFrame(m) THEN nextRx + 1 ELSE nextRx
                  /\ IsFrame(m) => InSequence(m) /\ Expects(m)

\* After any other step it expects what it expected before.
Awaits == Expecting' => Expecting /\ nextRx' = nextRx

\* The HELLO,
LEMMA HelloTaken ==
    ASSUME Inv, NEW m, AcceptHelloMessage(m)
    PROVE  Took(m) /\ Continues
  <1>. DEFINE h == IF m.kind = "OutputHello" THEN PeerHello ELSE Garbage
  <1>1. CASE ~ Broker!AwaitsHello
    <2>1. UNCHANGED vars /\ state = "AwaitHello"
      BY <1>1 DEF AcceptHelloMessage
    <2>2. UNCHANGED <<state, brokerState, nonceConsumed, nextRx, events, nextTx>>
      BY <2>1 DEF vars, brokerVars, handshakeVars, queueVars
    <2>3. ~ Expecting'
      BY <1>1, <2>1, <2>2 DEF Expecting, Broker!AwaitsHello, Receiving
    <2>. QED
      BY <2>2, <2>3, NothingContinues DEF Took
  <1>2. CASE Broker!AwaitsHello
    <2>1. AcceptHello(h) /\ state = "AwaitHello"
      BY <1>2 DEF AcceptHelloMessage
    <2>2. UNCHANGED <<nextRx, events, nextTx>>
      BY <2>1 DEF AcceptHello
    <2>3. Expecting
      BY <1>2, <2>1 DEF Expecting
    <2>4. CASE ~ Broker!ValidHello(h)
      <3>1. state' = "AwaitHello" /\ brokerState' = "Failed"
        BY <2>1, <2>4 DEF AcceptHello, Broker!AcceptHello
      <3>2. ~ Expecting'
        BY <3>1 DEF Expecting, Broker!AwaitsHello, Receiving
      <3>. QED
        BY <2>2, <3>2, NothingContinues DEF Took
    <2>5. CASE Broker!ValidHello(h)
      <3>1. h.decodes
        BY <2>5 DEF Broker!ValidHello
      <3>2. ~ Garbage.decodes
        <4>1. PeerHello \in [decodes : BOOLEAN, identity : BOOLEAN,
                             maxPdu : Nat, maxInflight : Nat]
          BY EndpointAssumption
        <4>. QED
          BY <4>1 DEF Garbage
      <3>3. m.kind = "OutputHello"
        BY <3>1, <3>2
      <3>4. ~ IsFrame(m)
        BY <3>3 DEF IsFrame
      <3>. QED
        BY <2>2, <2>3, <3>4, NothingContinues DEF Took
    <2>. QED
      BY <2>4, <2>5
  <1>. QED
    BY <1>1, <1>2

\* a frame that is taken,
LEMMA FrameTaken ==
    ASSUME Inv, NEW m, Expects(m), TakeFrame(m)
    PROVE  Receiving /\ nextRx' = nextRx + 1 /\ Continues
  <1>. DEFINE f == FragmentOf(m)
  <1>1. \A kind \in {"Capability", "Open", "Opened", "OpenRejected", "OpaquePdu"} :
           <<Event(kind)>> \in Seq(Events) /\ At(<<Event(kind)>>) = {}
    BY NoticeFacts DEF NoticeKinds
  <1>2. ASSUME NEW role, NEW from, NEW to,
               NEW kind \in {"Capability", "Open", "Opened", "OpenRejected"},
               ReceiveControl(role, from, to, <<Event(kind)>>)
        PROVE  Receiving /\ nextRx' = nextRx + 1 /\ Continues
    BY <1>1, <1>2, NoticesContinue DEF ReceiveControl
  <1>3. CASE ReceiveCapability \/ ReceiveOpen \/ ReceiveOpenOk \/ ReceiveOpenReject
    BY <1>2, <1>3 DEF ReceiveCapability, ReceiveOpen, ReceiveOpenOk, ReceiveOpenReject
  <1>4. CASE ReceiveClose
    <2>1. Receiving /\ nextRx' = nextRx + 1 /\ nextTx' = nextTx
          /\ events' = Append(events, Event("Closed"))
      BY <1>4 DEF ReceiveClose
    <2>2. Event("Closed") \in Events
      BY DEF Events, Notices, NoticeKinds, Event
    <2>3. events \in Seq(Events)
      BY InvFacts, OutputNow, FieldsOfOutput
    <2>4. Output \in Outputs /\ <<Event("Closed")>> \in Seq(Events)
          /\ At(<<Event("Closed")>>) = {}
      BY InvFacts, NoticeFacts DEF NoticeKinds
    <2>5. Output'.events = events \o <<Event("Closed")>> /\ Output'.seq = nextTx
      BY <2>1, <2>2, <2>3, AppendIsConcat DEF Output
    <2>. DEFINE told == Notify(Output, <<Event("Closed")>>)
    <2>6. told.events = events \o <<Event("Closed")>> /\ told.seq = nextTx
      BY <2>4, NotifyFacts, OutputNow
    <2>7. Grown(Output, told, Sayable)
      BY <2>4, NotifyGrows
    <2>. HIDE DEF told
    <2>. QED
      BY <2>1, <2>5, <2>6, <2>7 DEF Continues, Grown
  <1>5. CASE ReceiveFragment(f)
    <2>1. Receiving /\ nextRx' = nextRx + 1 /\ UNCHANGED <<events, nextTx>>
      BY <1>5 DEF ReceiveFragment, queueVars
    <2>. QED
      BY <2>1, NothingContinues
  <1>6. ASSUME NEW size, NEW notices \in Seq(Events), At(notices) = {},
               NEW replies \in Seq(UnsentReplies), ReceiveRequest(f, size, notices, replies)
        PROVE  Receiving /\ nextRx' = nextRx + 1 /\ Continues
    <2>1. /\ Receiving /\ nextRx' = nextRx + 1 /\ state = "Running"
          /\ SetOutput(AfterExecutor(Output, notices, replies))
      BY <1>6 DEF ReceiveRequest, ReceivePdu
    <2>. QED
      BY <1>6, <2>1, RepliesContinue
  <1>7. CASE m.type = "UsbIpData" /\ ~m.more /\ HandlePdu(f)
    <2>1. TakesFragment(f) /\ ~f.more
      BY <1>7 DEF Expects, FragmentOf
    <2>2. f.id \in DOMAIN PeerPdus
      BY <2>1 DEF TakesFragment, Handles
    <2>. DEFINE pdu == PeerPdus[f.id]
    <2>3. CASE pdu.kind = "Opaque" /\ ReceiveOpaque(f, f.total)
      <3>1. /\ Receiving /\ nextRx' = nextRx + 1
            /\ SetOutput(Notify(Output, <<Event("OpaquePdu")>>))
        BY <2>3 DEF ReceiveOpaque, ReceivePdu
      <3>. QED
        BY <1>1, <3>1, NoticesContinue
    <2>4. CASE pdu.kind = "Submit" /\ ReceiveSubmit(f, pdu.request)
      <3>. DEFINE notices == <<TokenEvent("Submit", nextToken)>>
      <3>1. MaxToken \in Nat
        BY ConfigAssumption
      <3>2. nextToken \in 1 .. MaxToken
        BY InvFacts DEF Requests
      <3>3. nextToken \in Nat
        BY <3>1, <3>2
      <3>4. notices \in Seq(Events) /\ At(notices) = {}
        BY <3>3, NoticeFacts DEF NoticeKinds
      <3>5. ReceiveRequest(f, SubmitSize(pdu.request), notices, <<>>)
        BY <2>4 DEF ReceiveSubmit
      <3>. HIDE DEF notices
      <3>. QED
        BY <1>6, <3>4, <3>5, NoAnswers
    <2>5. CASE pdu.kind = "Unlink" /\ ReceiveUnlink(f, pdu.unlink, pdu.target)
      <3>. DEFINE token == pendingBySequence[pdu.target].token
                  notices == <<TokenEvent("Cancel", token)>>
      <3>1. /\ ReceiveRequest(f, HeaderSize, notices, <<>>)
            /\ Executor!AcceptUnlink(pdu.unlink, pdu.target)
        BY <2>5 DEF ReceiveUnlink
      <3>2. pdu.unlink \in SeqNums /\ pdu.target \in SeqNums
        BY <2>2, <2>5, HandledPdu
      <3>. HIDE DEF pdu
      <3>3. token \in Nat
        BY <3>1, <3>2, InvFacts, UnlinkRequests
      <3>. HIDE DEF token
      <3>4. notices \in Seq(Events) /\ At(notices) = {}
        BY <3>3, NoticeFacts DEF NoticeKinds
      <3>. HIDE DEF notices
      <3>. QED
        BY <1>6, <3>1, <3>4, NoAnswers
    <2>6. CASE pdu.kind = "Unlink" /\ ReceiveUnlinkOfUnknown(f, pdu.unlink, pdu.target)
      <3>. DEFINE replies == Sized(<<Executor!NoEntryReply(pdu.unlink)>>, HeaderSize)
      <3>1. ReceiveRequest(f, HeaderSize, <<>>, replies)
        BY <2>6 DEF ReceiveUnlinkOfUnknown
      <3>2. pdu.unlink \in SeqNums
        BY <2>2, <2>6, HandledPdu
      <3>3. replies \in Seq(UnsentReplies)
        BY <3>2, NoAnswers
      <3>. HIDE DEF replies
      <3>. QED
        BY <1>6, <3>1, <3>3, NoticeFacts
    <2>. QED
      BY <1>7, <2>3, <2>4, <2>5, <2>6 DEF HandlePdu
  <1>. QED
    BY <1>3, <1>4, <1>5, <1>7 DEF TakeFrame

\* and so every message.
LEMMA MessageTaken ==
    ASSUME Inv, NEW m, AcceptMessage(m)
    PROVE  Took(m) /\ Continues
  <1>1. CASE AcceptHelloMessage(m)
    BY <1>1, HelloTaken
  <1>2. CASE InSequence(m) /\ Expects(m) /\ TakeFrame(m)
    <2>1. IsFrame(m)
      BY <1>2 DEF InSequence
    <2>. QED
      BY <1>2, <2>1, FrameTaken DEF Took, Expecting
  <1>3. CASE RefuseFrame \/ RejectFrame
    <2>1. state' = "Failed" /\ UNCHANGED <<events, nextTx>>
      BY <1>3 DEF RefuseFrame, RejectFrame, Fail, queueVars
    <2>2. ~ Expecting'
      BY <2>1 DEF Expecting, Receiving
    <2>. QED
      BY <2>1, <2>2, NothingContinues DEF Took
  <1>. QED
    BY <1>1, <1>2, <1>3 DEF AcceptMessage, AcceptFrame

\* The session expects nothing new when its state and its broker stay, or when
\* it leaves the states in which it takes messages.
LEMMA StaysAwaiting ==
    ASSUME nextRx' = nextRx,
           \/ UNCHANGED <<state, brokerState, nonceConsumed>>
           \/ state' \in {"Closing", "Closed", "Failed"}
           \/ Receiving /\ state' # "New" /\ state' # "AwaitHello"
    PROVE  Awaits
  BY DEF Awaits, Expecting, Receiving, Broker!AwaitsHello

\* The calls of the owner make it expect no more,
LEMMA OwnerCallAwaits ==
    ASSUME OwnerCall
    PROVE  Awaits
  <1>1. CASE Start
    <2>1. state = "New" /\ state' = "AwaitHello" /\ nextRx' = nextRx /\ brokerState = "New"
          /\ nonceConsumed' = nonceConsumed
      BY <1>1 DEF Start, Broker!MarkHelloSent
    <2>. QED
      BY <2>1 DEF Awaits, Expecting, Receiving, Broker!AwaitsHello
  <1>2. ASSUME NEW role, NEW from \in {"AwaitCapability", "AwaitOpen", "AwaitOpenReply"},
               NEW type, NEW to \in {"AwaitOpen", "AwaitOpenReply", "Running", "Closed"},
               NEW notices, SendControl(role, from, type, to, notices)
        PROVE  Awaits
    <2>1. state = from /\ state' = to /\ nextRx' = nextRx /\ brokerState' = brokerState
      BY <1>2 DEF SendControl, handshakeVars
    <2>. QED
      BY <2>1 DEF Awaits, Expecting, Receiving
  <1>3. CASE SendCapability \/ SendOpen \/ SendOpenOk \/ SendOpenReject
    BY <1>2, <1>3 DEF SendCapability, SendOpen, SendOpenOk, SendOpenReject
  <1>4. CASE \E id \in DOMAIN outputReservations : AckOutput(id)
    BY <1>4, StaysAwaiting DEF AckOutput, handshakeVars
  <1>5. ASSUME NEW o, Terminate(o)
        PROVE  Awaits
    <2>1. state' = "Closed" /\ nextRx' = nextRx
      BY <1>5 DEF Terminate
    <2>. QED
      BY <2>1, StaysAwaiting
  <1>6. CASE \E order \in Executor!Orders(Executor!FoundTokens) : CloseRunning(order)
    BY <1>5, <1>6, StaysAwaiting DEF CloseRunning, handshakeVars
  <1>7. CASE CloseUnopened
    BY <1>5, <1>7 DEF CloseUnopened
  <1>8. CASE CloseRefused
    BY <1>8, StaysAwaiting DEF CloseRefused
  <1>. QED
    BY <1>1, <1>3, <1>4, <1>6, <1>7, <1>8 DEF OwnerCall

\* nor do the other calls.
LEMMA OtherCallsAwait ==
    /\ PlatformStep => Awaits
    /\ \A id, size : SendPdu(id, size) => Awaits
    /\ NextEvent => Awaits
  <1>1. ASSUME NEW replies, PlatformCall(replies)
        PROVE  Awaits
    BY <1>1, StaysAwaiting DEF PlatformCall, handshakeVars
  <1>2. PlatformStep => Awaits
    BY <1>1 DEF PlatformStep, Complete, CompleteCancel, CompleteLate
  <1>3. ASSUME NEW id, NEW size, SendPdu(id, size)
        PROVE  Awaits
    BY <1>3, StaysAwaiting DEF SendPdu, handshakeVars
  <1>4. NextEvent => Awaits
    BY StaysAwaiting DEF NextEvent, brokerVars, handshakeVars
  <1>. QED
    BY <1>2, <1>3, <1>4

-----------------------------------------------------------------------------
(* The course of a session.                                                *)

\* A running session goes on or ends, and an ended one stays so.
Moves ==
    /\ state = "Running" => state' \in {"Running", "Closed", "Failed"}
    /\ state \in {"Closing", "Closed", "Failed"} => state' \in {"Closing", "Closed", "Failed"}

\* A session begins to run.
Begins == state # "Running" /\ state' = "Running"

\* By a call of its owner only that of an exporter begins to run;
LEMMA OwnerCallMoves ==
    ASSUME OwnerCall
    PROVE  Moves /\ (Begins => Role = "Exporter")
  <1>1. CASE Start \/ SendCapability \/ SendOpen \/ SendOpenOk \/ SendOpenReject
    BY <1>1 DEF Start, SendCapability, SendOpen, SendOpenOk, SendOpenReject, SendControl,
                Moves, Begins
  <1>2. CASE \E id \in DOMAIN outputReservations : AckOutput(id)
    BY <1>2 DEF AckOutput, Moves, Begins
  <1>3. CASE \E order \in Executor!Orders(Executor!FoundTokens) : CloseRunning(order)
    BY <1>3 DEF CloseRunning, Terminate, Moves, Begins
  <1>4. CASE CloseUnopened \/ CloseRefused
    BY <1>4 DEF CloseUnopened, CloseRefused, Terminate, Moves, Begins
  <1>. QED
    BY <1>1, <1>2, <1>3, <1>4 DEF OwnerCall

\* the other calls change nothing of it;
LEMMA OtherCallsStay ==
    /\ PlatformStep => state' = state
    /\ \A id, size : SendPdu(id, size) => state' = state
    /\ NextEvent => state' = state
  BY DEF PlatformStep, Complete, CompleteCancel, CompleteLate, PlatformCall, SendPdu, NextEvent

\* and by a message only an importer's session begins to run, when OPEN_OK comes.
LEMMA MessageMoves ==
    ASSUME NEW m, AcceptMessage(m)
    PROVE  /\ Moves
           /\ Begins => /\ Role = "Importer" /\ Receiving
                        /\ IsFrame(m) /\ m.type = "OpenOk"
  <1>1. CASE AcceptHelloMessage(m)
    <2>1. state = "AwaitHello" /\ state' # "Running"
      BY <1>1 DEF AcceptHelloMessage, AcceptHello, vars
    <2>. QED
      BY <2>1 DEF Moves, Begins
  <1>2. CASE RefuseFrame \/ RejectFrame
    BY <1>2 DEF RefuseFrame, RejectFrame, Fail, Moves, Begins
  <1>3. CASE InSequence(m) /\ Expects(m) /\ TakeFrame(m)
    <2>1. IsFrame(m) /\ Receiving
      BY <1>3 DEF InSequence
    <2>2. CASE m.type = "OpenOk" /\ ReceiveOpenOk
      BY <2>1, <2>2 DEF ReceiveOpenOk, ReceiveControl, Moves, Begins
    <2>3. CASE ReceiveCapability \/ ReceiveOpen \/ ReceiveOpenReject \/ ReceiveClose
      BY <2>1, <2>3 DEF ReceiveCapability, ReceiveOpen, ReceiveOpenReject, ReceiveControl,
                        ReceiveClose, Receiving, Moves, Begins
    <2>4. CASE ReceiveFragment(FragmentOf(m))
      BY <2>4 DEF ReceiveFragment, Moves, Begins
    <2>5. CASE HandlePdu(FragmentOf(m))
      <3>1. state = "Running" /\ state' \in {"Running", "Failed"}
        BY <2>5 DEF HandlePdu, ReceiveOpaque, ReceiveSubmit, ReceiveUnlink,
                    ReceiveUnlinkOfUnknown, ReceiveRequest, ReceivePdu
      <3>. QED
        BY <3>1 DEF Moves, Begins
    <2>. QED
      BY <1>3, <2>2, <2>3, <2>4, <2>5 DEF TakeFrame
  <1>. QED
    BY <1>1, <1>2, <1>3 DEF AcceptMessage, AcceptFrame

=============================================================================
