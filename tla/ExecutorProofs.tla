--------------------------- MODULE ExecutorProofs ---------------------------
(***************************************************************************)
(* Proofs about the executor and its history: the invariants that          *)
(* Executor.cfg checks on a small instance hold for every set of sequence  *)
(* numbers, every limit and every number of tokens.                        *)
(***************************************************************************)
EXTENDS ExecutorService, FiniteSetTheorems, SequenceTheorems, TLAPS

\* The history agrees with the tables: the admission and the UNLINK recorded for
\* a live token are those its request is stored under.  (Needed to know that
\* the replies, which are built from the tables, are the ones owed.)
HistoryMatches ==
    /\ \A t \in LiveTokens :
          admitted[t] = sequenceByToken[t] /\ unlinkOf[t] = Request(t).unlink
    /\ \A t \in Tokens \ Issued : unlinkOf[t] = NoUnlink

\* No more requests are live than the limit allows.  (Needed because a close
\* longer than the memory could otherwise overrun its bound.)
WithinLimit == Cardinality(LiveTokens) <= MaxInflight

Inv == /\ TypeOK
       /\ IndexesAgree
       /\ HistoryMatches
       /\ AnsweredExactlyOnce
       /\ SilenceOnlyAfterAnswer
       /\ WithinLimit

-----------------------------------------------------------------------------
(* The maps.                                                               *)

\* Insert adds or replaces one key and leaves the others alone.
LEMMA InsertFacts ==
    ASSUME NEW map, NEW key, NEW value
    PROVE  /\ DOMAIN Insert(map, key, value) = DOMAIN map \cup {key}
           /\ Insert(map, key, value)[key] = value
           /\ \A k \in DOMAIN map \ {key} : Insert(map, key, value)[k] = map[k]
  BY DEF Insert

\* Remove takes keys away and leaves the others alone.
LEMMA RemoveFacts ==
    ASSUME NEW map, NEW keys
    PROVE  /\ DOMAIN Remove(map, keys) = DOMAIN map \ keys
           /\ \A k \in DOMAIN map \ keys : Remove(map, keys)[k] = map[k]
  BY DEF Remove, Restrict

\* The tokens given out are tokens, and a live one is among them.
LEMMA IssuedTokens ==
    ASSUME TypeOK
    PROVE  Issued \subseteq Tokens /\ LiveTokens \subseteq Tokens
  BY ExecutorAssumption DEF TypeOK, Issued, Tokens

-----------------------------------------------------------------------------
(* The memory of retired tokens.                                           *)

\* Remembering one token keeps the memory within its bound.
LEMMA RememberRetiredBound ==
    ASSUME NEW remembered, IsFiniteSet(remembered),
           Cardinality(remembered) <= RetiredCapacity, NEW t
    PROVE  /\ IsFiniteSet(RememberRetired(remembered, t))
           /\ Cardinality(RememberRetired(remembered, t)) <= RetiredCapacity
           /\ RememberRetired(remembered, t) \subseteq remembered \cup {t}
  <1>. DEFINE kept == IF Cardinality(remembered) >= RetiredCapacity THEN {} ELSE remembered
  <1>1. RetiredCapacity \in Nat /\ RetiredCapacity >= 2
    BY ExecutorAssumption DEF RetiredCapacity
  <1>2. Cardinality(remembered) \in Nat
    BY FS_CardinalityType
  <1>3. IsFiniteSet(kept) /\ Cardinality(kept) \in Nat /\ Cardinality(kept) < RetiredCapacity
    BY <1>1, <1>2, FS_EmptySet
  <1>4. /\ IsFiniteSet(kept \cup {t})
        /\ Cardinality(kept \cup {t}) \in {Cardinality(kept), Cardinality(kept) + 1}
    BY <1>3, FS_AddElement
  <1>5. RememberRetired(remembered, t) = kept \cup {t}
    BY DEF RememberRetired
  <1>. HIDE DEF kept
  <1>6. kept \subseteq remembered
    BY DEF kept
  <1>. QED
    BY <1>1, <1>3, <1>4, <1>5, <1>6

\* A close walks its tokens once each.
LEMMA OrderFacts ==
    ASSUME NEW S, IsFiniteSet(S), NEW order \in Orders(S)
    PROVE  /\ Len(order) = Cardinality(S)
           /\ order \in Seq(S)
           /\ Range(order) \subseteq S
           /\ \A i \in Nat \ {0} : Range(SubSeq(order, i, Len(order))) \subseteq S
  <1>1. Cardinality(S) \in Nat
    BY FS_CardinalityType
  <1>2. order \in [1 .. Cardinality(S) -> S]
    BY DEF Orders
  <1>3. order \in Seq(S) /\ Len(order) = Cardinality(S)
    BY <1>1, <1>2
  <1>4. Range(order) \subseteq S
    BY <1>2 DEF Range
  <1>5. ASSUME NEW i \in Nat \ {0}
        PROVE  Range(SubSeq(order, i, Len(order))) \subseteq S
    <2>1. \A j \in i .. Len(order) : order[j] \in S
      BY <1>1, <1>2, <1>3
    <2>2. SubSeq(order, i, Len(order)) \in Seq(S)
      BY <1>1, <1>3, <2>1, SubSeqProperties
    <2>. QED
      BY <2>2, LenProperties DEF Range
  <1>. QED
    BY <1>3, <1>4, <1>5

\* A close of no more tokens than the limit keeps the memory within its bound.
LEMMA RememberAllBound ==
    ASSUME NEW remembered, IsFiniteSet(remembered),
           Cardinality(remembered) <= RetiredCapacity,
           NEW S, IsFiniteSet(S), Cardinality(S) <= MaxInflight,
           NEW order \in Orders(S)
    PROVE  /\ IsFiniteSet(RememberAll(remembered, order))
           /\ Cardinality(RememberAll(remembered, order)) <= RetiredCapacity
           /\ RememberAll(remembered, order) \subseteq remembered \cup S
  <1>. DEFINE room == RetiredCapacity - Cardinality(remembered)
  <1>1. /\ RetiredCapacity \in Nat /\ MaxInflight \in Nat /\ MaxInflight <= RetiredCapacity
        /\ Cardinality(remembered) \in Nat /\ Cardinality(S) \in Nat
        /\ room \in Nat
    BY ExecutorAssumption, FS_CardinalityType DEF RetiredCapacity
  <1>2. CASE Len(order) <= room
    <2>1. RememberAll(remembered, order) = remembered \cup Range(order)
      BY <1>2 DEF RememberAll
    <2>2. Range(order) \subseteq S /\ Len(order) = Cardinality(S)
      BY OrderFacts
    <2>3. IsFiniteSet(Range(order)) /\ Cardinality(Range(order)) <= Len(order)
      BY <2>2, FS_Subset
    <2>4. Cardinality(Range(order)) \in Nat /\ Cardinality(remembered \cap Range(order)) \in Nat
      BY <2>3, FS_CardinalityType, FS_Intersection
    <2>5. /\ IsFiniteSet(remembered \cup Range(order))
          /\ Cardinality(remembered \cup Range(order))
               = Cardinality(remembered) + Cardinality(Range(order))
                 - Cardinality(remembered \cap Range(order))
      BY <2>3, FS_Union
    <2>6. Cardinality(remembered \cup Range(order)) <= RetiredCapacity
      BY <1>1, <1>2, <2>2, <2>3, <2>4, <2>5
    <2>. QED
      BY <2>1, <2>2, <2>5, <2>6
  <1>3. CASE ~(Len(order) <= room)
    <2>1. RememberAll(remembered, order) = Range(SubSeq(order, room + 1, Len(order)))
      BY <1>3 DEF RememberAll
    <2>2. RememberAll(remembered, order) \subseteq S
      BY <1>1, <2>1, OrderFacts
    <2>3. /\ IsFiniteSet(RememberAll(remembered, order))
          /\ Cardinality(RememberAll(remembered, order)) <= Cardinality(S)
      BY <2>2, FS_Subset
    <2>4. Cardinality(RememberAll(remembered, order)) \in Nat
      BY <2>3, FS_CardinalityType
    <2>. QED
      BY <1>1, <2>2, <2>3, <2>4
  <1>. QED
    BY <1>2, <1>3

-----------------------------------------------------------------------------
(* The indexes.                                                            *)

\* While the indexes agree they hold equally many requests.
LEMMA InflightIsLive ==
    ASSUME TypeOK, IndexesAgree
    PROVE  IsFiniteSet(LiveTokens) /\ Inflight = Cardinality(LiveTokens)
  <1>. DEFINE f == [t \in LiveTokens |-> sequenceByToken[t]]
  <1>1. IsFiniteSet(LiveTokens)
    <2>1. IsFiniteSet(1 .. MaxToken - 1)
      BY ExecutorAssumption, FS_Interval
    <2>. QED
      BY <2>1, IssuedTokens, FS_Subset DEF Tokens
  <1>2. f \in [LiveTokens -> DOMAIN pendingBySequence]
    BY DEF IndexesAgree
  <1>3. \A t, u \in LiveTokens : f[t] = f[u] => t = u
    BY DEF IndexesAgree, Request
  <1>4. \A q \in DOMAIN pendingBySequence : \E t \in LiveTokens : f[t] = q
    BY DEF IndexesAgree
  <1>5. f \in Bijection(LiveTokens, DOMAIN pendingBySequence)
    BY <1>2, <1>3, <1>4 DEF Bijection, Injection, Surjection, IsInjective
  <1>6. ExistsBijection(LiveTokens, DOMAIN pendingBySequence)
    BY <1>5 DEF ExistsBijection
  <1>. QED
    BY <1>1, <1>6, FS_Bijection DEF Inflight

\* Nothing is found in one index and missed in the other, so close() answers
\* every live request.
LEMMA AllFound ==
    ASSUME IndexesAgree
    PROVE  /\ FoundTokens = LiveTokens
           /\ DOMAIN pendingBySequence = {sequenceByToken[t] : t \in LiveTokens}
  BY DEF IndexesAgree, FoundTokens, IsLive

-----------------------------------------------------------------------------
(* Replies.                                                                *)

\* The replies built from the tables are the ones the history says are owed,
\* and the first the token gets.
LEMMA RepliesOwed ==
    ASSUME Inv, NEW t \in LiveTokens
    PROVE  LET replies == answers[t] \o RepliesOf(t)
           IN  /\ replies = RepliesOf(t)
               /\ Len(replies) = (IF unlinkOf[t] = NoUnlink THEN 1 ELSE 2)
               /\ replies[1].kind = "RetSubmit" /\ replies[1].seq = admitted[t]
               /\ unlinkOf[t] # NoUnlink =>
                     replies[2].kind = "RetUnlink" /\ replies[2].seq = unlinkOf[t]
  <1>. DEFINE submit == RetSubmit(t)
              unlink == RetUnlink(t, Request(t).unlink)
  <1>1. answers[t] = <<>>
    BY IssuedTokens DEF Inv, AnsweredExactlyOnce, Answered
  <1>2. admitted[t] = sequenceByToken[t] /\ unlinkOf[t] = Request(t).unlink
    BY DEF Inv, HistoryMatches
  <1>3. RepliesOf(t) = IF unlinkOf[t] = NoUnlink THEN <<submit>> ELSE <<submit, unlink>>
    BY <1>2 DEF RepliesOf
  <1>4. submit.kind = "RetSubmit" /\ submit.seq = admitted[t]
    BY <1>2 DEF RetSubmit
  <1>5. unlink.kind = "RetUnlink" /\ unlink.seq = unlinkOf[t]
    BY <1>2 DEF RetUnlink
  <1>. HIDE DEF submit, unlink
  <1>6. RepliesOf(t) \in Seq({submit, unlink})
    <2>1. <<submit>> \in Seq({submit, unlink}) /\ <<submit, unlink>> \in Seq({submit, unlink})
      OBVIOUS
    <2>. QED
      BY <1>3, <2>1
  <1>7. <<>> \o RepliesOf(t) = RepliesOf(t)
    BY <1>6, ConcatEmptySeq
  <1>. QED
    BY <1>1, <1>3, <1>4, <1>5, <1>7

-----------------------------------------------------------------------------
(* Every step preserves the invariant.                                     *)

\* The executor starts with empty indexes.
LEMMA InitInv == ServiceInit => Inv
  <1>. SUFFICES ASSUME ServiceInit PROVE Inv
    OBVIOUS
  <1>. USE DEF ServiceInit, ExecutorInit, EmptyMap, LiveTokens
  <1>1. TypeOK
    BY ExecutorAssumption DEF TypeOK, Issued, Tokens
  <1>2. IndexesAgree
    BY DEF IndexesAgree
  <1>3. HistoryMatches
    BY DEF HistoryMatches
  <1>4. Answered = {}
    BY DEF Answered, Issued
  <1>5. AnsweredExactlyOnce
    BY <1>4 DEF AnsweredExactlyOnce
  <1>6. SilenceOnlyAfterAnswer /\ WithinLimit
    BY ExecutorAssumption, FS_EmptySet DEF SilenceOnlyAfterAnswer, WithinLimit, RetiredCapacity
  <1>. QED
    BY <1>1, <1>2, <1>3, <1>5, <1>6 DEF Inv

\* Admitting a request.
LEMMA SubmitInv ==
    ASSUME Inv, NEW r \in SubmitRequest, Submit(r)
    PROVE  Inv'
  <1>. DEFINE new == nextToken
  <1>1. /\ new \in Tokens /\ new \notin Issued /\ new \notin LiveTokens
        /\ Issued' = Issued \cup {new} /\ Issued \subseteq Tokens
        /\ nextToken' \in 1 .. MaxToken
    BY ExecutorAssumption
    DEF Inv, TypeOK, Issued, Tokens, Submit, AcceptSubmit, CanAdmit
  <1>2. /\ LiveTokens' = LiveTokens \cup {new}
        /\ sequenceByToken'[new] = r.seq
        /\ \A t \in LiveTokens : sequenceByToken'[t] = sequenceByToken[t]
    <2>1. sequenceByToken' = Insert(sequenceByToken, new, r.seq)
      BY DEF Submit, AcceptSubmit
    <2>. QED
      BY <1>1, <2>1 DEF Insert, LiveTokens
  <1>3. r.seq \in SeqNums /\ r.seq \notin DOMAIN pendingBySequence
    BY DEF Submit, AcceptSubmit, CanAdmit, SubmitRequest
  <1>4. /\ DOMAIN pendingBySequence' = DOMAIN pendingBySequence \cup {r.seq}
        /\ pendingBySequence'[r.seq]
             = [token |-> new, dir |-> r.dir, len |-> r.len, unlink |-> NoUnlink]
        /\ \A q \in DOMAIN pendingBySequence : pendingBySequence'[q] = pendingBySequence[q]
    <2>. DEFINE request == [token |-> new, dir |-> r.dir, len |-> r.len, unlink |-> NoUnlink]
    <2>1. pendingBySequence' = Insert(pendingBySequence, r.seq, request)
      BY DEF Submit, AcceptSubmit
    <2>. HIDE DEF request
    <2>2. /\ DOMAIN pendingBySequence' = DOMAIN pendingBySequence \cup {r.seq}
          /\ pendingBySequence'[r.seq] = request
          /\ \A q \in DOMAIN pendingBySequence : pendingBySequence'[q] = pendingBySequence[q]
      BY <1>3, <2>1 DEF Insert
    <2>. QED
      BY <2>2 DEF request
  <1>5. /\ Answered' = Answered
        /\ admitted' = [admitted EXCEPT ![new] = r.seq]
        /\ UNCHANGED <<unlinkOf, answers, retiredTokens>>
    BY <1>1, <1>2 DEF Answered, Submit, AcceptSubmit
  <1>6. TypeOK'
    <2>1. pendingBySequence'[r.seq] \in Pending
      BY <1>1, <1>4 DEF Pending, SubmitRequest
    <2>. QED
      BY <1>1, <1>2, <1>3, <1>4, <1>5, <2>1 DEF Inv, TypeOK
  <1>7. IndexesAgree'
    BY <1>1, <1>2, <1>3, <1>4 DEF Inv, IndexesAgree, Request
  <1>8. HistoryMatches'
    BY <1>1, <1>2, <1>3, <1>4, <1>5 DEF Inv, TypeOK, IndexesAgree, HistoryMatches, Request
  <1>9. AnsweredExactlyOnce'
    <2>1. \A t \in Answered : admitted'[t] = admitted[t]
      BY <1>1, <1>5 DEF Inv, TypeOK, Answered
    <2>. QED
      BY <1>5, <2>1 DEF Inv, AnsweredExactlyOnce, AnsweredInFull
  <1>10. SilenceOnlyAfterAnswer'
    BY <1>5 DEF Inv, SilenceOnlyAfterAnswer
  <1>11. WithinLimit'
    <2>1. IsFiniteSet(LiveTokens) /\ Cardinality(LiveTokens) < MaxInflight
      BY InflightIsLive DEF Inv, Submit, AcceptSubmit, CanAdmit
    <2>2. /\ Cardinality(LiveTokens) \in Nat
          /\ Cardinality(LiveTokens \cup {new}) = Cardinality(LiveTokens) + 1
      BY <1>1, <2>1, FS_CardinalityType, FS_AddElement
    <2>. QED
      BY <1>2, <2>1, <2>2, ExecutorAssumption DEF WithinLimit
  <1>. QED
    BY <1>6, <1>7, <1>8, <1>9, <1>10, <1>11 DEF Inv

\* Accepting an UNLINK.
LEMMA UnlinkInv ==
    ASSUME Inv, NEW unlink \in SeqNums, NEW target \in SeqNums, Unlink(unlink, target)
    PROVE  Inv'
  <1>. DEFINE t == pendingBySequence[target].token
  <1>1. target \in DOMAIN pendingBySequence /\ pendingBySequence[target] \in Pending
    BY DEF Inv, TypeOK, Unlink, AcceptUnlink, CanUnlink, IsPending
  <1>2. t \in LiveTokens /\ t \in Tokens /\ sequenceByToken[t] = target
    BY <1>1, IssuedTokens DEF Inv, IndexesAgree
  <1>3. /\ pendingBySequence' = [pendingBySequence EXCEPT ![target].unlink = unlink]
        /\ unlinkOf' = [unlinkOf EXCEPT ![t] = unlink]
        /\ UNCHANGED <<nextToken, sequenceByToken, retiredTokens, admitted, answers>>
    BY DEF Unlink, AcceptUnlink
  <1>4. /\ DOMAIN pendingBySequence' = DOMAIN pendingBySequence
        /\ pendingBySequence'[target] \in Pending
        /\ pendingBySequence'[target].token = t /\ pendingBySequence'[target].unlink = unlink
        /\ \A q \in DOMAIN pendingBySequence \ {target} :
              pendingBySequence'[q] = pendingBySequence[q]
    BY <1>1, <1>3 DEF Pending
  <1>5. LiveTokens' = LiveTokens /\ Issued' = Issued /\ Answered' = Answered
    BY <1>3 DEF LiveTokens, Issued, Answered
  <1>6. /\ unlinkOf'[t] = unlink /\ unlinkOf' \in [Tokens -> SeqNums \cup {NoUnlink}]
        /\ \A u \in Tokens \ {t} : unlinkOf'[u] = unlinkOf[u]
    BY <1>2, <1>3 DEF Inv, TypeOK
  <1>7. TypeOK'
    BY <1>3, <1>4, <1>5, <1>6 DEF Inv, TypeOK
  <1>8. IndexesAgree'
    BY <1>1, <1>2, <1>3, <1>4, <1>5 DEF Inv, IndexesAgree, Request
  <1>9. HistoryMatches'
    BY <1>1, <1>2, <1>3, <1>4, <1>5, <1>6, IssuedTokens
    DEF Inv, TypeOK, IndexesAgree, HistoryMatches, Request
  <1>10. AnsweredExactlyOnce'
    <2>1. t \notin Answered /\ Answered \subseteq Tokens
      BY <1>2, IssuedTokens DEF Inv, Answered
    <2>. QED
      BY <1>3, <1>5, <1>6, <2>1 DEF Inv, AnsweredExactlyOnce, AnsweredInFull
  <1>11. SilenceOnlyAfterAnswer' /\ WithinLimit'
    BY <1>3, <1>5 DEF Inv, SilenceOnlyAfterAnswer, WithinLimit
  <1>. QED
    BY <1>7, <1>8, <1>9, <1>10, <1>11 DEF Inv

\* Retiring one live request with the replies it is owed.
LEMMA AnswerInv ==
    ASSUME Inv, NEW t \in LiveTokens, Retire(t),
           answers' = [answers EXCEPT ![t] = @ \o RepliesOf(t)],
           UNCHANGED <<admitted, unlinkOf>>
    PROVE  Inv'
  <1>. DEFINE seq == sequenceByToken[t]
  <1>1. t \in Tokens /\ t \in Issued /\ Issued \subseteq Tokens /\ LiveTokens \subseteq Issued
    BY IssuedTokens DEF Inv, TypeOK
  <1>2. /\ LiveTokens' = LiveTokens \ {t}
        /\ \A u \in LiveTokens \ {t} : sequenceByToken'[u] = sequenceByToken[u]
    <2>1. sequenceByToken' = Remove(sequenceByToken, {t})
      BY DEF Retire
    <2>. QED
      BY <2>1 DEF Remove, Restrict, LiveTokens
  <1>3. /\ DOMAIN pendingBySequence' = DOMAIN pendingBySequence \ {seq}
        /\ \A q \in DOMAIN pendingBySequence \ {seq} :
              pendingBySequence'[q] = pendingBySequence[q]
    <2>1. pendingBySequence' = Remove(pendingBySequence, {seq})
      BY DEF Retire
    <2>. QED
      BY <2>1 DEF Remove, Restrict
  <1>4. \A u \in LiveTokens \ {t} : sequenceByToken[u] # seq
    BY DEF Inv, IndexesAgree, Request
  <1>5. Issued' = Issued /\ Answered' = Answered \cup {t} /\ nextToken' = nextToken
    BY <1>1, <1>2 DEF Answered, Issued, Retire
  <1>6. /\ DOMAIN answers' = Tokens
        /\ answers'[t] = answers[t] \o RepliesOf(t)
        /\ \A u \in Tokens \ {t} : answers'[u] = answers[u]
    BY <1>1 DEF Inv, TypeOK
  <1>7. /\ IsFiniteSet(retiredTokens)
        /\ retiredTokens' \subseteq retiredTokens \cup {t}
        /\ Cardinality(retiredTokens') <= RetiredCapacity
    <2>1. IsFiniteSet(Tokens)
      BY ExecutorAssumption, FS_Interval DEF Tokens
    <2>2. retiredTokens \subseteq Tokens /\ IsFiniteSet(retiredTokens)
      BY <1>1, <2>1, FS_Subset DEF Inv, TypeOK
    <2>3. retiredTokens' = RememberRetired(retiredTokens, t)
      BY DEF Retire
    <2>. QED
      BY <2>2, <2>3, RememberRetiredBound DEF Inv, SilenceOnlyAfterAnswer
  <1>8. TypeOK'
    BY <1>1, <1>2, <1>3, <1>5, <1>6, <1>7 DEF Inv, TypeOK
  <1>9. IndexesAgree'
    BY <1>2, <1>3, <1>4 DEF Inv, IndexesAgree, Request
  <1>10. HistoryMatches'
    BY <1>2, <1>3, <1>4, <1>5 DEF Inv, IndexesAgree, HistoryMatches, Request
  <1>11. AnsweredExactlyOnce'
    <2>1. AnsweredInFull(t)'
      BY <1>6, RepliesOwed DEF AnsweredInFull
    <2>2. \A u \in Answered : AnsweredInFull(u)'
      BY <1>1, <1>6 DEF Inv, AnsweredExactlyOnce, AnsweredInFull, Answered
    <2>. QED
      BY <1>5, <1>6, <2>1, <2>2 DEF Inv, AnsweredExactlyOnce
  <1>12. SilenceOnlyAfterAnswer'
    BY <1>5, <1>7 DEF Inv, SilenceOnlyAfterAnswer, RetiredCapacity
  <1>13. WithinLimit'
    <2>1. IsFiniteSet(LiveTokens) /\ Cardinality(LiveTokens) <= MaxInflight
      BY InflightIsLive DEF Inv, WithinLimit
    <2>2. /\ Cardinality(LiveTokens) \in Nat
          /\ Cardinality(LiveTokens \ {t}) = Cardinality(LiveTokens) - 1
      BY <2>1, FS_CardinalityType, FS_RemoveElement
    <2>. QED
      BY <1>2, <2>1, <2>2, ExecutorAssumption DEF WithinLimit
  <1>. QED
    BY <1>8, <1>9, <1>10, <1>11, <1>12, <1>13 DEF Inv

\* A completion of the platform.
LEMMA CompleteInv ==
    ASSUME Inv, NEW t \in Tokens, NEW actual \in ByteCounts, NEW dataLength \in ByteCounts,
           CompleteRequest(t, actual, dataLength)
    PROVE  Inv'
  BY AnswerInv DEF CompleteRequest, Complete, IsLive, CompletionReplies

\* A cancellation: its replies are those owed, because an UNLINK was accepted.
LEMMA CancelInv ==
    ASSUME Inv, NEW t \in Tokens, CancelRequest(t)
    PROVE  Inv'
  <1>1. t \in LiveTokens /\ Retire(t) /\ CancelReplies(t) = RepliesOf(t)
    BY DEF CancelRequest, CompleteCancel, CanCancel, IsLive, CancelReplies, RepliesOf
  <1>. QED
    BY <1>1, AnswerInv DEF CancelRequest

\* A close, in any order: every live request gets the replies it is owed.
LEMMA CloseInv ==
    ASSUME Inv, NEW order \in Orders(FoundTokens), Close(order)
    PROVE  Inv'
  <1>1. FoundTokens = LiveTokens /\ \A t \in LiveTokens : IsLive(t)
    BY AllFound DEF Inv, FoundTokens, IndexesAgree, IsLive
  <1>2. Issued \subseteq Tokens /\ LiveTokens \subseteq Issued
    BY IssuedTokens DEF Inv, TypeOK
  <1>3. LiveTokens' = {}
    BY DEF Close, CloseExecutor, LiveTokens, EmptyMap
  <1>4. DOMAIN pendingBySequence' = {}
    <2>1. pendingBySequence'
            = Remove(pendingBySequence, {sequenceByToken[t] : t \in LiveTokens})
      BY DEF Close, CloseExecutor
    <2>2. DOMAIN pendingBySequence = {sequenceByToken[t] : t \in LiveTokens}
      BY AllFound DEF Inv
    <2>. QED
      BY <2>1, <2>2 DEF Remove, Restrict
  <1>5. /\ Issued' = Issued /\ Answered' = Issued /\ nextToken' = nextToken
        /\ UNCHANGED <<admitted, unlinkOf>>
    BY <1>3 DEF Close, CloseExecutor, Issued, Answered
  <1>6. /\ DOMAIN answers' = Tokens
        /\ \A t \in LiveTokens : answers'[t] = answers[t] \o RepliesOf(t)
        /\ \A t \in Tokens \ LiveTokens : answers'[t] = answers[t]
    BY <1>1, <1>2 DEF Close, CloseReplies, IsLive
  <1>7. retiredTokens' \subseteq Issued /\ Cardinality(retiredTokens') <= RetiredCapacity
    <2>1. IsFiniteSet(Tokens)
      BY ExecutorAssumption, FS_Interval DEF Tokens
    <2>2. retiredTokens \subseteq Issued /\ IsFiniteSet(retiredTokens)
      BY <1>2, <2>1, FS_Subset DEF Inv, TypeOK
    <2>3. IsFiniteSet(LiveTokens) /\ Cardinality(LiveTokens) <= MaxInflight
      BY InflightIsLive DEF Inv, WithinLimit
    <2>4. retiredTokens' = RememberAll(retiredTokens, order)
      BY DEF Close, CloseExecutor
    <2>. QED
      BY <1>1, <1>2, <2>2, <2>3, <2>4, RememberAllBound DEF Inv, SilenceOnlyAfterAnswer
  <1>8. TypeOK'
    BY <1>3, <1>4, <1>5, <1>6, <1>7 DEF Inv, TypeOK
  <1>9. IndexesAgree' /\ HistoryMatches'
    BY <1>3, <1>4, <1>5 DEF Inv, IndexesAgree, HistoryMatches
  <1>10. AnsweredExactlyOnce'
    <2>1. \A t \in LiveTokens : AnsweredInFull(t)'
      BY <1>5, <1>6, RepliesOwed DEF AnsweredInFull
    <2>2. \A t \in Answered : AnsweredInFull(t)'
      BY <1>2, <1>5, <1>6 DEF Inv, AnsweredExactlyOnce, AnsweredInFull, Answered
    <2>. QED
      BY <1>2, <1>5, <1>6, <2>1, <2>2 DEF Inv, AnsweredExactlyOnce, Answered
  <1>11. SilenceOnlyAfterAnswer'
    BY <1>5, <1>7 DEF SilenceOnlyAfterAnswer, RetiredCapacity
  <1>12. WithinLimit'
    BY <1>3, FS_EmptySet, ExecutorAssumption DEF WithinLimit
  <1>. QED
    BY <1>8, <1>9, <1>10, <1>11, <1>12 DEF Inv

\* The invariant is inductive.
LEMMA NextInv == Inv /\ [ServiceNext]_serviceVars => Inv'
  <1>. SUFFICES ASSUME Inv, [ServiceNext]_serviceVars PROVE Inv'
    OBVIOUS
  <1>1. CASE UNCHANGED serviceVars
    BY <1>1
    DEF serviceVars, executorVars, history, Inv, TypeOK, IndexesAgree, HistoryMatches,
        AnsweredExactlyOnce, AnsweredInFull, SilenceOnlyAfterAnswer, WithinLimit,
        RetiredCapacity, Answered, Issued, LiveTokens, Request
  <1>2. ASSUME NEW r \in SubmitRequest, Submit(r) PROVE Inv'
    BY <1>2, SubmitInv
  <1>3. ASSUME NEW unlink \in SeqNums, NEW target \in SeqNums, Unlink(unlink, target)
        PROVE  Inv'
    BY <1>3, UnlinkInv
  <1>4. ASSUME NEW t \in Tokens, NEW actual \in ByteCounts, NEW dataLength \in ByteCounts,
               CompleteRequest(t, actual, dataLength)
        PROVE  Inv'
    BY <1>4, CompleteInv
  <1>5. ASSUME NEW t \in Tokens, CancelRequest(t) PROVE Inv'
    BY <1>5, CancelInv
  <1>6. ASSUME NEW order \in Orders(FoundTokens), Close(order) PROVE Inv'
    BY <1>6, CloseInv
  <1>. QED
    BY <1>1, <1>2, <1>3, <1>4, <1>5, <1>6 DEF ServiceNext

-----------------------------------------------------------------------------
(* The theorems.                                                           *)

\* The invariant of the executor, from the lemmas of its steps.
LEMMA InvHolds == ServiceSpec => []Inv
  BY InitInv, NextInv, PTL DEF ServiceSpec

\* The executor's fields keep to their types: in particular no token is given
\* out beyond the last, and every token in use was issued.
THEOREM TypeCorrect == ServiceSpec => []TypeOK
  <1>1. Inv => TypeOK
    BY DEF Inv
  <1>. QED
    BY <1>1, InvHolds, PTL

\* Whatever calls are made and in whatever order, the two hash maps of live
\* requests stay inverse to each other: complete() and complete_cancel() never
\* end in CoreError::Internal.
THEOREM IndexesAlwaysAgree == ServiceSpec => []IndexesAgree
  <1>1. Inv => IndexesAgree
    BY DEF Inv
  <1>. QED
    BY <1>1, InvHolds, PTL

\* Every admitted SUBMIT is answered exactly once, under its own sequence
\* number, and every accepted UNLINK exactly once.
THEOREM ExactlyOnce == ServiceSpec => []AnsweredExactlyOnce
  <1>1. Inv => AnsweredExactlyOnce
    BY DEF Inv
  <1>. QED
    BY <1>1, InvHolds, PTL

\* A completion is ignored in silence only for a request that was answered, and
\* the memory that decides it never exceeds twice max_inflight tokens.
THEOREM SilenceIsSafe == ServiceSpec => []SilenceOnlyAfterAnswer
  <1>1. Inv => SilenceOnlyAfterAnswer
    BY DEF Inv
  <1>. QED
    BY <1>1, InvHolds, PTL

-----------------------------------------------------------------------------
(* The executor implements the abstract service.                           *)

\* The stages of the tokens, without the order of the cases.
StagesKnown ==
    \A t \in Tokens :
        /\ t \notin Issued => UrbStage(t) = "unused"
        /\ t \in Answered => UrbStage(t) = "done"
        /\ t \in LiveTokens =>
              UrbStage(t) = IF unlinkOf[t] = NoUnlink THEN "open" ELSE "unlinking"
        /\ t \in Issued => t \in Answered \/ t \in LiveTokens

\* A typed state knows the stage of every request,
LEMMA StageFacts == TypeOK => StagesKnown
  BY DEF StagesKnown, UrbStage, TypeOK, Answered

\* and so does the next one.
LEMMA StageFactsNext == TypeOK' => StagesKnown'
  BY StageFacts, PTL

\* The abstract service has as many requests open as the executor has live.
LEMMA OpenIsLive ==
    ASSUME TypeOK
    PROVE  Urbs!Open = LiveTokens
  <1>1. LiveTokens \subseteq Tokens /\ LiveTokens \subseteq Issued
    BY IssuedTokens DEF TypeOK
  <1>. QED
    BY <1>1, StageFacts DEF StagesKnown, Urbs!Open, Answered

\* The initial states are those of the service.
LEMMA InitImplements == ServiceInit => Urbs!Init
  <1>. SUFFICES ASSUME ServiceInit PROVE Urbs!Init
    OBVIOUS
  <1>1. Issued = {} /\ StagesKnown
    BY InitInv, StageFacts DEF Inv, ServiceInit, ExecutorInit, Issued
  <1>2. \A t \in Tokens : UrbStage(t) = "unused" /\ Len(answers[t]) = 0
    BY <1>1 DEF StagesKnown, ServiceInit
  <1>. QED
    BY <1>2 DEF Urbs!Init

\* Admission is the service's Admit.
LEMMA SubmitImplements ==
    ASSUME Inv, Inv', NEW r \in SubmitRequest, Submit(r)
    PROVE  \E new \in Tokens : Urbs!Admit(new)
  <1>. PICK new : new = nextToken
    OBVIOUS
  <1>1. /\ new \in Tokens /\ new \notin Issued /\ new \notin LiveTokens
        /\ Issued' = Issued \cup {new}
    BY ExecutorAssumption
    DEF Inv, TypeOK, Issued, Tokens, Submit, AcceptSubmit, CanAdmit
  <1>2. LiveTokens' = LiveTokens \cup {new}
    <2>1. sequenceByToken' = Insert(sequenceByToken, new, r.seq)
      BY DEF Submit, AcceptSubmit
    <2>. QED
      BY <2>1 DEF Insert, LiveTokens
  <1>3. UNCHANGED <<unlinkOf, answers>> /\ unlinkOf[new] = NoUnlink
    BY <1>1 DEF Submit, Inv, HistoryMatches
  <1>4. Answered' = Answered
    BY <1>1, <1>2 DEF Answered
  <1>5. StagesKnown /\ StagesKnown'
    BY StageFacts, StageFactsNext DEF Inv
  <1>6. UrbStage(new) = "unused" /\ UrbStage(new)' = "open"
    BY <1>1, <1>2, <1>3, <1>5 DEF StagesKnown
  <1>7. \A t \in Tokens \ {new} : UrbStage(t)' = UrbStage(t)
    BY <1>1, <1>2, <1>3, <1>4, <1>5 DEF StagesKnown
  <1>8. Urbs!Cardinality(Urbs!Open) < MaxInflight
    <2>1. Cardinality(Urbs!Open) < MaxInflight
      BY OpenIsLive, InflightIsLive DEF Inv, Submit, AcceptSubmit, CanAdmit
    <2>. QED
      BY <2>1 DEF Cardinality, Urbs!Cardinality
  <1>9. Urbs!Admit(new)
    BY <1>1, <1>3, <1>6, <1>7, <1>8 DEF Urbs!Admit
  <1>. QED
    BY <1>1, <1>9

\* Accepting an UNLINK is the service's Unlink of the target.
LEMMA UnlinkImplements ==
    ASSUME Inv, Inv', NEW unlink \in SeqNums, NEW target \in SeqNums, Unlink(unlink, target)
    PROVE  \E t \in Tokens : Urbs!Unlink(t)
  <1>. PICK t : t = pendingBySequence[target].token
    OBVIOUS
  <1>1. /\ t \in LiveTokens /\ t \in Tokens /\ unlinkOf[t] = NoUnlink
        /\ unlink # NoUnlink
    BY IssuedTokens, ExecutorAssumption
    DEF Inv, IndexesAgree, HistoryMatches, Request, Unlink, AcceptUnlink, CanUnlink,
        IsPending, NoUnlink
  <1>2. /\ unlinkOf' = [unlinkOf EXCEPT ![t] = unlink]
        /\ UNCHANGED <<nextToken, sequenceByToken, answers>>
    BY DEF Unlink, AcceptUnlink
  <1>3. LiveTokens' = LiveTokens /\ Issued' = Issued /\ Answered' = Answered
    BY <1>2 DEF LiveTokens, Issued, Answered
  <1>4. unlinkOf'[t] = unlink /\ \A u \in Tokens \ {t} : unlinkOf'[u] = unlinkOf[u]
    BY <1>1, <1>2 DEF Inv, TypeOK
  <1>5. StagesKnown /\ StagesKnown'
    BY StageFacts, StageFactsNext DEF Inv
  <1>6. UrbStage(t) = "open" /\ UrbStage(t)' = "unlinking"
    BY <1>1, <1>3, <1>4, <1>5 DEF StagesKnown
  <1>7. \A u \in Tokens \ {t} : UrbStage(u)' = UrbStage(u)
    BY <1>3, <1>4, <1>5 DEF StagesKnown
  <1>8. Urbs!Unlink(t)
    BY <1>1, <1>2, <1>6, <1>7 DEF Urbs!Unlink
  <1>. QED
    BY <1>1, <1>8

\* Answering live requests with the replies they are owed is the service's
\* Answer of the same requests.
LEMMA AnswerImplements ==
    ASSUME Inv, Inv', NEW R, R \subseteq LiveTokens,
           LiveTokens' = LiveTokens \ R, UNCHANGED <<nextToken, unlinkOf>>,
           \A t \in R : answers'[t] = answers[t] \o RepliesOf(t),
           \A t \in Tokens \ R : answers'[t] = answers[t]
    PROVE  R \in SUBSET Urbs!Open /\ Urbs!Answer(R)
  <1>1. /\ R \subseteq Tokens /\ R \subseteq Issued
        /\ Issued' = Issued /\ Answered' = Answered \cup R
    BY IssuedTokens DEF Inv, TypeOK, Issued, Answered
  <1>2. StagesKnown /\ StagesKnown'
    BY StageFacts, StageFactsNext DEF Inv
  <1>3. \A t \in Tokens : UrbStage(t)' = IF t \in R THEN "done" ELSE UrbStage(t)
    <2>1. \A t \in R : UrbStage(t)' = "done"
      BY <1>1, <1>2 DEF StagesKnown
    <2>2. \A t \in Tokens \ R : UrbStage(t)' = UrbStage(t)
      BY <1>1, <1>2 DEF StagesKnown
    <2>. QED
      BY <2>1, <2>2
  <1>4. \A t \in R : /\ Len(answers[t]) = 0
                    /\ Len(answers'[t]) = (IF unlinkOf[t] = NoUnlink THEN 1 ELSE 2)
                    /\ UrbStage(t) = (IF unlinkOf[t] = NoUnlink THEN "open" ELSE "unlinking")
    <2>1. \A t \in R : answers[t] = <<>>
      BY <1>1 DEF Inv, AnsweredExactlyOnce, Answered
    <2>2. \A t \in R : Len(answers'[t]) = (IF unlinkOf[t] = NoUnlink THEN 1 ELSE 2)
      BY RepliesOwed
    <2>. QED
      BY <1>1, <1>2, <2>1, <2>2 DEF StagesKnown
  <1>5. \A t \in Tokens :
           Len(answers'[t]) = IF t \in R
                              THEN Len(answers[t]) + (IF UrbStage(t) = "unlinking" THEN 2 ELSE 1)
                              ELSE Len(answers[t])
    <2>1. \A t \in R : Len(answers'[t])
                        = Len(answers[t]) + (IF UrbStage(t) = "unlinking" THEN 2 ELSE 1)
      <3>1. SUFFICES ASSUME NEW t \in R
                     PROVE  Len(answers'[t])
                            = Len(answers[t]) + (IF UrbStage(t) = "unlinking" THEN 2 ELSE 1)
        OBVIOUS
      <3>2. CASE unlinkOf[t] = NoUnlink
        <4>1. Len(answers[t]) = 0 /\ Len(answers'[t]) = 1 /\ UrbStage(t) # "unlinking"
          BY <1>4, <3>2
        <4>. QED
          BY <4>1
      <3>3. CASE unlinkOf[t] # NoUnlink
        <4>1. Len(answers[t]) = 0 /\ Len(answers'[t]) = 2 /\ UrbStage(t) = "unlinking"
          BY <1>4, <3>3
        <4>. QED
          BY <4>1
      <3>. QED
        BY <3>2, <3>3
    <2>2. \A t \in Tokens \ R : Len(answers'[t]) = Len(answers[t])
      OBVIOUS
    <2>. QED
      BY <2>1, <2>2
  <1>6. Urbs!Answer(R)
    BY <1>1, <1>3, <1>5 DEF Urbs!Answer, Urbs!RepliesDue
  <1>7. R \in SUBSET Urbs!Open
    BY OpenIsLive DEF Inv
  <1>. QED
    BY <1>6, <1>7

\* A completion answers its request.
LEMMA CompleteImplements ==
    ASSUME Inv, Inv', NEW t \in LiveTokens, Retire(t),
           answers' = [answers EXCEPT ![t] = @ \o RepliesOf(t)], UNCHANGED unlinkOf
    PROVE  \E R \in SUBSET Urbs!Open : Urbs!Answer(R)
  <1>1. LiveTokens' = LiveTokens \ {t} /\ nextToken' = nextToken
    BY RemoveFacts DEF Retire, LiveTokens
  <1>2. t \in Tokens
    BY IssuedTokens DEF Inv
  <1>3. /\ answers'[t] = answers[t] \o RepliesOf(t)
        /\ \A u \in Tokens \ {t} : answers'[u] = answers[u]
    BY <1>2 DEF Inv, TypeOK
  <1>4. {t} \in SUBSET Urbs!Open /\ Urbs!Answer({t})
    BY <1>1, <1>3, AnswerImplements
  <1>. QED
    BY <1>4

\* A close answers every live request at once.
LEMMA CloseImplements ==
    ASSUME Inv, Inv', NEW order \in Orders(FoundTokens), Close(order)
    PROVE  \E R \in SUBSET Urbs!Open : Urbs!Answer(R)
  <1>. PICK R : R = LiveTokens
    OBVIOUS
  <1>1. \A t \in LiveTokens : IsLive(t)
    BY AllFound DEF Inv, FoundTokens, IndexesAgree, IsLive
  <1>2. LiveTokens' = LiveTokens \ R /\ UNCHANGED <<nextToken, unlinkOf>>
    BY DEF Close, CloseExecutor, LiveTokens, EmptyMap
  <1>3. R \subseteq Tokens
    BY IssuedTokens DEF Inv
  <1>4. /\ \A t \in R : answers'[t] = answers[t] \o RepliesOf(t)
        /\ \A t \in Tokens \ R : answers'[t] = answers[t]
    BY <1>1, <1>3 DEF Close, CloseReplies, IsLive
  <1>5. R \in SUBSET Urbs!Open /\ Urbs!Answer(R)
    BY <1>2, <1>4, AnswerImplements
  <1>. QED
    BY <1>5

\* Every step of the executor is a step of the service or leaves it unchanged.
LEMMA NextImplements ==
    Inv /\ Inv' /\ [ServiceNext]_serviceVars => [Urbs!Next]_(Urbs!vars)
  <1>. SUFFICES ASSUME Inv, Inv', [ServiceNext]_serviceVars
                PROVE  Urbs!Next \/ UNCHANGED Urbs!vars
    OBVIOUS
  <1>1. CASE UNCHANGED serviceVars
    <2>1. \A t \in Tokens : UrbStage(t)' = UrbStage(t)
      BY <1>1
      DEF serviceVars, executorVars, history, UrbStage, Answered, Issued, LiveTokens
    <2>2. UNCHANGED answers
      BY <1>1 DEF serviceVars, history
    <2>. QED
      BY <2>1, <2>2 DEF Urbs!vars
  <1>2. ASSUME NEW r \in SubmitRequest, Submit(r) PROVE Urbs!Next
    BY <1>2, SubmitImplements DEF Urbs!Next
  <1>3. ASSUME NEW unlink \in SeqNums, NEW target \in SeqNums, Unlink(unlink, target)
        PROVE  Urbs!Next
    BY <1>3, UnlinkImplements DEF Urbs!Next
  <1>4. ASSUME NEW t \in Tokens, NEW actual \in ByteCounts, NEW dataLength \in ByteCounts,
               CompleteRequest(t, actual, dataLength)
        PROVE  Urbs!Next
    BY <1>4, CompleteImplements
    DEF CompleteRequest, Complete, IsLive, CompletionReplies, Urbs!Next
  <1>5. ASSUME NEW t \in Tokens, CancelRequest(t) PROVE Urbs!Next
    <2>1. t \in LiveTokens /\ Retire(t) /\ CancelReplies(t) = RepliesOf(t)
      BY <1>5 DEF CancelRequest, CompleteCancel, CanCancel, IsLive, CancelReplies, RepliesOf
    <2>. QED
      BY <1>5, <2>1, CompleteImplements DEF CancelRequest, Urbs!Next
  <1>6. ASSUME NEW order \in Orders(FoundTokens), Close(order) PROVE Urbs!Next
    BY <1>6, CloseImplements DEF Urbs!Next
  <1>. QED
    BY <1>1, <1>2, <1>3, <1>4, <1>5, <1>6 DEF ServiceNext

\* The executor, with its tables, its tokens and its replies, implements the
\* request service of the contract, for any number of requests.
THEOREM ExecutorImplementsService == ServiceSpec => ImplementsUrbService
  <1>. QED
    BY InitImplements, InitInv, NextInv, NextImplements, PTL
    DEF ServiceSpec, ImplementsUrbService, Urbs!Spec
=============================================================================
