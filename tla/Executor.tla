------------------------------ MODULE Executor ------------------------------
(***************************************************************************)
(* The request executor of the session engine (src/src/executor.rs).       *)
(*                                                                         *)
(* It admits SUBMIT requests of the peer, hands each to the platform under *)
(* a fresh token, and answers it once: with the platform's completion,     *)
(* with a cancellation, or with a synthetic cancellation at close.  Two    *)
(* hash maps index the live requests, by sequence number and by token; a   *)
(* bounded set remembers tokens whose late completions are to be ignored.  *)
(*                                                                         *)
(* A call the code refuses leaves every field as it is, so a refusal is a  *)
(* stutter here; the guards have names because the engine that owns the    *)
(* executor (module Transport) reacts to the refusals.                     *)
(*                                                                         *)
(* Data is reduced to what the replies depend on: a request is its         *)
(* sequence number, direction and buffer length.  The status a reply       *)
(* carries is left out.                                                    *)
(***************************************************************************)
EXTENDS Integers, Sequences, FiniteSets, Functions

CONSTANTS
    SeqNums,          \* sequence numbers peers use (u32, never zero)
    Lengths,          \* transfer_buffer_length values requests carry
    MaxInflight,      \* Executor::max_inflight
    MaxTransferSize,  \* Executor::max_transfer_size
    MaxToken,         \* the largest token value (u64::MAX in the code)
    HeaderSize        \* bytes of an URB header (pdu::HEADER_SIZE)

ASSUME ExecutorAssumption ==
    /\ SeqNums \subseteq Nat \ {0}
    /\ Lengths \subseteq Nat
    /\ MaxInflight \in Nat \ {0}
    /\ MaxTransferSize \in Nat \ {0}
    /\ MaxToken \in Nat \ {0}
    /\ HeaderSize \in Nat \ {0}

VARIABLES
    nextToken,          \* token of the next admitted request
    pendingBySequence,  \* live requests: sequence number -> Pending
    sequenceByToken,    \* live requests: token -> sequence number
    retiredTokens       \* answered tokens still remembered

executorVars == <<nextToken, pendingBySequence, sequenceByToken, retiredTokens>>

-----------------------------------------------------------------------------
\* Option::None of unlink_seqnum; a decoded sequence number is never zero.
NoUnlink == 0

Directions == {"In", "Out"}

SubmitRequest == [seq : SeqNums, dir : Directions, len : Lengths]

\* Tokens start at one, and the largest value is never handed out: computing
\* its successor overflows first.
Tokens == 1 .. MaxToken - 1

Pending == [token : Tokens, dir : Directions, len : Lengths,
            unlink : SeqNums \cup {NoUnlink}]

EmptyMap == [x \in {} |-> x]

\* HashMap::insert and HashMap::remove.
Insert(map, key, value) ==
    [k \in DOMAIN map \cup {key} |-> IF k = key THEN value ELSE map[k]]
Remove(map, keys) == Restrict(map, DOMAIN map \ keys)

-----------------------------------------------------------------------------
LiveTokens == DOMAIN sequenceByToken
Inflight == Cardinality(DOMAIN pendingBySequence)

\* Both lookups succeed; otherwise the code reports NotFound or Internal.
IsLive(t) == t \in LiveTokens /\ sequenceByToken[t] \in DOMAIN pendingBySequence

Request(t) == pendingBySequence[sequenceByToken[t]]

\* What accept_submit demands of a request before it takes a token.
CanAdmit(r) ==
    /\ r.len <= MaxTransferSize
    /\ r.seq \notin DOMAIN pendingBySequence
    /\ Inflight < MaxInflight
    /\ nextToken < MaxToken

\* An UNLINK finds its target live; a target not live is answered at once.
IsPending(target) == target \in DOMAIN pendingBySequence

\* A second UNLINK of one request is refused as a duplicate.
CanUnlink(target) ==
    IsPending(target) /\ pendingBySequence[target].unlink = NoUnlink

\* Byte counts a completion may report or carry and still fit some request.
ByteCounts == 0 .. MaxTransferSize

\* A completion must fit the request: an IN completion carries exactly the
\* bytes it reports, an OUT completion none, and neither exceeds the buffer.
FitsRequest(t, actual, dataLength) ==
    /\ dataLength = (IF Request(t).dir = "In" THEN actual ELSE 0)
    /\ actual <= Request(t).len

-----------------------------------------------------------------------------
(* Replies.  An operation returns the replies of one token as a sequence.  *)

RetSubmit(t) == [kind |-> "RetSubmit", seq |-> sequenceByToken[t], token |-> t]
RetUnlink(t, unlink) == [kind |-> "RetUnlink", seq |-> unlink, token |-> t]

\* No request is behind an UNLINK whose target is not live.
NoToken == 0
NoEntryReply(unlink) == RetUnlink(NoToken, unlink)

\* Bytes of the RET_SUBMIT of a completion: the data of an IN transfer follows
\* the header.
SubmitReplySize(t, actual) ==
    HeaderSize + (IF Request(t).dir = "In" THEN actual ELSE 0)

\* The RET_SUBMIT, then the RET_UNLINK when the request is being unlinked.
RepliesOf(t) ==
    IF Request(t).unlink = NoUnlink
    THEN <<RetSubmit(t)>>
    ELSE <<RetSubmit(t), RetUnlink(t, Request(t).unlink)>>

\* complete() reports the platform's completion, complete_cancel(), which
\* demands an UNLINK, a cancellation and the outcome of the UNLINK.
CompletionReplies(t) == RepliesOf(t)
CancelReplies(t) == <<RetSubmit(t), RetUnlink(t, Request(t).unlink)>>

\* close() cancels every live request; as a variant it forgets the UNLINKs.
CloseRepliesWithoutUnlink(t) == <<RetSubmit(t)>>
CloseReplies(t) == RepliesOf(t)

-----------------------------------------------------------------------------
(* The bounded memory of answered tokens: once it holds twice max_inflight *)
(* tokens, it is emptied before the next one is added.                     *)

RetiredCapacity == 2 * MaxInflight

\* As a variant, the memory is emptied one token too late.
RememberRetiredLate(remembered, t) ==
    (IF Cardinality(remembered) > RetiredCapacity THEN {} ELSE remembered) \cup {t}

RememberRetired(remembered, t) ==
    (IF Cardinality(remembered) >= RetiredCapacity THEN {} ELSE remembered) \cup {t}

\* close() walks the live tokens in the order of a hash map, which may be any.
Orders(tokens) == {o \in [1 .. Cardinality(tokens) -> tokens] : IsInjective(o)}

\* The memory after a whole walk: the tokens that filled it are forgotten.
RememberAll(remembered, order) ==
    LET room == RetiredCapacity - Cardinality(remembered)
    IN  IF Len(order) <= room
        THEN remembered \cup Range(order)
        ELSE Range(SubSeq(order, room + 1, Len(order)))

-----------------------------------------------------------------------------
ExecutorInit ==
    /\ nextToken = 1
    /\ pendingBySequence = EmptyMap
    /\ sequenceByToken = EmptyMap
    /\ retiredTokens = {}

\* accept_pdu of a CMD_SUBMIT; the platform is told of the new token.  As a
\* variant, the token is not used up.
AcceptSubmitSameToken(r) ==
    /\ CanAdmit(r)
    /\ sequenceByToken' = Insert(sequenceByToken, nextToken, r.seq)
    /\ pendingBySequence' =
         Insert(pendingBySequence, r.seq,
                [token |-> nextToken, dir |-> r.dir, len |-> r.len, unlink |-> NoUnlink])
    /\ UNCHANGED <<nextToken, retiredTokens>>

AcceptSubmit(r) ==
    /\ CanAdmit(r)
    /\ nextToken' = nextToken + 1
    /\ sequenceByToken' = Insert(sequenceByToken, nextToken, r.seq)
    /\ pendingBySequence' =
         Insert(pendingBySequence, r.seq,
                [token |-> nextToken, dir |-> r.dir, len |-> r.len, unlink |-> NoUnlink])
    /\ UNCHANGED retiredTokens

\* accept_pdu of a CMD_UNLINK whose target is live; the platform is asked to
\* cancel, and the reply waits for it.
AcceptUnlink(unlink, target) ==
    /\ CanUnlink(target)
    /\ pendingBySequence' = [pendingBySequence EXCEPT ![target].unlink = unlink]
    /\ UNCHANGED <<nextToken, sequenceByToken, retiredTokens>>

\* The request leaves both indexes; as a variant, only the one by sequence.
RetireIndexLeft(t) ==
    /\ UNCHANGED <<sequenceByToken, nextToken>>
    /\ pendingBySequence' = Remove(pendingBySequence, {sequenceByToken[t]})
    /\ retiredTokens' = RememberRetired(retiredTokens, t)

Retire(t) ==
    /\ sequenceByToken' = Remove(sequenceByToken, {t})
    /\ pendingBySequence' = Remove(pendingBySequence, {sequenceByToken[t]})
    /\ retiredTokens' = RememberRetired(retiredTokens, t)
    /\ UNCHANGED nextToken

Complete(t, actual, dataLength) ==
    /\ IsLive(t)
    /\ FitsRequest(t, actual, dataLength)
    /\ Retire(t)

\* As a variant, a cancellation needs no UNLINK.
CanCancelAny(t) == IsLive(t)
CanCancel(t) == IsLive(t) /\ Request(t).unlink # NoUnlink

CompleteCancel(t) == CanCancel(t) /\ Retire(t)

\* close() drops every token, but answers and remembers only those whose
\* request is found, in the given order.
FoundTokens == {t \in LiveTokens : IsLive(t)}

CloseExecutor(order) ==
    /\ sequenceByToken' = EmptyMap
    /\ pendingBySequence' =
         Remove(pendingBySequence, {sequenceByToken[t] : t \in LiveTokens})
    /\ retiredTokens' = RememberAll(retiredTokens, order)
    /\ UNCHANGED nextToken

ExecutorNext ==
    \/ \E r \in SubmitRequest : AcceptSubmit(r)
    \/ \E unlink, target \in SeqNums : AcceptUnlink(unlink, target)
    \/ \E t \in Tokens, actual, dataLength \in ByteCounts : Complete(t, actual, dataLength)
    \/ \E t \in Tokens : CompleteCancel(t)
    \/ \E order \in Orders(FoundTokens) : CloseExecutor(order)

ExecutorSpec == ExecutorInit /\ [][ExecutorNext]_executorVars
=============================================================================
