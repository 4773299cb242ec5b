-------------------------- MODULE ExecutorService --------------------------
(***************************************************************************)
(* The executor with the history its users can observe: which SUBMIT each  *)
(* token stands for, which UNLINK was accepted for it, and every reply     *)
(* given for it.  The history never guards a step.                         *)
(*                                                                         *)
(* Not steps here, because they change neither state nor history: refused  *)
(* calls, completions of tokens that are not live, and UNLINKs whose       *)
(* target is not live, which are answered on the spot by NoEntryReply.     *)
(***************************************************************************)
EXTENDS Executor

VARIABLES
    admitted,   \* admitted[t]: sequence number of the SUBMIT given token t
    unlinkOf,   \* unlinkOf[t]: sequence number of the UNLINK accepted for it
    answers     \* answers[t]: the replies returned for it, in order

history == <<admitted, unlinkOf, answers>>
serviceVars == <<executorVars, history>>

NotAdmitted == 0

ServiceInit ==
    /\ ExecutorInit
    /\ admitted = [t \in Tokens |-> NotAdmitted]
    /\ unlinkOf = [t \in Tokens |-> NoUnlink]
    /\ answers = [t \in Tokens |-> <<>>]

Submit(r) ==
    /\ AcceptSubmit(r)
    /\ admitted' = [admitted EXCEPT ![nextToken] = r.seq]
    /\ UNCHANGED <<unlinkOf, answers>>

\* The cancel event names the token stored with the target.
Unlink(unlink, target) ==
    /\ AcceptUnlink(unlink, target)
    /\ unlinkOf' = [unlinkOf EXCEPT ![pendingBySequence[target].token] = unlink]
    /\ UNCHANGED <<admitted, answers>>

CompleteRequest(t, actual, dataLength) ==
    /\ Complete(t, actual, dataLength)
    /\ answers' = [answers EXCEPT ![t] = @ \o CompletionReplies(t)]
    /\ UNCHANGED <<admitted, unlinkOf>>

CancelRequest(t) ==
    /\ CompleteCancel(t)
    /\ answers' = [answers EXCEPT ![t] = @ \o CancelReplies(t)]
    /\ UNCHANGED <<admitted, unlinkOf>>

Close(order) ==
    /\ CloseExecutor(order)
    /\ answers' = [t \in Tokens |->
                     IF IsLive(t) THEN answers[t] \o CloseReplies(t) ELSE answers[t]]
    /\ UNCHANGED <<admitted, unlinkOf>>

ServiceNext ==
    \/ \E r \in SubmitRequest : Submit(r)
    \/ \E unlink, target \in SeqNums : Unlink(unlink, target)
    \/ \E t \in Tokens, actual, dataLength \in ByteCounts :
          CompleteRequest(t, actual, dataLength)
    \/ \E t \in Tokens : CancelRequest(t)
    \/ \E order \in Orders(FoundTokens) : Close(order)

ServiceSpec == ServiceInit /\ [][ServiceNext]_serviceVars

-----------------------------------------------------------------------------
Issued == 1 .. nextToken - 1
Answered == Issued \ LiveTokens

\* The executor's fields and the history hold values of their types.
TypeOK ==
    /\ nextToken \in 1 .. MaxToken
    /\ DOMAIN pendingBySequence \subseteq SeqNums
    /\ \A s \in DOMAIN pendingBySequence : pendingBySequence[s] \in Pending
    /\ LiveTokens \subseteq Issued
    /\ \A t \in LiveTokens : sequenceByToken[t] \in SeqNums
    /\ retiredTokens \subseteq Issued
    /\ admitted \in [Tokens -> SeqNums \cup {NotAdmitted}]
    /\ unlinkOf \in [Tokens -> SeqNums \cup {NoUnlink}]
    /\ DOMAIN answers = Tokens

\* The two indexes of the live requests are inverse to each other, so that no
\* lookup by token can end in CoreError::Internal and no request is stranded
\* in one index after the other has lost it.
IndexesAgree ==
    /\ \A t \in LiveTokens :
          /\ sequenceByToken[t] \in DOMAIN pendingBySequence
          /\ Request(t).token = t
    /\ \A s \in DOMAIN pendingBySequence :
          /\ pendingBySequence[s].token \in LiveTokens
          /\ sequenceByToken[pendingBySequence[s].token] = s

\* The replies a finished request was owed: a RET_SUBMIT with the sequence
\* number it was admitted under and then, if an UNLINK of it was accepted, a
\* RET_UNLINK with that UNLINK's sequence number.
AnsweredInFull(t) ==
    /\ Len(answers[t]) = (IF unlinkOf[t] = NoUnlink THEN 1 ELSE 2)
    /\ answers[t][1].kind = "RetSubmit" /\ answers[t][1].seq = admitted[t]
    /\ unlinkOf[t] # NoUnlink =>
          answers[t][2].kind = "RetUnlink" /\ answers[t][2].seq = unlinkOf[t]

\* Every admitted SUBMIT is answered exactly once and every accepted UNLINK
\* exactly once, however completions, cancellations, reuse of sequence numbers
\* and close() interleave; a live request has no answer yet.
AnsweredExactlyOnce ==
    /\ \A t \in Answered : AnsweredInFull(t)
    /\ \A t \in Tokens \ Answered : answers[t] = <<>>

\* A completion is swallowed in silence only for a request that has its
\* answer: the remembered tokens are answered ones, and the memory of them
\* keeps to its bound.
SilenceOnlyAfterAnswer ==
    /\ retiredTokens \subseteq Answered
    /\ Cardinality(retiredTokens) <= RetiredCapacity

\* The executor implements the service the protocol promises: its tables and
\* its replies make each request go once from open to done.
UrbStage(t) ==
    CASE t \notin Issued -> "unused"
      [] t \in Answered -> "done"
      [] t \in LiveTokens /\ unlinkOf[t] = NoUnlink -> "open"
      [] t \in LiveTokens /\ unlinkOf[t] # NoUnlink -> "unlinking"

Urbs == INSTANCE UrbService WITH
            Requests <- Tokens,
            MaxConcurrent <- MaxInflight,
            urb <- [t \in Tokens |-> UrbStage(t)],
            replies <- [t \in Tokens |-> Len(answers[t])]

ImplementsUrbService == Urbs!Spec
=============================================================================
