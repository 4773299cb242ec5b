--------------------------- MODULE LateCompletion ---------------------------
(***************************************************************************)
(* The executor's memory of retired tokens against what section 9 of the   *)
(* contract says of completions that come late: the service of             *)
(* ExecutorService, with a record of the requests answered by a            *)
(* cancellation.                                                           *)
(***************************************************************************)
EXTENDS ExecutorService

VARIABLE cancelled   \* tokens answered by complete_cancel() or close()

LateInit == ServiceInit /\ cancelled = {}

LateNext ==
    \/ /\ \/ \E r \in SubmitRequest : Submit(r)
          \/ \E unlink, target \in SeqNums : Unlink(unlink, target)
          \/ \E t \in Tokens, actual, dataLength \in ByteCounts :
                CompleteRequest(t, actual, dataLength)
       /\ UNCHANGED cancelled
    \/ \E t \in Tokens : CancelRequest(t) /\ cancelled' = cancelled \cup {t}
    \/ \E order \in Orders(FoundTokens) :
          Close(order) /\ cancelled' = cancelled \cup FoundTokens

LateSpec == LateInit /\ [][LateNext]_<<serviceVars, cancelled>>

\* A completion that comes after a synthetic cancellation is ignored (section 9
\* of the contract): the token is still remembered, so that complete() returns
\* without an error and not with NotFound.
LateCompletionIgnored == cancelled \subseteq retiredTokens
=============================================================================
