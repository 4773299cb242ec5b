----------------------------- MODULE UrbService -----------------------------
(***************************************************************************)
(* What the protocol promises about USB requests, without the engine's     *)
(* tables (src/contract/protocol-v1.md, section 9): a request is admitted  *)
(* within the concurrency limit, may be unlinked once while it is open,    *)
(* and is answered once, with one reply, or with two when an UNLINK of it  *)
(* was accepted.  Closing answers everything still open in one step.       *)
(***************************************************************************)
EXTENDS Integers, FiniteSets

CONSTANTS
    Requests,       \* identities of requests, each used once
    MaxConcurrent   \* how many may be open at a time

VARIABLES
    urb,      \* urb[r]: the stage request r is in
    replies   \* replies[r]: how many replies request r has received

vars == <<urb, replies>>

Stages == {"unused", "open", "unlinking", "done"}
Open == {r \in Requests : urb[r] \in {"open", "unlinking"}}
RepliesDue(r) == IF urb[r] = "unlinking" THEN 2 ELSE 1

Init ==
    /\ urb = [r \in Requests |-> "unused"]
    /\ replies = [r \in Requests |-> 0]

Admit(r) ==
    /\ urb[r] = "unused"
    /\ Cardinality(Open) < MaxConcurrent
    /\ urb' = [urb EXCEPT ![r] = "open"]
    /\ UNCHANGED replies

Unlink(r) ==
    /\ urb[r] = "open"
    /\ urb' = [urb EXCEPT ![r] = "unlinking"]
    /\ UNCHANGED replies

Answer(R) ==
    /\ urb' = [r \in Requests |-> IF r \in R THEN "done" ELSE urb[r]]
    /\ replies' = [r \in Requests |->
                     IF r \in R THEN replies[r] + RepliesDue(r) ELSE replies[r]]

Next ==
    \/ \E r \in Requests : Admit(r) \/ Unlink(r)
    \/ \E R \in SUBSET Open : Answer(R)

Spec == Init /\ [][Next]_vars
=============================================================================
