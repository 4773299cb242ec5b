----------------------------- MODULE MCExecutor -----------------------------
(***************************************************************************)
(* Model values for the executor: sequence numbers that are reused, a      *)
(* length that is admitted and one too long, and a token space that runs   *)
(* out.  Five tokens and two requests at a time let the memory of retired  *)
(* tokens (four) overflow, also in the middle of a close.                  *)
(***************************************************************************)
EXTENDS ExecutorService

MCSeqNums == {1, 2}
MCLengths == {1, 2}
=============================================================================
