----------------------------- MODULE MCLateJit -----------------------------
(***************************************************************************)
(* The instance without beacons, in which thread_jit may be later than     *)
(* TX_JIT_DELAY.  With a prompt thread_jit it is one that the theorems of  *)
(* TxPromptProofs are about.                                               *)
(***************************************************************************)
EXTENDS TxSchedule

PromptPath == INSTANCE TxPath WITH JIT_LATENCY <- 1

ASSUME PromptThreads == PromptPath!Prompt /\ ~Prompt
=============================================================================
