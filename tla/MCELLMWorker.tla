----------------------------- MODULE MCELLMWorker -----------------------------
(* Instances of ELLMWorker for TLC: as those of ELLMScheduler. *)
EXTENDS ELLMWorker, MCELLMScheduler

=============================================================================
