--------------------------- MODULE MCELLMScheduler ---------------------------
(* Instances of ELLMScheduler for TLC: request r1 may fork once, r2 not. *)
EXTENDS ELLMScheduler, TLC

CONSTANTS r1, r2, s1, s2, s3, s4, b1, b2, b3, b4, c1, c2, c3, c4

MCRequests == {r1, r2}
MCSeqs == {s1, s2, s3}
MCSeqsOf == (r1 :> <<s1, s2>>) @@ (r2 :> <<s3>>)

\* ... or both may.
MCWideSeqs == {s1, s2, s3, s4}
MCWideSeqsOf == (r1 :> <<s1, s2>>) @@ (r2 :> <<s3, s4>>)

MCBlocks == {b1, b2, b3}
MCBlocks4 == {b1, b2, b3, b4}
MCCpuBlocks == {c1, c2, c3}
MCCpuBlocks2 == {c1, c2}
MCCpuBlocks4 == {c1, c2, c3, c4}

\* GPU and CPU block numbers are only compared for equality.
Symmetry == Permutations(Blocks) \cup Permutations(CpuBlocks)

=============================================================================
