--------------------------- MODULE MCBlockManagerV1 ---------------------------
(* Instances of BlockManagerV1 for TLC: request r1 may fork once, r2 not. *)
EXTENDS BlockManagerV1, TLC

CONSTANTS r1, r2, s1, s2, s3, b1, b2, b3, b4, b5, c1, c2, c3, c4

MCSeqs == {s1, s2, s3}
MCRequests == {r1, r2}
MCOneRequest == {r1}
MCSeqsOf == (r1 :> <<s1, s2>>) @@ (r2 :> <<s3>>)
MCOneSeqsOf == r1 :> <<s1, s2>>
MCGpuBlocks == {b1, b2, b3, b4, b5}
MCCpuBlocks == {c1, c2, c3, c4}

\* Block numbers are only compared for equality.
Symmetry == Permutations(GpuBlocks) \cup Permutations(CpuBlocks)

=============================================================================
