--------------------------- MODULE MCKVMapMachine ---------------------------
(* Instance of KVMapMachine for TLC. *)
EXTENDS KVMapMachine, TLC

CONSTANTS s1, s2, b1, b2, b3, b4

MCSeqs == {s1, s2}
MCBlocks == {b1, b2, b3, b4}

\* Sequence ids and block numbers are only compared for equality.
Symmetry == Permutations(MCSeqs) \cup Permutations(MCBlocks)

=============================================================================
