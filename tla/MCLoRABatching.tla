---------------------------- MODULE MCLoRABatching ----------------------------
(* Instance of LoRABatching for TLC. *)
EXTENDS LoRABatching, TLC

CONSTANTS r1, r2, r3, a1, a2, a3, a4, bad

MCRequests == {r1, r2, r3}
MCLoRAs == {a1, a2, a3, a4, bad}
MCManaged == {a1, a4, bad}
MCUnloadable == {bad}
MCRequestable == (r1 :> {a1, Base}) @@ (r2 :> {a1, a2}) @@ (r3 :> {a3})

=============================================================================
