--------------------------- MODULE RequestService ---------------------------
(***************************************************************************)
(* What generate() of the asynchronous engine promises to each client: the *)
(* outputs of its request, one after the other and none twice, up to the   *)
(* last; then the end.  Only a request that somebody aborted ends before   *)
(* its last output, and only a failure is reported as one.                 *)
(***************************************************************************)
EXTENDS Naturals

CONSTANTS Clients

VARIABLES
    state,      \* "out", "open", "ended", "failed", "refused" or "gone"
    got,        \* how many outputs the client has received
    whole,      \* the last of them was the request's last
    asked       \* somebody asked for the request to be aborted

service == <<state, got, whole, asked>>

ServiceInit ==
    /\ state = [c \in Clients |-> "out"]
    /\ got = [c \in Clients |-> 0]
    /\ whole = [c \in Clients |-> FALSE]
    /\ asked = [c \in Clients |-> FALSE]

Move(c, from, to) ==
    /\ state[c] \in from
    /\ state' = [state EXCEPT ![c] = to]

Answer(c) ==
    /\ \/ Move(c, {"out"}, "open")
       \/ Move(c, {"out"}, "refused")
       \/ Move(c, {"open"}, "failed")
       \/ Move(c, {"out", "open"}, "gone")
       \/ (whole[c] \/ asked[c]) /\ Move(c, {"open"}, "ended")
    /\ UNCHANGED <<got, whole, asked>>

Deliver(c) ==
    /\ state[c] = "open"
    /\ ~whole[c]
    /\ got' = [got EXCEPT ![c] = @ + 1]
    /\ whole' \in {whole, [whole EXCEPT ![c] = TRUE]}
    /\ UNCHANGED <<state, asked>>

AskAbort(c) ==
    /\ asked' = [asked EXCEPT ![c] = TRUE]
    /\ UNCHANGED <<state, got, whole>>

ServiceSpec ==
    ServiceInit /\ [][\E c \in Clients : Answer(c) \/ Deliver(c) \/ AskAbort(c)]_service
=============================================================================
