-------------------------------- MODULE Lists --------------------------------
(* What the scheduler does with the list of a request's sequences. *)
EXTENDS Integers, SequencesExt

\* The elements of list that are in S, in their order: SelectSeq, as a recursive
\* function of the list.
Only(list, S) ==
    LET first[i \in 0 .. Len(list)] ==
          IF i = 0 THEN <<>>
          ELSE IF list[i] \in S THEN Append(first[i - 1], list[i])
          ELSE first[i - 1]
    IN  first[Len(list)]

=============================================================================
