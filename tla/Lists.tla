------------------------------- MODULE Lists --------------------------------
(* The loops over a sequence that several modules have. *)
EXTENDS Naturals, SequencesExt

\* What a loop over seq keeps of it: the elements that are in S.
Chosen(seq, S) ==
    FoldLeft(LAMBDA out, x : IF x \in S THEN Append(out, x) ELSE out, <<>>, seq)

=============================================================================
