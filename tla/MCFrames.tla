------------------------------ MODULE MCFrames ------------------------------
(* Every stream of up to six bytes, up to nine of the two commonest. *)
EXTENDS Frames

MCStreams ==
    BoundedSeq({"n", "r", "x"}, 6) \cup BoundedSeq({"n", "bad", "x"}, 5)
      \cup BoundedSeq({"n", "x"}, 9)
=============================================================================
