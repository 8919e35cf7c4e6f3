------------------------------ MODULE MCServe -------------------------------
(* Two files; time units of about MIN_TICK_DEADLINE. *)
EXTENDS Serve

CONSTANTS k1, k2

MCNoFile == {<<>>}
MCOneFile == {<<k1>>}
MCAnyFiles == {<<>>, <<k1, k2>>}
=============================================================================
