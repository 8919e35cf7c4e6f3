--------------------------- MODULE MCControlPlane ---------------------------
(* Two serve processes, the second of which may follow or meet the first. *)
EXTENDS ControlPlane

CONSTANTS s1, s2, c1, c2
=============================================================================
