------------------------------ MODULE MCMirror ------------------------------
(* A file of up to two nodes and two variables that changes up to twice. *)
EXTENDS Mirror

CONSTANTS n1, n2, x1, x2, serve, c1, c2, call1, image1, a, b

\* Version 1 edits n1 and drops n2, version 2 brings n2 back.
MCBody(n, v) ==
    CASE v = 0            -> a
      [] v = 1 /\ n = n2  -> Absent
      [] OTHER            -> b

MCDoc == [v \in Versions |-> [n \in Nodes |-> MCBody(n, v)]]

\* Version 1 replaces the only variable, version 2 has both.
MCVarDoc == [v \in Versions |->
    Vars \cap (CASE v = 0 -> {x1} [] v = 1 -> {x2} [] v = 2 -> {x1, x2})]
=============================================================================
