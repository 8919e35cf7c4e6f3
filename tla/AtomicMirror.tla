---------------------------- MODULE AtomicMirror ----------------------------
(***************************************************************************)
(* What a mirror promises to its readers: it is empty, or it is one        *)
(* published version of the file, whole.  It moves from one to the next    *)
(* in one step, and the version it moves to was the file's version at some *)
(* time not later than now.                                                *)
(***************************************************************************)
EXTENDS MirrorStore

VARIABLES
    file,   \* the version of the file at api.figma.com
    view    \* what a reader of the mirror sees

View(v, g) ==
    [ver   |-> v,
     nodes |-> [n \in Nodes |-> IF n \in LiveNodes(v) THEN FlattenFile(v, g)[n]
                                                      ELSE Absent]]

Empty == [ver |-> NoVersion, nodes |-> [n \in Nodes |-> Absent]]

Init == file = 0 /\ view = Empty

Publish ==
    /\ file < MaxVersion
    /\ file' = file + 1
    /\ UNCHANGED view

Install ==
    /\ \E v \in 0..file, g \in BOOLEAN : view' = View(v, g)
    /\ UNCHANGED file

\* pull --fresh removes the mirror before it has a new one.
Clear ==
    /\ view' = Empty
    /\ UNCHANGED file

Next == Publish \/ Install \/ Clear

Spec == Init /\ [][Next]_<<file, view>>
=============================================================================
