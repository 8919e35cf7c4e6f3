------------------------------ MODULE MCImages ------------------------------
(* Two nodes with fills in common, two scales within a thousandth, one hash
   collision, one large render and one SVG that is no UTF-8. *)
EXTENDS Images

CONSTANTS n1, n2, r1, r2, v1, v2

MCRefs == <<r1, r2>>

MCFills == [v \in Versions \cup {NoVersion} |-> [id \in Ids |->
    CASE v # v2  -> {}
      [] id = n1 -> {r1, r2}
      [] OTHER   -> {r1}]]

MCFiled == [f \in Formats |-> IF f = "png@1.0004" THEN "png@1" ELSE f]

\* The svg of n2 has the key of the fill r2.
MCKey == [i \in Items |-> IF i = Render(n2, "svg") THEN Fill(r2) ELSE i]

MCLarge == {Render(n1, "png@1")}

MCNotUtf8 == {Render(n1, "svg")}
=============================================================================
