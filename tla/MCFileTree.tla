----------------------------- MODULE MCFileTree -----------------------------
(* Two pages and two layers: one is a frame with a stroke or a component, the *)
(* other a frame with two styles and a variable bound twice, or an instance   *)
(* of either component.                                                       *)
EXTENDS DesignSystem

CONSTANTS root, p1, p2, l1, l2, lib, set1, fill, v1, v2

Of(type, component, styles, bound, raw) ==
    [type |-> type, component |-> component, styles |-> styles, bound |-> bound, raw |-> raw]

MCLooksOf ==
    l1 :> {Of("FRAME", None, {<<"stroke", fill>>}, {}, "/fills" :> "white" @@ "/strokes" :> "blue"),
           Of("COMPONENT", None, {}, {<<"/fills/0/color", v1>>}, "/fills/0/color" :> "red")}
 @@ l2 :> {Of("FRAME", None, {<<"fill", fill>>, <<"stroke", fill>>}, {<<"/w", v1>>, <<"/h", v1>>},
              "/fills" :> "blue" @@ "/w" :> "4" @@ "/h" :> "4"),
           Of("INSTANCE", l1, {}, {}, <<>>),
           Of("INSTANCE", lib, {}, {}, <<>>)}

MCComponent == l1 :> [key |-> "k1", name |-> "Primary", set |-> set1]
               @@ lib :> [key |-> "k2", name |-> "Button", set |-> None]
MCSetName == set1 :> "Button"
MCStyle == fill :> [type |-> "FILL", value |-> "blue"]

MCRank == <<p1, l1, l2>>
MCIdOrder == <<root, p1, l1, l2, p2>>
=============================================================================
