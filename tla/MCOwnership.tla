---------------------------- MODULE MCOwnership ----------------------------
(***************************************************************************)
(* Two keys and three values: the empty one, and v1, which is part of v2   *)
(* as "web1" is of "web10"; a variable x of the host, and a label u of a   *)
(* container, with pu what is left of it when there is no such label.      *)
(***************************************************************************)
EXTENDS Templates, TLC

CONSTANTS k1, k2, v0, v1, v2, pu, px, x, u

MCOccurs ==
    {<<v0, w>> : w \in Words} \cup {<<v1, v1>>, <<v1, v2>>, <<v2, v2>>, <<pu, pu>>, <<px, px>>}

MCPlaceholder == (x :> px) @@ (u :> pu)
MCKnown == (x :> {v0, v1, v2}) @@ (u :> {v1})

MCInherited ==
    {NoText, [form |-> "json", terms |-> {<<k1, x>>}, words |-> {}, long |-> FALSE]}
=============================================================================
