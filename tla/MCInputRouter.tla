---------------------------- MODULE MCInputRouter ----------------------------
(* Two peers behind two edges; the layouts give an edge one peer, two      *)
(* alternatives, or none, so that a route can change under a session.      *)
EXTENDS InputRouter, TLC

CONSTANTS p1, p2, left, right, key, button

MCLayouts == {(left :> <<p1, p2>>) @@ (right :> <<>>),
              (left :> <<p2>>) @@ (right :> <<p1>>)}
=============================================================================
