--------------------------- MODULE MCInputRuntime ---------------------------
(* One peer behind one edge, and the layout that has no link to it.        *)
EXTENDS InputRuntime, TLC

CONSTANTS p1, left, key

MCLayouts == {left :> <<p1>>, left :> <<>>}

(* Bounds of the search: one realtime frame in an epoch, which every later *)
(* one repeats, and at most two events that the actor has yet to hear of. *)
MCBound == rtSeq <= 1 /\ Len(news) <= 2
=============================================================================
