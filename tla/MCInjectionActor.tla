--------------------------- MODULE MCInjectionActor ---------------------------
(* The owners and keys that the runs of InjectionActor use.  Both only     *)
(* tell one from another, so the safety runs may exchange them.            *)
EXTENDS InjectionActor, TLC

CONSTANTS o1, o2, key, k2, button

ActorSymmetry == Permutations(Owners) \cup Permutations(Keys)
=============================================================================
