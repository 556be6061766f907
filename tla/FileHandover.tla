---------------------------- MODULE FileHandover ----------------------------
(***************************************************************************)
(* What a file transfer promises its two users, whatever the connection    *)
(* does: the sender is told that a transfer is complete only when the      *)
(* files are all in place at the receiver, and what is in place stays.     *)
(* The converse is not promised: the receiver may have the files while the *)
(* sender is told that the transfer failed.                                *)
(***************************************************************************)
CONSTANT Ids

VARIABLES
    told,   \* what the sender's user sees of each transfer
    placed  \* the transfers whose files are in place

vars == <<told, placed>>

Init == told = [i \in Ids |-> "new"] /\ placed = {}

Offer(i) ==
    /\ told[i] = "new"
    /\ told' = [told EXCEPT ![i] = "open"]
    /\ UNCHANGED placed

Place(i) ==
    /\ told[i] # "new" /\ i \notin placed
    /\ placed' = placed \cup {i}
    /\ UNCHANGED told

Complete(i) ==
    /\ told[i] = "open" /\ i \in placed
    /\ told' = [told EXCEPT ![i] = "completed"]
    /\ UNCHANGED placed

GiveUp(i) ==
    /\ told[i] = "open"
    /\ \E s \in {"failed", "cancelled"} : told' = [told EXCEPT ![i] = s]
    /\ UNCHANGED placed

Next == \E i \in Ids : Offer(i) \/ Place(i) \/ Complete(i) \/ GiveUp(i)

Spec == Init /\ [][Next]_vars
=============================================================================
