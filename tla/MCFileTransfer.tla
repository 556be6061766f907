------------------------- MODULE MCFileTransfer -------------------------
(* Small instances of FileTransfer for TLC.                             *)
EXTENDS FileTransfer, TLC

CONSTANTS t1, t2

MCSymmetry == Permutations(Ids)

Live == {i \in Ids : out[i].at \notin Ended \cup {"new"}}
Tried == {i \in Ids : out[i].at # "new"}

(* At most this many network events wait at a host.  Two transfers run  *)
(* at a time over the first connection, one over a second, and one      *)
(* after the other when the receiver has crashed; a dropped folder is   *)
(* the only transfer.                                                   *)
MCBound ==
    /\ \A h \in Hosts : Len(events[h]) <= 2
    /\ crashes > 0 => Cardinality(Live) <= 1
    /\ gen > 1 /\ crashes = 0 => Cardinality(Tried) <= 1
    /\ folders # {} => Tried \subseteq folders /\ Cardinality(Tried) <= 1
==========================================================================
