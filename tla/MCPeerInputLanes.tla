---------------------------- MODULE MCPeerInputLanes ---------------------------
(* The controllers that the runs of PeerInputLanes use, and a bound.       *)
EXTENDS PeerInputLanes

CONSTANTS p1, p2

(* A second connection is made once the first has been announced and       *)
(* served and its monitor has run; what it left behind may still wait.     *)
(* Two frames are sent in all, and motion over the first only.             *)
LaneBound ==
    \/ ConnMax = 1
    \/ peer[2] = None
    \/ /\ sends <= 2 /\ net[2].datagrams = {} /\ mailbox[2] = NoFrame
       /\ news[1] # "none" /\ worker[1].pc # "off" /\ phase[1] = "ended"
=============================================================================
