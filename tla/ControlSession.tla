---------------------------- MODULE ControlSession ----------------------------
(***************************************************************************)
(* What the controller promises about one shared keyboard and mouse,       *)
(* without frames, sequence numbers, tokens, routes or layouts: control is *)
(* local, with one peer, or suspended; controls go down only while a peer  *)
(* has control; when control leaves it, a release of all that is held is   *)
(* owed, and until it is settled no peer is entered.  InputRouter is shown *)
(* to implement it.                                                        *)
(*                                                                         *)
(* session is the state of CaptureSessionStateMachine                      *)
(* (crates/rshare-core/src/session.rs), whose transitions the actions are. *)
(***************************************************************************)
CONSTANTS Peers, Edges, Controls, None

VARIABLES
    session,
    down,     \* the controls some peer holds on our behalf
    owed,     \* a release of all of them is still to be confirmed
    faulted   \* the counters that number releases have run out

vars == <<session, down, owed, faulted>>

Idle(mode) == [mode |-> mode, target |-> None, via |-> None]
LocalReady == Idle("LocalReady")
TargetUnavailable == Idle("TargetUnavailable")
BackendDegraded == Idle("BackendDegraded")
RemoteActive(p, e) == [mode |-> "RemoteActive", target |-> p, via |-> e]

Remote == session.mode = "RemoteActive"

Init ==
    /\ session = LocalReady
    /\ down = {}
    /\ owed = FALSE
    /\ faulted \in BOOLEAN

(* on_edge_hit: only from LocalReady.  The emergency sequence is new.      *)
Enter(p, e) ==
    /\ session = LocalReady
    /\ ~owed
    /\ session' = RemoteActive(p, e)
    /\ faulted' \in BOOLEAN
    /\ UNCHANGED <<down, owed>>

(* A control goes down or up while a peer has control.                     *)
Hold ==
    /\ Remote
    /\ \E c \in Controls : down' = down \cup {c} \/ down' = down \ {c}
    /\ UNCHANGED <<session, owed, faulted>>

(* on_return_edge_hit, on_target_disconnect, on_backend_degraded from      *)
(* RemoteActive, the last control event possibly among the reasons.        *)
Leave ==
    /\ Remote
    /\ session' \in {LocalReady, TargetUnavailable, BackendDegraded}
    /\ \/ UNCHANGED down
       \/ \E c \in Controls : down' = down \cup {c} \/ down' = down \ {c}
    /\ faulted' \in BOOLEAN
    /\ owed' \in BOOLEAN
    /\ owed' \/ faulted'

(* on_backend_degraded while no peer has control.                          *)
Degrade ==
    /\ ~Remote
    /\ session' = BackendDegraded
    /\ UNCHANGED <<down, owed, faulted>>

(* The owed release is sent again.                                         *)
Retry ==
    /\ owed
    /\ faulted' \in BOOLEAN
    /\ UNCHANGED <<session, down, owed>>

(* reset: only out of TargetUnavailable, and only when nothing is owed.    *)
Recover ==
    /\ session = TargetUnavailable
    /\ session' = LocalReady

Settle ==
    /\ owed
    /\ owed' = FALSE
    /\ down' = {}
    /\ \/ UNCHANGED session
       \/ Recover
    /\ UNCHANGED faulted

RecoverSettled ==
    /\ ~owed
    /\ Recover
    /\ UNCHANGED <<down, owed, faulted>>

Next ==
    \/ \E p \in Peers, e \in Edges : Enter(p, e)
    \/ Hold \/ Leave \/ Degrade \/ Retry \/ Settle \/ RecoverSettled

Spec == Init /\ [][Next]_vars
=============================================================================
