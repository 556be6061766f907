------------------------------ MODULE SenderLane ------------------------------
(***************************************************************************)
(* The sending half of one authenticated connection as far as input needs  *)
(* it: PeerTransportHandle of crates/rshare-net/src/qos.rs.  A lane admits *)
(* the reliable frames of one epoch at a time.  Its ReleaseAll retires the *)
(* epoch, cancels the frames of it that still wait, and travels on an      *)
(* emergency lane with room for one frame; so does the release the lane    *)
(* sends by itself when it cannot keep an epoch's frames.                  *)
(*                                                                         *)
(* The operators return the outcomes a call may have: the lane afterwards  *)
(* and whether the call succeeded.                                         *)
(***************************************************************************)
EXTENDS Integers

\* active, retired: SenderEpochState, 0 for None (no session has epoch 0).
\* waiting: the reliable channel is not empty.  open: its writer runs.
\* slot: emergency_reserved.  lost: the QUIC connection is gone.
FreshLane == [active |-> 0, retired |-> 0, waiting |-> FALSE, open |-> TRUE,
              slot |-> FALSE, lost |-> FALSE]

LaneStates(epochs) == [active : epochs, retired : epochs, waiting : BOOLEAN,
                       open : BOOLEAN, slot : BOOLEAN, lost : BOOLEAN]

Outcome(lane, ok) == [lane |-> lane, ok |-> ok]

\* Mutant: a retired epoch stays the active one.
RetireStillActive(lane, e) == [lane EXCEPT !.retired = IF e > @ THEN e ELSE @]

(* SenderEpochState::retire.                                               *)
Retire(lane, e) ==
    [lane EXCEPT !.retired = IF e > @ THEN e ELSE @,
                 !.active = IF @ = e THEN 0 ELSE @]

(* enqueue_emergency_locked: with its one slot taken it gives the whole    *)
(* connection up (fail_emergency_locked).                                  *)
EnqueueEmergency(lane) ==
    IF lane.slot THEN Outcome([lane EXCEPT !.lost = TRUE], FALSE)
                 ELSE Outcome([lane EXCEPT !.slot = TRUE], TRUE)

(* fail_reliable_frame: the lane itself releases the epoch it gives up.    *)
GiveUp(lane, e) == EnqueueEmergency(Retire(lane, e)).lane

(* The bounded channel behind try_send_reliable_input: it may be full, and *)
(* is closed once its writer has returned.                                 *)
QueueOutcomes(lane, e) ==
    (IF lane.open THEN {Outcome([lane EXCEPT !.waiting = TRUE], TRUE)} ELSE {})
    \cup
    (IF ~lane.open \/ lane.waiting THEN {Outcome(GiveUp(lane, e), FALSE)} ELSE {})

\* Mutant: a ReleaseAll is admitted on a connection that was never entered.
AdmitsAnyRelease(lane, frame) ==
    CASE frame.kind = "Enter" -> lane.active = 0 /\ frame.epoch > lane.retired
      [] frame.kind = "ReleaseAll" -> frame.epoch > lane.retired
      [] OTHER -> lane.active = frame.epoch

(* The admission test of try_send_reliable_input.                          *)
Admits(lane, frame) ==
    IF frame.kind = "Enter" THEN lane.active = 0 /\ frame.epoch > lane.retired
                            ELSE lane.active = frame.epoch

(* try_send_reliable_input.                                                *)
ReliableOutcomes(lane, frame) ==
    IF ~Admits(lane, frame) THEN {Outcome(lane, FALSE)}
    ELSE IF frame.kind = "ReleaseAll"
         THEN {EnqueueEmergency(Retire(lane, frame.epoch))}
         ELSE QueueOutcomes([lane EXCEPT !.active = frame.epoch], frame.epoch)

(* try_send_realtime: a datagram of a retired epoch is dropped.            *)
RealtimeSent(lane, frame) == frame.epoch > lane.retired /\ ~lane.lost

(* The reliable writer: it writes or skips what waits, or loses a frame of *)
(* the active epoch with the connection (fail_reliable_writer_frame).      *)
WriterOutcomes(lane) ==
    (IF lane.waiting /\ lane.open /\ (~lane.lost \/ lane.active = 0)
     THEN {[lane EXCEPT !.waiting = FALSE]} ELSE {})
    \cup
    (IF lane.waiting /\ lane.open /\ lane.lost
     THEN {[(IF lane.active # 0 THEN GiveUp(lane, lane.active) ELSE lane)
                EXCEPT !.open = FALSE]} ELSE {})

(* The emergency writer; when its write fails the slot stays taken.        *)
EmergencyWritten(lane) ==
    IF lane.slot /\ ~lane.lost THEN {[lane EXCEPT !.slot = FALSE]} ELSE {}
=============================================================================
