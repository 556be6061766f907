----------------------------- MODULE FolderDrag -----------------------------
(***************************************************************************)
(* Files dragged from a folder of this machine to one of a peer's          *)
(* (apps/rshare-daemon/src/folder_drag_runtime.rs): the input actor tells  *)
(* an observer of the left button, of sessions and of what it sends; the   *)
(* observer queues what belongs to a gesture, under a generation that any  *)
(* interruption raises; a task reads the dragged files and ends the native *)
(* drag, each time awaiting the platform, and offers the files with the    *)
(* release that dropped them.  The peer places them only against a receipt *)
(* of its own for that release (core file_transfer.rs, injection_actor.rs). *)
(*                                                                         *)
(* There is one peer.  A press of the button stands for the files dragged  *)
(* with it, and a release for the point where it happened.  A peer that    *)
(* does not support folder drops is as one that is not connected.          *)
(***************************************************************************)
EXTENDS Naturals, SequencesExt

CONSTANTS
    ChannelCap,   \* capacity of the gesture channel
    ReceiptCap,   \* receipts kept
    PressMax,     \* bound: local presses
    ReleaseMax,   \* bound: releases sent to the peer
    EpochMax,     \* bound: sessions
    ConnMax,      \* bound: connections
    GenMax        \* bound: generations of a gesture

ASSUME DragAssumption ==
    {ChannelCap, ReceiptCap, PressMax, ReleaseMax, EpochMax, ConnMax, GenMax} \subseteq Nat \ {0}

VARIABLES
    conn, made,   \* the registry's connection to the peer, 0 if none; the last one made
    session,      \* the router's session, epoch 0 if control is local, and its connection
    epochs,       \* the last epoch
    button,       \* the user holds the left button
    movement,     \* FolderDragRuntime.movement: none, still or moved
    generation, channel,    \* the same: generation, tx
    task,         \* where run() is
    event,        \* the event it handles
    candidate,    \* the gesture it has taken out meanwhile
    gesture,      \* the gesture it keeps
    wire,         \* releases on their way to the peer's injection actor
    receipts,     \* the peer's FolderDropReceipts
    offers,       \* what has been offered, and what became of it
    presses,      \* local presses so far
    drag,         \* history: the press under way, 0 if none or interrupted
    dropped,      \* history: of each release sent, the drag that it ended
    injected      \* history: the releases the peer has injected

network == <<conn, made>>
user == <<session, epochs, button, presses>>
observer == <<movement, generation, channel>>
run == <<task, event, candidate, gesture>>
peer == <<wire, receipts, injected>>
vars == <<network, user, observer, run, peer, offers, drag, dropped>>

Local == session.epoch = 0
LocalSession == [epoch |-> 0, conn |-> 0]

Begin(p) == [kind |-> "Begin", press |-> p]
Crossed(e) == [kind |-> "Cross", epoch |-> e]
Drop(e, s) == [kind |-> "Drop", epoch |-> e, seq |-> s]
NoEvent == [kind |-> "None"]

NoGesture == [gen |-> 0, press |-> 0, epoch |-> 0, conn |-> 0, paths |-> 0]
Gestures == [gen : 0 .. GenMax, press : 0 .. PressMax, epoch : 0 .. EpochMax,
             conn : 0 .. ConnMax, paths : 0 .. PressMax]
Release(c, e, s) == [conn |-> c, epoch |-> e, seq |-> s]
Releases == [conn : 1 .. ConnMax, epoch : 1 .. EpochMax, seq : 1 .. ReleaseMax]

Init ==
    /\ conn = 0 /\ made = 0
    /\ session = LocalSession /\ epochs = 0 /\ button = FALSE /\ presses = 0
    /\ movement = "none" /\ generation = 1 /\ channel = <<>>
    /\ task = "recv" /\ event = NoEvent /\ candidate = NoGesture /\ gesture = NoGesture
    /\ wire = <<>> /\ receipts = <<>> /\ injected = {}
    /\ offers = <<>> /\ drag = 0 /\ dropped = <<>>

-----------------------------------------------------------------------------
(* The observer, called by the input actor.                                *)

\* Mutant: an event that finds no room is lost without a trace.
SendSilently(e, g) ==
    /\ generation' = g
    /\ channel' = IF Len(channel) < ChannelCap THEN Append(channel, [gen |-> g, of |-> e])
                  ELSE channel

(* FolderDragRuntime::send, once the generation is g.                      *)
Send(e, g) ==
    IF Len(channel) < ChannelCap
    THEN generation' = g /\ channel' = Append(channel, [gen |-> g, of |-> e])
    ELSE generation' = g + 1 /\ UNCHANGED channel

MayRaise(n) == generation + n <= GenMax

Cancel ==
    /\ MayRaise(1) /\ generation' = generation + 1
    /\ movement' = "none" /\ drag' = 0
    /\ UNCHANGED channel

(* A press at an unknown position only cancels.                            *)
LocalPress ==
    /\ Local /\ ~button /\ presses < PressMax
    /\ button' = TRUE /\ presses' = presses + 1
    /\ \/ /\ MayRaise(2) /\ Send(Begin(presses + 1), generation + 1)
          /\ movement' = "still" /\ drag' = presses + 1
       \/ Cancel
    /\ UNCHANGED <<network, session, epochs, run, peer, offers, dropped>>

(* At least 8 away from where the button was pressed.                      *)
LocalMove ==
    /\ Local /\ movement = "still"
    /\ movement' = "moved"
    /\ UNCHANGED <<network, user, generation, channel, run, peer, offers, drag, dropped>>

LocalRelease ==
    /\ Local /\ button
    /\ button' = FALSE
    /\ Cancel
    /\ UNCHANGED <<network, session, epochs, presses, run, peer, offers, dropped>>

Escape ==
    /\ Cancel
    /\ UNCHANGED <<network, user, run, peer, offers, dropped>>

(* A session starts: its Enter has been sent.                              *)
Enter ==
    /\ Local /\ conn # 0 /\ epochs < EpochMax
    /\ epochs' = epochs + 1
    /\ session' = [epoch |-> epochs + 1, conn |-> conn]
    /\ IF movement = "moved" THEN MayRaise(1) /\ Send(Crossed(epochs + 1), generation)
                             ELSE UNCHANGED <<generation, channel>>
    /\ UNCHANGED <<network, button, presses, movement, run, peer, offers, drag, dropped>>

(* A press while control is remote is sent, and begins nothing.            *)
RemotePress ==
    /\ ~Local /\ ~button
    /\ button' = TRUE
    /\ UNCHANGED <<network, session, epochs, presses, observer, run, peer, offers, drag, dropped>>

(* The release is sent.  What is sent over a connection that has been      *)
(* replaced is lost, whether or not the sender is told (see Leave).        *)
RemoteRelease ==
    LET seq == Len(dropped) + 1 IN
    /\ ~Local /\ button /\ seq <= ReleaseMax
    /\ button' = FALSE
    /\ MayRaise(1) /\ Send(Drop(session.epoch, seq), generation)
    /\ dropped' = Append(dropped, drag) /\ drag' = 0
    /\ wire' = IF conn = session.conn
               THEN Append(wire, Release(conn, session.epoch, seq)) ELSE wire
    /\ UNCHANGED <<network, session, epochs, presses, movement, run, receipts, injected, offers>>

(* Control comes back, by whatever way: it returns, the peer is lost, a    *)
(* send fails.  The emergency release and the change of the session each   *)
(* cancel.                                                                 *)
Leave ==
    /\ ~Local /\ session' = LocalSession
    /\ Cancel
    /\ UNCHANGED <<network, epochs, button, presses, run, peer, offers, dropped>>

-----------------------------------------------------------------------------
(* run(): the task, which awaits the platform in "begin", "paths" and      *)
(* "escape".                                                               *)

Idle(g) == task' = "recv" /\ event' = NoEvent /\ candidate' = NoGesture /\ gesture' = g
Handle(at, e, g) == task' = at /\ event' = e /\ candidate' = g /\ gesture' = NoGesture

(* release_matches, and the look at the registry before it.                *)
Matches(g, gen, drop) ==
    /\ g.gen = gen /\ g.paths # 0
    /\ conn # 0 /\ g.conn = conn /\ g.epoch = drop.epoch

(* Events of an older generation end the gesture; Cross and Drop take it.  *)
Receive ==
    /\ task = "recv" /\ channel # <<>>
    /\ channel' = Tail(channel)
    /\ LET gen == Head(channel).gen
           e == Head(channel).of
       IN  CASE gen # generation -> Idle(NoGesture)
             [] gen = generation /\ e.kind = "Begin" ->
                   task' = "begin" /\ event' = Head(channel) /\ UNCHANGED <<candidate, gesture>>
             [] gen = generation /\ e.kind = "Cross" ->
                   IF gesture.gen = gen /\ gesture.epoch = 0
                   THEN Handle("paths", Head(channel), gesture) ELSE Idle(NoGesture)
             [] gen = generation /\ e.kind = "Drop" ->
                   IF Matches(gesture, gen, e)
                   THEN Handle("offer", Head(channel), gesture) ELSE Idle(NoGesture)
    /\ UNCHANGED <<network, user, movement, generation, peer, offers, drag, dropped>>

(* begin_drag has answered.                                                *)
Begun ==
    /\ task = "begin"
    /\ \/ Idle(NoGesture)
       \/ Idle([NoGesture EXCEPT !.gen = event.gen, !.press = event.of.press])
    /\ UNCHANGED <<network, user, observer, peer, offers, drag, dropped>>

(* dragged_files has answered, with nothing or with what is being dragged  *)
(* by then: of this press or of a later one.                               *)
PathsRead ==
    /\ task = "paths"
    /\ \/ Idle(NoGesture)
       \/ \E p \in candidate.press .. presses :
             IF generation = event.gen THEN Handle("escape", event, [candidate EXCEPT !.paths = p])
                                       ELSE Idle(NoGesture)
    /\ UNCHANGED <<network, user, observer, peer, offers, drag, dropped>>

(* cancel_native_drag has returned; the gesture gets its target.           *)
NativeEnded ==
    /\ task = "escape"
    /\ \/ Idle(NoGesture)
       \/ conn # 0 /\ Idle([candidate EXCEPT !.epoch = event.of.epoch, !.conn = conn])
    /\ UNCHANGED <<network, user, observer, peer, offers, drag, dropped>>

(* start_send looks the peer up again.                                     *)
Offer ==
    /\ task = "offer"
    /\ offers' = IF conn = 0 THEN offers
                 ELSE Append(offers, [release |-> Release(conn, event.of.epoch, event.of.seq),
                                      files |-> candidate.paths, at |-> "sent"])
    /\ Idle(NoGesture)
    /\ UNCHANGED <<network, user, observer, peer, drag, dropped>>

-----------------------------------------------------------------------------
(* The network and the peer.                                               *)

Connect ==
    /\ made < ConnMax
    /\ made' = made + 1 /\ conn' = made + 1
    /\ UNCHANGED <<user, observer, run, peer, offers, drag, dropped>>

Disconnect ==
    /\ conn # 0 /\ conn' = 0
    /\ UNCHANGED <<made, user, observer, run, peer, offers, drag, dropped>>

Keep(s, cap) == IF Len(s) > cap THEN Tail(s) ELSE s

(* The injection actor injects the next release and records a receipt, or  *)
(* fails to; or the release never gets there.                              *)
Inject ==
    /\ wire # <<>> /\ wire' = Tail(wire)
    /\ \/ /\ receipts' = Keep(Append(receipts, Head(wire)), ReceiptCap)
          /\ injected' = injected \cup {Head(wire)}
       \/ UNCHANGED <<receipts, injected>>
    /\ UNCHANGED <<network, user, observer, run, offers, drag, dropped>>

(* A receipt is 10 seconds old.                                            *)
Expire ==
    /\ receipts # <<>> /\ receipts' = Tail(receipts)
    /\ UNCHANGED <<network, user, observer, run, wire, injected, offers, drag, dropped>>

\* Mutant: the owner of the receipt is not compared.
SamePoint(receipt, release) == receipt.epoch = release.epoch /\ receipt.seq = release.seq

Same(receipt, release) == receipt = release

(* NativeFolderResolver::resolve: it looks for the receipt until its       *)
(* deadline, takes it, and then looks for the folder.                      *)
Resolve(i) ==
    /\ offers[i].at = "sent"
    /\ \E r \in DOMAIN receipts :
          /\ Same(receipts[r], offers[i].release)
          /\ receipts' = RemoveAt(receipts, r)
    /\ \E end \in {"placed", "failed"} : offers' = [offers EXCEPT ![i].at = end]
    /\ UNCHANGED <<network, user, observer, run, wire, injected, drag, dropped>>

(* The deadline, a refusal, or the end of the connection.                  *)
GiveUp(i) ==
    /\ offers[i].at = "sent"
    /\ offers' = [offers EXCEPT ![i].at = "failed"]
    /\ UNCHANGED <<network, user, observer, run, peer, drag, dropped>>

User == \/ LocalPress \/ LocalMove \/ LocalRelease \/ Escape
        \/ Enter \/ RemotePress \/ RemoteRelease \/ Leave
Task == Receive \/ Begun \/ PathsRead \/ NativeEnded \/ Offer
Peer == Inject \/ Expire \/ \E i \in DOMAIN offers : Resolve(i) \/ GiveUp(i)

Next == User \/ Task \/ Peer \/ Connect \/ Disconnect

Spec == Init /\ [][Next]_vars

-----------------------------------------------------------------------------
(* Properties.                                                             *)

DragTypeOK ==
    /\ conn \in {0, made} /\ made \in 0 .. ConnMax /\ session.epoch \in {0, epochs}
    /\ generation \in 1 .. GenMax /\ Len(channel) <= ChannelCap
    /\ {candidate, gesture} \subseteq Gestures /\ Len(receipts) <= ReceiptCap
    /\ injected \subseteq Releases /\ \A i \in DOMAIN receipts : receipts[i] \in injected
    /\ task = "recv" <=> event = NoEvent

(* Types and capacities hold.  And what is offered is what the user        *)
(* dragged with the very press that the release at that point ended, with  *)
(* no Escape, return or other interruption between the two, and it is      *)
(* offered once: whatever happened while the task awaited the platform,    *)
(* and though the events of a gesture may be lost, a later click never     *)
(* drops the files of an earlier drag.                                     *)
DropFollowsDrag ==
    /\ DragTypeOK
    /\ \A i \in DOMAIN offers :
          /\ offers[i].files # 0 /\ dropped[offers[i].release.seq] = offers[i].files
          /\ \A j \in DOMAIN offers : j # i => offers[j].release.seq # offers[i].release.seq

(* Files are placed only where the peer itself has injected the release    *)
(* that dropped them, for that connection, whatever the sender claims and  *)
(* whenever the connection was replaced.                                   *)
PlacedWhereReleased ==
    \A i \in DOMAIN offers : offers[i].at = "placed" => offers[i].release \in injected

(* What folder_drop.rs says of cancel_native_drag (violated): it ends only *)
(* the native drag that has been captured, not one begun meanwhile.        *)
EndsOwnDragOnly ==
    [][ task = "escape" /\ task' = "recv" => presses = candidate.press ]_vars
=============================================================================
