---------------------------- MODULE PeerInputLanes ----------------------------
(***************************************************************************)
(* Input on its way from one controller's sending half to the injection    *)
(* actor of this machine: the network between, the readers of a connection *)
(* (crates/rshare-net/src/transport.rs), the worker that serves it         *)
(* (apps/rshare-daemon/src/input_runtime.rs), and the events that tell the *)
(* daemon of releases and of connections.                                  *)
(*                                                                         *)
(* Frames of a session travel in order on one QUIC stream, its release on  *)
(* a stream of its own, motion in datagrams that may be lost.  Nothing     *)
(* orders the three.  Each stream is read by a task of its own; a task     *)
(* first takes a frame in under the connection's lock (Read...) and then   *)
(* queues it for the worker (Queue...).                                    *)
(***************************************************************************)
EXTENDS SenderLane, Sequences, FiniteSets

CONSTANTS
    Peers,             \* controllers
    ConnMax,           \* bound: connections made, by all of them
    EpochMax,          \* bound: sessions a controller enters
    SendMax,           \* bound: sessions entered, keys and motions sent, in all
    QueueCap,          \* room of reliable_input_rx
    Overload,          \* whether the bounded queues outside may be full
    None

Conns == 1..ConnMax

ASSUME LanesConstantsAssumption ==
    /\ None \notin Peers
    /\ {ConnMax, EpochMax, SendMax} \subseteq Nat /\ QueueCap \in Nat \ {0}
    /\ Overload \in BOOLEAN

VARIABLES
    peer,      \* whose connection it is, None if not made yet
    phase,     \* "open", "closed", or "ended": its monitor has seen that
    entered,   \* the last epoch a controller has used
    lane,      \* the sending half
    sent,      \* keys sent in its session
    sends,     \* what has been sent in all, for the bound
    net,       \* what is in flight, and the readers of its streams
    inbound,   \* QosInboundState of the receiving half
    releases,  \* TerminalReleaseEmitter: events due, and the highest epoch
    queue,     \* reliable_input_rx
    mailbox,   \* LatestRealtimeReceiver
    worker,    \* run_peer_input_lanes
    current,   \* generations: the connection served for a controller
    news,      \* what the daemon has been told of a connection
    known,     \* current_generations of main.rs
    session    \* the injection actor's admission

vars == <<peer, phase, entered, lane, sent, sends, net, inbound, releases, queue,
          mailbox, worker, current, news, known, session>>
sendVars == <<peer, entered, lane, sent, sends>>
recvVars == <<phase, inbound, releases>>
laneVars == <<queue, mailbox, worker, current>>
mainVars == <<news, known>>

Frame(kind, e, s) == [kind |-> kind, epoch |-> e, seq |-> s]
NoFrame == Frame("None", 0, 0)
Larger(a, b) == IF a > b THEN a ELSE b
Open(c) == phase[c] = "open"

-----------------------------------------------------------------------------
(* The controller.  frames: written, not yet read.  cut: reset by its      *)
(* sender.  epoch, held, gone: the reader's stream_epoch, the frame it has *)
(* taken in and not yet queued, and whether it has returned.               *)

NewStream(f) == [frames |-> <<f>>, cut |-> FALSE, epoch |-> 0, held |-> NoFrame, gone |-> FALSE]

HasStream(c) == LET s == net[c].streams IN s # <<>> /\ ~s[Len(s)].cut
Stopped(c) == HasStream(c) /\ net[c].streams[Len(net[c].streams)].gone

(* Connections of one controller follow each other.  A controller that was *)
(* restarted counts its epochs from one again.                             *)
Connect(c, p, e) ==
    /\ peer[c] = None /\ \A d \in 1..(c - 1) : peer[d] # None
    /\ \A d \in Conns : peer[d] = p => ~Open(d)
    /\ e \in {0, entered[p]}
    /\ peer' = [peer EXCEPT ![c] = p]
    /\ phase' = [phase EXCEPT ![c] = "open"]
    /\ entered' = [entered EXCEPT ![p] = e]
    /\ UNCHANGED <<lane, sent, sends, net, inbound, releases, laneVars, mainVars, session>>

Written(c, f) ==
    IF HasStream(c)
    THEN [net[c] EXCEPT !.streams[Len(net[c].streams)].frames = Append(@, f)]
    ELSE [net[c] EXCEPT !.streams = Append(@, NewStream(f))]

(* cancel_reliable_through: the frames of the epoch that were not written  *)
(* are skipped, one that was being written is lost with its stream.        *)
Cancelled(c, e) ==
    IF ~HasStream(c) THEN {net[c]}
    ELSE LET n == Len(net[c].streams)
             frames == net[c].streams[n].frames
             older == Cardinality({i \in DOMAIN frames : frames[i].epoch < e})
         IN  {[net[c] EXCEPT !.streams[n].frames = SubSeq(@, 1, k)] : k \in older..Len(frames)}
             \cup {[net[c] EXCEPT !.streams[n].frames = SubSeq(@, 1, k), !.streams[n].cut = TRUE]
                    : k \in 0..(Len(frames) - 1)}

Hurried(c, n, e) == net' = [net EXCEPT ![c] = [n EXCEPT !.urgent = @ \cup {e}]]

(* fail_reliable_frame: the session is over, and its release is sent.      *)
GivesUp(c, e, runs) ==
    /\ lane' = [lane EXCEPT ![c] = [Retire(@, e) EXCEPT !.open = runs]]
    /\ \E n \in Cancelled(c, e) : Hurried(c, n, e)

(* try_send_reliable_input and the writer behind it.  A stream the reader  *)
(* has left stops the writer for good.                                     *)
SendReliable(c, f) ==
    /\ Open(c) /\ Admits(lane[c], f)
    /\ \/ /\ lane[c].open /\ ~Stopped(c)
          /\ lane' = [lane EXCEPT ![c].active = f.epoch]
          /\ net' = [net EXCEPT ![c] = Written(c, f)]
       \/ /\ lane[c].open /\ Stopped(c)
          /\ GivesUp(c, f.epoch, FALSE)
       \/ /\ ~lane[c].open \/ Overload
          /\ GivesUp(c, f.epoch, lane[c].open)
    /\ UNCHANGED <<peer, recvVars, laneVars, mainVars, session>>

Counted == sends < SendMax /\ sends' = sends + 1

SendEnter(c) ==
    /\ peer[c] # None /\ entered[peer[c]] < EpochMax
    /\ SendReliable(c, Frame("Enter", entered[peer[c]] + 1, 0))
    /\ entered' = [entered EXCEPT ![peer[c]] = @ + 1]
    /\ sent' = [sent EXCEPT ![c] = 0]
    /\ Counted

SendKey(c) ==
    /\ lane[c].active # 0
    /\ SendReliable(c, Frame("Key", lane[c].active, sent[c] + 1))
    /\ sent' = [sent EXCEPT ![c] = @ + 1]
    /\ Counted /\ UNCHANGED entered

(* The release has a stream of its own, of higher priority.                *)
SendRelease(c) ==
    /\ Open(c) /\ lane[c].active # 0
    /\ GivesUp(c, lane[c].active, lane[c].open)
    /\ UNCHANGED <<peer, entered, sent, sends, recvVars, laneVars, mainVars, session>>

SendMotion(c) ==
    /\ Open(c) /\ lane[c].active # 0 /\ Counted
    /\ net' = [net EXCEPT ![c].datagrams = @ \cup {lane[c].active}]
    /\ UNCHANGED <<peer, entered, lane, sent, recvVars, laneVars, mainVars, session>>

Lose(c) ==
    /\ Open(c)
    /\ phase' = [phase EXCEPT ![c] = "closed"]
    /\ UNCHANGED <<sendVars, net, inbound, releases, laneVars, mainVars, session>>

-----------------------------------------------------------------------------
(* The receiving half.  active, last belong to the session under way   *)
(* (active 0 for None); retired is retired_through.                        *)

FreshInbound == [active |-> 0, last |-> 0, retired |-> 0, terminal |-> FALSE]

RetireInbound(in, e) ==
    [in EXCEPT !.retired = Larger(@, e),
               !.active = IF @ <= e THEN 0 ELSE @]

(* terminalize_qos_generation.                                             *)
Terminalize(in) == [RetireInbound(in, in.active) EXCEPT !.terminal = TRUE]

(* TerminalReleaseEmitter::emit: epochs only rise.  0 for no event.        *)
Emitted(r, e) == IF e > r.high THEN [due |-> r.due \cup {e}, high |-> e] ELSE r

Settle(c, in, closes, e) ==
    /\ inbound' = [inbound EXCEPT ![c] = in]
    /\ phase' = [phase EXCEPT ![c] = IF closes /\ Open(c) THEN "closed" ELSE @]
    /\ releases' = [releases EXCEPT ![c] = Emitted(@, e)]

Verdict(in, as, e) == [in |-> in, as |-> as, event |-> e]
Refused(in, e) == Verdict(Terminalize(RetireInbound(in, e)), "Violation", e)

(* accept_reliable_state.                                                  *)
Accept(in, f) ==
    LET superseded == f.epoch <= in.retired /\ in.active > f.epoch
        blamed == IF in.active # 0 THEN in.active ELSE f.epoch
        started == [in EXCEPT !.active = f.epoch, !.last = f.seq]
    IN  CASE in.terminal \/ superseded -> Verdict(in, "Dropped", 0)
          [] ~in.terminal /\ ~superseded /\ f.epoch <= in.retired ->
                Verdict(Terminalize(in), "Violation", f.epoch)
          [] ~in.terminal /\ f.epoch > in.retired /\ f.kind = "Enter" ->
                IF in.active = 0 THEN Verdict(started, "Accepted", 0)
                ELSE IF f.epoch > in.active
                THEN Verdict([started EXCEPT !.retired = in.active], "Accepted", in.active)
                ELSE Refused(in, blamed)
          [] ~in.terminal /\ f.epoch > in.retired /\ f.kind # "Enter" ->
                IF in.active = f.epoch /\ f.seq = in.last + 1
                THEN Verdict([in EXCEPT !.last = f.seq], "Accepted", 0)
                ELSE Refused(in, blamed)

Streams(c) == DOMAIN net[c].streams
Reads(c, i) ==
    LET s == net[c].streams[i] IN Open(c) /\ ~s.gone /\ s.held = NoFrame

Stream(c, i, s) == net' = [net EXCEPT ![c].streams[i] = s]
Ended == [frames |-> <<>>, cut |-> FALSE, epoch |-> 0, held |-> NoFrame, gone |-> TRUE]
Left(s) == [s EXCEPT !.frames = <<>>, !.held = NoFrame, !.gone = TRUE]

(* read_qos_reliable_stream, the next frame of an ordinary stream.         *)
ReadReliable(c, i) ==
    LET s == net[c].streams[i]
        f == Head(s.frames)
        v == Accept(inbound[c], f)
    IN  /\ Reads(c, i) /\ s.frames # <<>>
        /\ \/ /\ f.kind # "Enter" /\ s.epoch # f.epoch
              /\ Settle(c, Terminalize(inbound[c]), TRUE, inbound[c].active)
              /\ Stream(c, i, Left(s))
           \/ /\ f.kind = "Enter" \/ s.epoch = f.epoch
              /\ Settle(c, v.in, v.as = "Violation", v.event)
              /\ Stream(c, i, IF v.as = "Violation" THEN Left(s)
                              ELSE [s EXCEPT !.frames = Tail(@),
                                             !.held = IF v.as = "Accepted" THEN f ELSE @])
        /\ UNCHANGED <<sendVars, laneVars, mainVars, session>>

HasRoom(c) == worker[c].pc # "done" /\ Len(queue[c]) < QueueCap

(* fail_close_reliable_delivery.                                           *)
FailDelivery(c, e) ==
    LET in == inbound[c]
        owed == IF in.active # 0 THEN in.active ELSE e
    IN  Settle(c, Terminalize(in), TRUE, IF in.terminal THEN 0 ELSE owed)

QueueReliable(c, i) ==
    LET s == net[c].streams[i]
    IN  /\ s.held # NoFrame
        /\ IF HasRoom(c)
           THEN /\ queue' = [queue EXCEPT ![c] = Append(@, s.held)]
                /\ Stream(c, i, [s EXCEPT !.held = NoFrame,
                                 !.epoch = IF s.held.kind = "Enter" THEN s.held.epoch ELSE @])
                /\ UNCHANGED recvVars
           ELSE /\ FailDelivery(c, s.held.epoch)
                /\ Stream(c, i, Left(s)) /\ UNCHANGED queue
        /\ UNCHANGED <<sendVars, mailbox, worker, current, mainVars, session>>

(* A reset by the sender's cancellation (handle_terminal_cancel_reset); it *)
(* may come before what was written.                                       *)
StreamReset(c, i) ==
    LET s == net[c].streams[i]
        in == inbound[c]
        ends == s.epoch # 0 /\ in.active = s.epoch
    IN  /\ Reads(c, i) /\ s.cut
        /\ Stream(c, i, Left(s))
        /\ IF ends THEN Settle(c, RetireInbound(in, s.epoch), FALSE, s.epoch)
                   ELSE UNCHANGED recvVars
        /\ UNCHANGED <<sendVars, laneVars, mainVars, session>>

(* No frame for QOS_FRAME_PROGRESS_TIMEOUT (fail_close_active_qos).        *)
StreamIdle(c, i) ==
    LET s == net[c].streams[i]
        in == inbound[c]
        over == s.epoch # 0 /\ in.active # s.epoch /\ s.epoch <= in.retired
    IN  /\ Reads(c, i) /\ ~s.cut /\ s.frames = <<>>
        /\ Stream(c, i, Left(s))
        /\ IF over THEN UNCHANGED recvVars
                   ELSE Settle(c, Terminalize(in), TRUE, in.active)
        /\ UNCHANGED <<sendVars, laneVars, mainVars, session>>

(* read_qos_reliable_stream, the one frame of an emergency stream.         *)
ReadUrgent(c, e) ==
    LET in == inbound[c]
        late == in.terminal \/ (e <= in.retired /\ in.active > e)
        wrong == ~late /\ (e <= in.retired \/ in.active \notin {0, e})
        taken == ~late /\ ~wrong
        blamed == IF e <= in.retired THEN e ELSE in.active
    IN  /\ Open(c) /\ e \in net[c].urgent
        /\ net' = [net EXCEPT ![c].urgent = @ \ {e},
                              ![c].rushed = IF taken THEN @ \cup {e} ELSE @]
        /\ \/ late /\ UNCHANGED recvVars
           \/ wrong /\ Settle(c, Terminalize(in), TRUE, blamed)
           \/ taken /\ Settle(c, RetireInbound(in, e), FALSE, 0)
        /\ UNCHANGED <<sendVars, laneVars, mainVars, session>>

\* Mutant: the release is announced, and not queued for the worker.
AnnounceUrgent(c, e) ==
    /\ e \in net[c].rushed
    /\ net' = [net EXCEPT ![c].rushed = @ \ {e}]
    /\ Settle(c, inbound[c], FALSE, e)
    /\ UNCHANGED <<queue, sendVars, mailbox, worker, current, mainVars, session>>

QueueUrgent(c, e) ==
    /\ e \in net[c].rushed
    /\ net' = [net EXCEPT ![c].rushed = @ \ {e}]
    /\ IF HasRoom(c)
       THEN /\ queue' = [queue EXCEPT ![c] = Append(@, Frame("ReleaseAll", e, 0))]
            /\ Settle(c, inbound[c], FALSE, e)
       ELSE FailDelivery(c, e) /\ UNCHANGED queue
    /\ UNCHANGED <<sendVars, mailbox, worker, current, mainVars, session>>

(* accept_realtime_state, and the mailbox of the newest motion.  Datagrams *)
(* are lost or overtaken, and one that is not newer is dropped.            *)
ReadDatagram(c, e) ==
    /\ Open(c) /\ e \in net[c].datagrams
    /\ net' = [net EXCEPT ![c].datagrams = @ \ {e}]
    /\ \/ /\ inbound[c].active = e
          /\ mailbox' = [mailbox EXCEPT ![c] = Frame("Motion", e, 0)]
       \/ UNCHANGED mailbox
    /\ UNCHANGED <<sendVars, recvVars, queue, worker, current, mainVars, session>>

(* The monitor of install_qos.  What was in flight is gone, and so is the  *)
(* controller's half.                                                      *)
ConnectionEnds(c) ==
    /\ phase[c] = "closed"
    /\ phase' = [phase EXCEPT ![c] = "ended"]
    /\ inbound' = [inbound EXCEPT ![c] = Terminalize(@)]
    /\ releases' = [releases EXCEPT ![c] = Emitted(@, inbound[c].active)]
    /\ net' = [net EXCEPT ![c] = [@ EXCEPT !.urgent = {}, !.datagrams = {},
                    !.streams = [i \in Streams(c) |-> [Ended EXCEPT !.held = net[c].streams[i].held]]]]
    /\ lane' = [lane EXCEPT ![c] = FreshLane] /\ sent' = [sent EXCEPT ![c] = 0]
    /\ UNCHANGED <<peer, entered, sends, laneVars, mainVars, session>>

-----------------------------------------------------------------------------
(* The injection actor's admission: begin_session, try_submit_reliable and *)
(* request_release_through of InjectionActor.  rel: the sequence expected  *)
(* next, 0 before the first.  lapsed: no release ended it.                 *)

NoSession == [owner |-> 0, epoch |-> 0, open |-> FALSE, lapsed |-> FALSE, rel |-> 0]

\* Mutant: the sequence of the session before is expected to go on.
SessionOn(c, e) == [owner |-> c, epoch |-> e, open |-> TRUE, lapsed |-> FALSE, rel |-> session.rel]

SessionOf(c, e) == [NoSession EXCEPT !.owner = c, !.epoch = e, !.open = TRUE]

ReleasedThrough(c, e) ==
    IF session.owner = c /\ session.epoch <= e THEN [session EXCEPT !.open = FALSE] ELSE session

(* The lease lapses, an injection fails, or the machine is locked.         *)
SessionEnds ==
    /\ session.open
    /\ session' = [session EXCEPT !.open = FALSE, !.lapsed = TRUE]
    /\ UNCHANGED <<sendVars, net, recvVars, laneVars, mainVars>>

-----------------------------------------------------------------------------
(* The worker of a connection.                                             *)

FreshWorker == [pc |-> "off", active |-> 0, frame |-> NoFrame, failed |-> FALSE]

IsCurrent(c) == current[peer[c]] = c

(* run_authenticated_input_peers: connections are served in the order in   *)
(* which they were made.                                                   *)
ServePeer(c) ==
    /\ peer[c] # None /\ worker[c].pc = "off"
    /\ \A d \in 1..(c - 1) : worker[d].pc # "off"
    /\ worker' = [worker EXCEPT ![c].pc = "wait"]
    /\ current' = [current EXCEPT ![peer[c]] = c]
    /\ session' = IF current[peer[c]] = 0 THEN session
                  ELSE ReleasedThrough(current[peer[c]], EpochMax)
    /\ UNCHANGED <<sendVars, net, recvVars, queue, mailbox, mainVars>>

(* A frame of a connection that is not current any more is dropped.        *)
Take(c, f) ==
    /\ worker' = IF IsCurrent(c) THEN [worker EXCEPT ![c].pc = "hold", ![c].frame = f] ELSE worker
    /\ UNCHANGED <<sendVars, net, recvVars, current, mainVars, session>>

TakeReliable(c) ==
    /\ worker[c].pc = "wait" /\ queue[c] # <<>>
    /\ queue' = [queue EXCEPT ![c] = Tail(@)]
    /\ Take(c, Head(queue[c])) /\ UNCHANGED mailbox

TakeMotion(c) ==
    /\ worker[c].pc = "wait" /\ mailbox[c] # NoFrame
    /\ mailbox' = [mailbox EXCEPT ![c] = NoFrame]
    /\ Take(c, mailbox[c]) /\ UNCHANGED queue

Leaves(c, failed) ==
    worker' = [worker EXCEPT ![c] = [FreshWorker EXCEPT !.pc = "end", !.failed = failed]]

(* begin_session.                                                          *)
Begins(c) ==
    LET e == worker[c].frame.epoch
    IN  \/ /\ e > session.epoch
           /\ session' = SessionOf(c, e)
           /\ worker' = [worker EXCEPT ![c].active = e]
        \/ /\ e <= session.epoch \/ Overload
           /\ session' = ReleasedThrough(c, e)
           /\ Leaves(c, TRUE)

(* A frame of another epoch than the last one's begins a session.          *)
Begin(c) ==
    /\ worker[c].pc = "hold" /\ worker[c].active # worker[c].frame.epoch
    /\ Begins(c)
    /\ UNCHANGED <<sendVars, net, recvVars, queue, mailbox, current, mainVars>>

Waits(c) == worker' = [worker EXCEPT ![c].pc = "wait", ![c].frame = NoFrame]

Submits(c) == worker[c].pc = "hold" /\ worker[c].active = worker[c].frame.epoch
Mine(c) == session.owner = c /\ session.epoch = worker[c].active

SubmitMotion(c) ==
    /\ Submits(c) /\ worker[c].frame.kind = "Motion"
    /\ Waits(c)
    /\ UNCHANGED <<sendVars, net, recvVars, queue, mailbox, current, mainVars, session>>

SubmitRelease(c) ==
    /\ Submits(c) /\ worker[c].frame.kind = "ReleaseAll"
    /\ Mine(c) /\ session.open
    /\ session' = [session EXCEPT !.open = FALSE]
    /\ Waits(c)
    /\ UNCHANGED <<sendVars, net, recvVars, queue, mailbox, current, mainVars>>

InSequence(c) == session.rel \in {0, worker[c].frame.seq}

SubmitInput(c) ==
    /\ Submits(c) /\ worker[c].frame.kind \in {"Enter", "Key"}
    /\ Mine(c) /\ session.open /\ InSequence(c)
    /\ session' = [session EXCEPT !.rel = worker[c].frame.seq + 1]
    /\ Waits(c)
    /\ UNCHANGED <<sendVars, net, recvVars, queue, mailbox, current, mainVars>>

(* Any other answer of try_submit_reliable ends the worker: the session is *)
(* another's or is closed, the sequence has a gap, the actor is full.      *)
SubmitFails(c) ==
    LET f == worker[c].frame
        refused == ~Mine(c) \/ ~session.open \/ (f.kind # "ReleaseAll" /\ ~InSequence(c))
    IN  /\ Submits(c) /\ f.kind # "Motion"
        /\ refused \/ (Overload /\ f.kind # "ReleaseAll")
        /\ IF ~Mine(c) /\ ~IsCurrent(c)
           THEN Leaves(c, FALSE) /\ UNCHANGED session
           ELSE Leaves(c, TRUE) /\ session' = ReleasedThrough(c, f.epoch)
        /\ UNCHANGED <<sendVars, net, recvVars, queue, mailbox, current, mainVars>>

(* Both lanes have closed and are empty.                                   *)
LanesClosed(c) ==
    /\ worker[c].pc = "wait" /\ phase[c] = "ended"
    /\ queue[c] = <<>> /\ mailbox[c] = NoFrame /\ net[c].rushed = {}
    /\ \A i \in Streams(c) : net[c].streams[i].held = NoFrame
    /\ Leaves(c, FALSE)
    /\ UNCHANGED <<sendVars, net, recvVars, queue, mailbox, current, mainVars, session>>

(* The end of run_peer_input_lanes, which drops both lanes.                *)
Finish(c) ==
    /\ worker[c].pc = "end"
    /\ worker' = [worker EXCEPT ![c] = [FreshWorker EXCEPT !.pc = "done"]]
    /\ current' = IF IsCurrent(c) THEN [current EXCEPT ![peer[c]] = 0] ELSE current
    /\ session' = IF IsCurrent(c) /\ ~worker[c].failed THEN ReleasedThrough(c, EpochMax) ELSE session
    /\ queue' = [queue EXCEPT ![c] = <<>>] /\ mailbox' = [mailbox EXCEPT ![c] = NoFrame]
    /\ UNCHANGED <<sendVars, net, recvVars, mainVars>>

-----------------------------------------------------------------------------
(* The daemon's event handlers.                                            *)

(* Connected(c) is published before the connection leaves the registry.    *)
ToldConnected(c) ==
    /\ peer[c] # None /\ news[c] = "none"
    /\ \A d \in (c + 1)..ConnMax : peer[d] = peer[c] => news[d] = "none"
    /\ news' = [news EXCEPT ![c] = "up"]
    /\ known' = [known EXCEPT ![peer[c]] = c]
    /\ UNCHANGED <<sendVars, net, recvVars, laneVars, session>>

ToldDisconnected(c) ==
    /\ phase[c] \in {"closed", "ended"} /\ news[c] # "down"
    /\ news' = [news EXCEPT ![c] = "down"]
    /\ IF known[peer[c]] = c
       THEN /\ known' = [known EXCEPT ![peer[c]] = 0]
            /\ session' = ReleasedThrough(c, EpochMax)
       ELSE UNCHANGED <<known, session>>
    /\ UNCHANGED <<sendVars, net, recvVars, laneVars>>

\* Mutant: the release ends whatever session the connection has.
ReleaseTold(c, e) ==
    /\ e \in releases[c].due /\ \A f \in releases[c].due : e <= f
    /\ releases' = [releases EXCEPT ![c].due = @ \ {e}]
    /\ session' = IF known[peer[c]] = c THEN ReleasedThrough(c, EpochMax) ELSE session
    /\ UNCHANGED <<sendVars, net, phase, inbound, laneVars, mainVars>>

(* The terminal release task; cumulative, and only for a current one.      *)
ToldReleased(c, e) ==
    /\ e \in releases[c].due /\ \A f \in releases[c].due : e <= f
    /\ releases' = [releases EXCEPT ![c].due = @ \ {e}]
    /\ session' = IF known[peer[c]] = c THEN ReleasedThrough(c, e) ELSE session
    /\ UNCHANGED <<sendVars, net, phase, inbound, laneVars, mainVars>>

-----------------------------------------------------------------------------
Init ==
    /\ peer = [c \in Conns |-> None] /\ phase = [c \in Conns |-> "none"]
    /\ entered = [p \in Peers |-> 0]
    /\ lane = [c \in Conns |-> FreshLane]
    /\ sent = [c \in Conns |-> 0] /\ sends = 0
    /\ net = [c \in Conns |-> [streams |-> <<>>, urgent |-> {}, rushed |-> {}, datagrams |-> {}]]
    /\ inbound = [c \in Conns |-> FreshInbound]
    /\ releases = [c \in Conns |-> [due |-> {}, high |-> 0]]
    /\ queue = [c \in Conns |-> <<>>] /\ mailbox = [c \in Conns |-> NoFrame]
    /\ worker = [c \in Conns |-> FreshWorker]
    /\ current = [p \in Peers |-> 0] /\ known = [p \in Peers |-> 0]
    /\ news = [c \in Conns |-> "none"]
    /\ session = NoSession

Sends(c) ==
    \/ \E p \in Peers, e \in 0..EpochMax : Connect(c, p, e)
    \/ SendEnter(c) \/ SendKey(c) \/ SendRelease(c) \/ SendMotion(c) \/ Lose(c)

Reading(c) ==
    \/ \E i \in Streams(c) : ReadReliable(c, i) \/ QueueReliable(c, i) \/ StreamReset(c, i)
    \/ \E e \in 1..EpochMax : ReadUrgent(c, e) \/ QueueUrgent(c, e)
    \/ \E e \in 1..EpochMax : ReadDatagram(c, e)
    \/ ConnectionEnds(c)

Idles(c) == \E i \in Streams(c) : StreamIdle(c, i)

Work(c) ==
    \/ ServePeer(c) \/ TakeReliable(c) \/ TakeMotion(c) \/ Begin(c)
    \/ SubmitMotion(c) \/ SubmitRelease(c) \/ SubmitInput(c) \/ SubmitFails(c)
    \/ LanesClosed(c) \/ Finish(c)

Told(c) ==
    \/ ToldConnected(c) \/ ToldDisconnected(c)
    \/ \E e \in 1..EpochMax : ToldReleased(c, e)

Next ==
    \/ \E c \in Conns : Sends(c) \/ Reading(c) \/ Idles(c) \/ Work(c) \/ Told(c)
    \/ SessionEnds

Spec == Init /\ [][Next]_vars

-----------------------------------------------------------------------------
(* Properties.                                                             *)

Frames == [kind : {"None", "Enter", "Key", "ReleaseAll", "Motion"}, epoch : 0..EpochMax,
           seq : 0..SendMax]
Epochs == 0..EpochMax

(* Every variable keeps to its range, the queue to its capacity, and the   *)
(* session under way is later than every retired one.                      *)
LanesTypeOK ==
    /\ peer \in [Conns -> Peers \cup {None}]
    /\ phase \in [Conns -> {"none", "open", "closed", "ended"}]
    /\ entered \in [Peers -> Epochs] /\ lane \in [Conns -> LaneStates(Epochs)]
    /\ \A c \in Conns :
        /\ inbound[c].active \in Epochs /\ inbound[c].retired \in Epochs
        /\ inbound[c].active # 0 => inbound[c].active > inbound[c].retired /\ ~inbound[c].terminal
        /\ releases[c].due \subseteq 1..releases[c].high
        /\ Len(queue[c]) <= QueueCap /\ \A i \in DOMAIN queue[c] : queue[c][i] \in Frames
        /\ mailbox[c] \in Frames /\ worker[c].frame \in Frames
        /\ worker[c].pc \in {"off", "wait", "hold", "end", "done"}
        /\ \A i \in Streams(c) : net[c].streams[i].held \in Frames
    /\ current \in [Peers -> 0..ConnMax] /\ known \in [Peers -> 0..ConnMax]
    /\ session \in [owner : 0..ConnMax, epoch : Epochs, open : BOOLEAN, lapsed : BOOLEAN,
                    rel : 0..(SendMax + 1)]

(* Types and the queue's capacity hold.  And what the worker submits to an *)
(* open session follows what it submitted before: no order of readers,     *)
(* resets and releases makes a gap, which the actor would take for a       *)
(* violation of the protocol.                                              *)
NoGapReachesActor ==
    /\ LanesTypeOK
    /\ \A c \in Conns :
        Submits(c) /\ worker[c].frame.kind \in {"Enter", "Key"} /\ Mine(c) /\ session.open
            => InSequence(c)

\* g ends the session of epoch e when the worker comes to it.
Ends(g, e) == g.epoch > e \/ (g.kind = "ReleaseAll" /\ g.epoch = e)

(* A session that a served connection holds open is still under way at the *)
(* transport, or something is on its way to the worker that ends it: its   *)
(* release, a later session, the connection's end.  The events that the    *)
(* daemon is told, and the lease, are needed only once the worker has      *)
(* failed or been replaced.                                                *)
SessionAnswered ==
    \A c \in Conns :
        session.open /\ session.owner = c /\ worker[c].pc \in {"wait", "hold"} /\ IsCurrent(c)
        => LET e == session.epoch
           IN  \/ ~Open(c)
               \/ inbound[c].active = e
               \/ \E i \in DOMAIN queue[c] : Ends(queue[c][i], e)
               \/ Ends(worker[c].frame, e)
               \/ \E i \in Streams(c) : Ends(net[c].streams[i].held, e)
               \/ \E f \in net[c].urgent \cup net[c].rushed : f >= e

(* A session still under way at the transport, on a connection that is up  *)
(* and served, is closed by nothing but its lease or a full actor: never   *)
(* by a release, a reset or an event of an earlier session.                *)
LateReleaseSparesNewer ==
    [][ \A c \in Conns :
          /\ session.open /\ session.owner = c /\ ~session'.open
          /\ Open(c) /\ IsCurrent(c) /\ inbound[c].active = session.epoch
          => SessionEnds \/ (Overload /\ SubmitFails(c)) ]_vars

(* What the comment on the progress timeout says (violated): only a peer   *)
(* that is slow to send a frame is cut off, so that a connection of two    *)
(* correct ends whose queues have room is closed by its loss alone.        *)
ClosedByLossOnly ==
    [][ \A c \in Conns : Open(c) /\ ~Open(c)' => Lose(c) ]_vars

(* What the plan says of releases (violated): the next session may follow  *)
(* on the same connection, so that a release does not end its worker.      *)
LaneServed ==
    \A c \in Conns : Open(c) /\ worker[c].pc \in {"end", "done"} => session.lapsed

(* What the plan says of reconnections (violated): a connection that has   *)
(* been replaced begins no session any more.                               *)
OldGenerationQuiet ==
    [][ \A c \in Conns : session' # session /\ session'.open /\ session'.owner = c
            => IsCurrent(c) ]_vars
=============================================================================
