----------------------------- MODULE InputRuntime -----------------------------
(***************************************************************************)
(* The daemon's input actor (apps/rshare-daemon/src/input_runtime.rs): it  *)
(* runs the router and executes the router's outputs one by one on the     *)
(* connections the peers have at that moment.  An output that fails is     *)
(* handled by the router at once, and what that returns is executed before *)
(* the outputs that were already waiting.                                  *)
(*                                                                         *)
(* Around it, connections appear, break and are replaced at any time; the  *)
(* registry follows them first and the ConnectivityChanged command later.  *)
(***************************************************************************)
EXTENDS InputRouter, SenderLane

CONSTANT ConnMax   \* bound: connections one peer makes in a behaviour

ASSUME ConnMaxAssumption == ConnMax \in Nat

Conns == 1..ConnMax

VARIABLES
    alive,         \* the actor's loop runs
    binding,       \* active_transports: the connection a peer's session uses
    currentEpoch,  \* current_epoch, the epoch that projections carry
    projected,     \* pressed_keys and pressed_buttons
    published,     \* the session state that was published last
    suppressed,    \* whether local shortcuts are suppressed
    made,          \* how many connections each peer has made so far
    registry,      \* ConnectionRegistry: the current one, 0 if none
    lanes,         \* the sending half of each connection
    announced,     \* the last one whose Connected event was published
    known,         \* current_generations, the daemon's view, 0 if none
    news,          \* ConnectivityChanged commands on their way to the actor
    carriers       \* history: the connections that took frames of an epoch

actorVars == <<alive, binding, currentEpoch, projected, published, suppressed>>
connVars == <<made, registry, lanes, announced, known>>
netVars == <<connVars, news>>
runtimeVars == <<vars, actorVars, netVars, carriers>>

Quiet == outbox = <<>>
HeldSet == {c \in Controls : held[c] # 0}

(* Two outputs of the actor's own: the code that follows the dispatch of a *)
(* fault and of the final Shutdown.                                        *)
FaultOut == Output("AdvanceFaultEpoch", None, None, None)
StopOut == Output("Stop", None, None, None)

-----------------------------------------------------------------------------
(* Commands and captured input: the actor takes the next one only when the *)
(* outputs of the last have all been executed.                             *)

HandleCommand ==
    /\ alive /\ Quiet
    /\ Command(<<>>)
    /\ UNCHANGED <<actorVars, netVars, carriers>>

HandleConnectivity ==
    /\ alive /\ Quiet
    /\ news # <<>>
    /\ news' = Tail(news)
    /\ LET n == Head(news)
       IN  IF n.up <=> n.peer \in connected
           THEN UNCHANGED vars
           ELSE \/ n.up /\ PeerConnected(n.peer, <<>>)
                \/ ~n.up /\ PeerDisconnected(n.peer, <<>>)
    /\ UNCHANGED <<actorVars, connVars, carriers>>

(* process_ingress_event(Fault): capture overflow or discontinuity.        *)
IngressFault ==
    /\ alive /\ Quiet
    /\ BackendDegraded(<<FaultOut>>)
    /\ UNCHANGED <<actorVars, netVars, carriers>>

(* Commands or ingress closed: a last Shutdown, then the loop ends.        *)
ChannelsClosed ==
    /\ alive /\ Quiet
    /\ IF IsRemote THEN ReturnToLocal(<<StopOut>>)
                   ELSE outbox' = <<StopOut>> /\ UNCHANGED routerVars
    /\ UNCHANGED <<actorVars, netVars, carriers>>

-----------------------------------------------------------------------------
(* dispatch_outputs, one output at a time.                                 *)

NextOutIs(type) == ~Quiet /\ Head(outbox).type = type

Carry(frame, p, g, sent) ==
    carriers' = IF sent THEN [carriers EXCEPT ![frame.epoch] = @ \cup {<<p, g>>}] ELSE carriers

DispatchRealtime ==
    /\ NextOutIs("SendRealtime")
    /\ LET p == Head(outbox).target
           frame == Head(outbox).frame
       IN  /\ currentEpoch' = frame.epoch
           /\ Carry(frame, p, binding[p],
                    binding[p] # 0 /\ RealtimeSent(lanes[p][binding[p]], frame))
    /\ outbox' = Tail(outbox)
    /\ UNCHANGED <<routerVars, alive, binding, projected, published, suppressed, netVars>>

(* try_send_reliable on connection g of p, if there is one.                *)
TrySend(p, g, frame, ok) ==
    IF g = 0 THEN ok = FALSE /\ UNCHANGED <<lanes, carriers>>
    ELSE \E out \in ReliableOutcomes(lanes[p][g], frame) :
            /\ out.ok = ok
            /\ lanes' = [lanes EXCEPT ![p][g] = out.lane]
            /\ Carry(frame, p, g, ok)

(* apply_reliable_projection.                                              *)
Project(frame) ==
    CASE frame.kind = "Press" -> projected \cup {frame.control}
      [] frame.kind = "Release" -> projected \ {frame.control}
      [] frame.kind = "ReleaseAll" -> {}
      [] OTHER -> projected

EnterBinding(p, frame) ==
    IF frame.kind = "Enter" /\ registry[p] # 0 THEN registry[p] ELSE binding[p]

DispatchReliable ==
    /\ NextOutIs("SendReliable")
    /\ LET p == Head(outbox).target
           frame == Head(outbox).frame
           g == EnterBinding(p, frame)
       IN  /\ currentEpoch' = frame.epoch
           /\ binding' = [binding EXCEPT ![p] = g]
           /\ \/ /\ TrySend(p, g, frame, TRUE)
                 /\ projected' = Project(frame)
                 /\ outbox' = Tail(outbox)
                 /\ UNCHANGED routerVars
              \/ /\ TrySend(p, g, frame, FALSE)
                 /\ BackendDegraded(Tail(outbox))
                 /\ UNCHANGED projected
    /\ UNCHANGED <<alive, published, suppressed, made, registry, announced, known, news>>

(* A release uses the session's connection, or else the current one, and   *)
(* is the last thing that connection is kept for.                          *)
ReleaseBinding(p) == IF binding[p] # 0 THEN binding[p] ELSE registry[p]

Unbound(p) == [binding EXCEPT ![p] = 0]

DispatchEmergency ==
    /\ NextOutIs("EmergencyReleaseAll")
    /\ LET p == Head(outbox).target
           frame == Head(outbox).frame
           token == Head(outbox).value
       IN  /\ currentEpoch' = frame.epoch
           /\ binding' = Unbound(p)
           /\ \E ok \in BOOLEAN :
                /\ TrySend(p, ReleaseBinding(p), frame, ok)
                /\ projected' = IF ok THEN Project(frame) ELSE projected
                /\ IF token # None
                   THEN ReleaseAllCompleted(token, ok, Tail(outbox))
                   ELSE outbox' = Tail(outbox) /\ UNCHANGED routerVars
    /\ UNCHANGED <<alive, published, suppressed, made, registry, announced, known, news>>

DispatchSession ==
    /\ NextOutIs("LocalSessionChanged")
    /\ published' = Head(outbox).value
    /\ outbox' = Tail(outbox)
    /\ UNCHANGED <<routerVars, alive, binding, currentEpoch, projected, suppressed,
                   netVars, carriers>>

DispatchSuppress ==
    /\ NextOutIs("SuppressLocalShortcuts")
    /\ suppressed' = Head(outbox).value
    /\ outbox' = Tail(outbox)
    /\ UNCHANGED <<routerVars, alive, binding, currentEpoch, projected, published,
                   netVars, carriers>>

DispatchMetric ==
    /\ NextOutIs("Metric")
    /\ outbox' = Tail(outbox)
    /\ UNCHANGED <<routerVars, actorVars, netVars, carriers>>

\* Mutant: the fault epoch is not checked against the last one.
AdvanceUnchecked ==
    /\ NextOutIs("AdvanceFaultEpoch")
    /\ currentEpoch' = currentEpoch + 1 /\ projected' = {}
    /\ outbox' = Tail(outbox)
    /\ UNCHANGED <<routerVars, alive, binding, published, suppressed, netVars, carriers>>

(* advance_fault_epoch: at the last epoch nothing changes.                 *)
AdvanceFaultEpoch ==
    /\ NextOutIs("AdvanceFaultEpoch")
    /\ IF currentEpoch < EpochMax
       THEN currentEpoch' = currentEpoch + 1 /\ projected' = {}
       ELSE UNCHANGED <<currentEpoch, projected>>
    /\ outbox' = Tail(outbox)
    /\ UNCHANGED <<routerVars, alive, binding, published, suppressed, netVars, carriers>>

(* The loop ends and the actor is dropped.                                 *)
Stop ==
    /\ NextOutIs("Stop")
    /\ alive' = FALSE
    /\ suppressed' = FALSE
    /\ outbox' = Tail(outbox)
    /\ UNCHANGED <<routerVars, binding, currentEpoch, projected, published, netVars, carriers>>

Dispatch ==
    \/ DispatchRealtime \/ DispatchReliable \/ DispatchEmergency
    \/ DispatchSession \/ DispatchSuppress \/ DispatchMetric
    \/ AdvanceFaultEpoch \/ Stop

-----------------------------------------------------------------------------
(* The connections.  A connection may break at any time.  A new one takes  *)
(* the place of none or of a broken one in the registry at once; the event *)
(* that tells of it, and the one that tells of the end of the old one, are *)
(* published later, in either order.  The daemon turns an event into a     *)
(* command for the actor unless it is about a connection it no longer      *)
(* takes for the peer's current one.                                       *)

PeerUp(p) ==
    /\ registry[p] # 0 => lanes[p][registry[p]].lost
    /\ made[p] < ConnMax
    /\ made' = [made EXCEPT ![p] = @ + 1]
    /\ registry' = [registry EXCEPT ![p] = made'[p]]
    /\ UNCHANGED <<vars, actorVars, lanes, announced, known, news, carriers>>

PeerDown(p) ==
    /\ registry[p] # 0
    /\ registry' = [registry EXCEPT ![p] = 0]
    /\ UNCHANGED <<vars, actorVars, made, lanes, announced, known, news, carriers>>

Tell(p, g, up) ==
    /\ known' = [known EXCEPT ![p] = g]
    /\ news' = Append(news, [peer |-> p, up |-> up])
    /\ UNCHANGED <<vars, actorVars, made, registry, lanes, carriers>>

(* spawn_connected_publisher, once for each connection still current.      *)
ConnectedPublished(p) ==
    /\ registry[p] # 0 /\ announced[p] # registry[p]
    /\ announced' = [announced EXCEPT ![p] = registry[p]]
    /\ Tell(p, registry[p], TRUE)

(* The Disconnected event of a connection that left the registry.          *)
DisconnectedPublished(p) ==
    /\ known[p] # 0 /\ known[p] # registry[p]
    /\ Tell(p, 0, FALSE) /\ UNCHANGED announced

(* A stream the peer got wrong: the daemon counts the peer as gone, the    *)
(* connection stays as it is.                                              *)
ProtocolError(p) ==
    /\ known[p] # 0 /\ known[p] = registry[p]
    /\ Tell(p, 0, FALSE) /\ UNCHANGED announced

ConnectionLost(p, g) ==
    /\ g <= made[p] /\ ~lanes[p][g].lost
    /\ lanes' = [lanes EXCEPT ![p][g].lost = TRUE]
    /\ UNCHANGED <<vars, actorVars, made, registry, announced, known, news, carriers>>

LaneWrites(p, g) ==
    /\ \E lane \in WriterOutcomes(lanes[p][g]) \cup EmergencyWritten(lanes[p][g]) :
            lanes' = [lanes EXCEPT ![p][g] = lane]
    /\ UNCHANGED <<vars, actorVars, made, registry, announced, known, news, carriers>>

-----------------------------------------------------------------------------
RuntimeInit ==
    /\ RouterInit
    /\ connected = {}
    /\ alive = TRUE
    /\ binding = [p \in Peers |-> 0]
    /\ currentEpoch = 0
    /\ projected = {}
    /\ published = LocalReady
    /\ suppressed = FALSE
    /\ made = [p \in Peers |-> 0]
    /\ registry = [p \in Peers |-> 0]
    /\ lanes = [p \in Peers |-> [g \in Conns |-> FreshLane]]
    /\ announced = [p \in Peers |-> 0]
    /\ known = [p \in Peers |-> 0]
    /\ news = <<>>
    /\ carriers = [e \in 1..EpochMax |-> {}]

Actor == HandleCommand \/ HandleConnectivity \/ IngressFault \/ ChannelsClosed

Network ==
    \E p \in Peers :
        \/ PeerUp(p) \/ PeerDown(p)
        \/ ConnectedPublished(p) \/ DisconnectedPublished(p) \/ ProtocolError(p)
        \/ \E g \in Conns : ConnectionLost(p, g) \/ LaneWrites(p, g)

RuntimeNext == Actor \/ Dispatch \/ Network

RuntimeSpec == RuntimeInit /\ [][RuntimeNext]_runtimeVars

-----------------------------------------------------------------------------
(* Properties.                                                             *)

OutputTypes == {"SendRealtime", "SendReliable", "EmergencyReleaseAll", "LocalSessionChanged",
                "SuppressLocalShortcuts", "Metric", "AdvanceFaultEpoch", "Stop"}

(* Every variable of the actor and of its surroundings keeps to its range. *)
RuntimeTypeOK ==
    /\ RouterTypeOK
    /\ \A i \in DOMAIN outbox : outbox[i].type \in OutputTypes
    /\ alive \in BOOLEAN /\ suppressed \in BOOLEAN
    /\ binding \in [Peers -> 0..ConnMax] /\ registry \in [Peers -> 0..ConnMax]
    /\ made \in [Peers -> 0..ConnMax]
    /\ announced \in [Peers -> 0..ConnMax] /\ known \in [Peers -> 0..ConnMax]
    /\ currentEpoch \in 0..EpochMax
    /\ projected \subseteq Controls
    /\ published \in Sessions
    /\ lanes \in [Peers -> [Conns -> LaneStates(0..EpochMax)]]
    /\ \A i \in DOMAIN news : news[i] \in [peer : Peers, up : BOOLEAN]
    /\ carriers \in [1..EpochMax -> SUBSET (Peers \X Conns)]

ShortcutsFollow ==
    alive => /\ suppressed <=> IsRemote
             /\ published = session \/ (~IsRemote /\ published = TargetUnavailable)
ProjectionFollows ==
    projected \subseteq HeldSet /\ (IsRemote /\ nextToken # TokenMax => projected = HeldSet)

(* Between commands, and as long as the router can forward at all, what    *)
(* this machine shows agrees with the router: the keyboard is local again  *)
(* exactly when the router is, the daemon is told of a session exactly     *)
(* when there is one, and the controls shown as held are those held for    *)
(* the peer in control, or were and are still to be released.  (With no    *)
(* batch token left a peer may be entered while the ledger still holds     *)
(* what an earlier one was told to release.)                               *)
LocalViewFollowsSession ==
    Quiet /\ session # BackendDegradedState => ShortcutsFollow /\ ProjectionFollows

Controlled(p) == IsRemote /\ session.target = p

(* Between commands only the peer in control keeps its connection bound,   *)
(* and it is bound, so that its frames have somewhere to go; and no other  *)
(* lane is open to a session's frames, nor is that one to those of another *)
(* session, whatever became of the releases of the earlier ones.           *)
LanesFollowSession ==
    Quiet => \A p \in Peers :
        /\ binding[p] # 0 <=> Controlled(p)
        /\ \A g \in Conns :
              lanes[p][g].active # 0 =>
                  Controlled(p) /\ g = binding[p] /\ lanes[p][g].active = epoch

(* All frames of a session go over one connection: a reconnection in the   *)
(* middle of a session or of its release never continues it on another.    *)
OneCarrierPerEpoch ==
    \A e \in 1..EpochMax : \A c1, c2 \in carriers[e] : c1 = c2

(* What the UI-state plan says of the published projection (violated: a    *)
(* target lost by a layout change is still connected, so its release is    *)
(* confirmed and the session recovers while the news of its suspension is  *)
(* still waiting to be published).                                         *)
PublishedSessionCurrent ==
    alive /\ Quiet /\ session # BackendDegradedState => published = session

(* What the suppression tests say of a degraded backend (violated: when    *)
(* the Enter itself fails, the outputs still waiting from the successful   *)
(* entry are executed after those that took it back).                      *)
SuppressionClearsOnDegrade ==
    Quiet /\ session = BackendDegradedState => ~suppressed

(* What the reconnect test says of a failed release (violated: the release *)
(* sent again goes to a new connection, which admits only the ReleaseAll   *)
(* of an epoch entered over it).                                           *)
ReconnectRecovers ==
    alive /\ Quiet /\ news = <<>> /\ session = TargetUnavailable /\ ~ReleaseFaulted =>
        \/ suspendedTarget \notin connected
        \/ registry[suspendedTarget] = 0
        \/ lanes[suspendedTarget][registry[suspendedTarget]].lost

(* What the plan says of a malformed stream, that it closes only that      *)
(* stream (violated: the daemon counts the peer as gone until it connects  *)
(* anew, which the registry refuses while the connection lives).           *)
LiveConnectionUsable ==
    alive /\ Quiet /\ news = <<>> =>
        \A p \in Peers : registry[p] # 0 /\ announced[p] = registry[p]
            /\ ~lanes[p][registry[p]].lost => p \in connected
=============================================================================
