----------------------------- MODULE InputRouter -----------------------------
(***************************************************************************)
(* The controller's input router (crates/rshare-core/src/input_router.rs): *)
(* a single-owner state machine that decides whether captured input stays  *)
(* local or goes to one remote peer, numbers the frames it sends, and owes *)
(* that peer a ReleaseAll for everything it holds down whenever control    *)
(* leaves it.  It performs no I/O: every command returns a list of         *)
(* outputs, which an outer layer executes.                                 *)
(*                                                                         *)
(* Every handler takes the outputs that were still waiting (rest) and puts *)
(* its own in front of them, which is the order in which a nested command  *)
(* handled in the middle of dispatching (module InputRuntime) emits them.  *)
(* Here rest is empty.                                                     *)
(***************************************************************************)
EXTENDS Integers, Sequences

CONSTANTS
    Peers,          \* device ids of the other machines
    Edges,          \* Direction: the sides of the local desktop
    Keys, Buttons,  \* the controls a pressed-state ledger keeps
    Layouts,        \* the layout graphs: per edge, its links in order
    None,           \* Option::None
    EpochMax,       \* u64::MAX of SessionEpoch
    SeqMax,         \* u64::MAX of both frame sequences
    GenMax,         \* u64::MAX of the ledger's control generations
    TokenMax,       \* u64::MAX of the ledger's release-batch tokens
    RouteGenMax     \* u64::MAX of the route-cache generation

Controls == Keys \cup Buttons

ASSUME ConstantsAssumption ==
    /\ None \notin Peers \cup Controls \cup Edges \cup Nat
    /\ Keys \cap Buttons = {}
    /\ Layouts # {} /\ Layouts \subseteq [Edges -> Seq(Peers)]
    /\ EpochMax \in Nat \ {0} /\ SeqMax \in Nat \ {0}
    /\ GenMax \in Nat \ {0} /\ TokenMax \in Nat \ {0} /\ RouteGenMax \in Nat \ {0}

(* A release batch that is not confirmed yet.                              *)
Batches == [token : 1..TokenMax, held : [Controls -> 0..GenMax], target : Peers]

ASSUME NoBatchAssumption == None \notin Batches

VARIABLES
    session,          \* CaptureSessionStateMachine.state
    suspendedTarget,  \* the peer whose return ends a TargetUnavailable
    connected,        \* connected_peers
    layout,
    routes,           \* RouteCache: the peer behind each edge
    routeGen,         \* its generation
    epoch,
    rtSeq, relSeq,    \* next realtime and reliable sequence
    emergMax,         \* emergency_max_sequence_consumed
    anchor,           \* latest_anchor_sequence
    held,             \* pressed: generation of each held control, 0 if up
    nextGen, nextToken,
    pending,          \* pending_release; its target is history, for properties
    pointer,          \* the target of remote_pointer
    outbox            \* outputs returned and not yet executed

countVars == <<rtSeq, relSeq, emergMax, anchor>>
ledgerVars == <<held, nextGen, nextToken, pending>>
routeVars == <<connected, layout, routes, routeGen>>
routerVars == <<session, suspendedTarget, routeVars, epoch, countVars, ledgerVars, pointer>>
vars == <<routerVars, outbox>>

-----------------------------------------------------------------------------
(* Session states: one record type for ControlSessionState.                *)

Modes == {"LocalReady", "RemoteActive", "TargetUnavailable", "BackendDegraded"}
Sessions == [mode : Modes, target : Peers \cup {None}, via : Edges \cup {None}]

Idle(mode) == [mode |-> mode, target |-> None, via |-> None]
LocalReady == Idle("LocalReady")
TargetUnavailable == Idle("TargetUnavailable")
BackendDegradedState == Idle("BackendDegraded")
RemoteActive(p, e) == [mode |-> "RemoteActive", target |-> p, via |-> e]

IsRemote == session.mode = "RemoteActive"

(* Outputs.  A frame carries its epoch and sequence, what it says, the     *)
(* control it is about and, for a button, the anchor it was pressed at.    *)

Frame(s, kind, control, anch) ==
    [epoch |-> epoch, seq |-> s, kind |-> kind, control |-> control, anchor |-> anch]
Output(type, target, frame, value) ==
    [type |-> type, target |-> target, frame |-> frame, value |-> value]

SendReliableOut(p, frame) == Output("SendReliable", p, frame, None)
SendRealtimeOut(p, frame) == Output("SendRealtime", p, frame, None)
EmergencyOut(p, frame, token) == Output("EmergencyReleaseAll", p, frame, token)
SessionOut(s) == Output("LocalSessionChanged", s.target, None, s)
SuppressOut(on) == Output("SuppressLocalShortcuts", None, None, on)
MetricOut(m) == Output("Metric", None, None, m)

\* Mutant: leaving a peer forgets the suppression of local shortcuts.
LeavingSuppressed(s) == <<SessionOut(s)>>

LeavingOuts(s) == <<SessionOut(s), SuppressOut(FALSE)>>

-----------------------------------------------------------------------------
(* RouteCache::build: the first link of an edge whose peer is connected.   *)

\* Mutant: the first link, whether or not its peer is connected.
LeadsToFirst(links, up, p) == links # <<>> /\ links[1] = p

LeadsTo(links, up, p) ==
    \E i \in DOMAIN links :
        /\ links[i] = p /\ p \in up
        /\ \A j \in 1..(i - 1) : links[j] \notin up

BuildRoutes(graph, up) ==
    [e \in Edges |-> IF \E p \in Peers : LeadsTo(graph[e], up, p)
                     THEN CHOOSE p \in Peers : LeadsTo(graph[e], up, p)
                     ELSE None]

(* rebuild_routes, after layout and connected have their new values.       *)
RebuildRoutes ==
    IF routeGen < RouteGenMax
    THEN /\ routeGen' = routeGen + 1
         /\ routes' = BuildRoutes(layout', connected')
    ELSE /\ routes' = [e \in Edges |-> None]
         /\ UNCHANGED routeGen

RebuiltOut == IF routeGen < RouteGenMax THEN <<MetricOut("RouteCacheRebuilt")>>
                                        ELSE <<MetricOut("CounterExhausted")>>

-----------------------------------------------------------------------------
(* push_emergency_release: may use the last sequence number once, reuses a *)
(* batch that is still pending, and otherwise snapshots the ledger.        *)

EmergencyExhausted == relSeq = SeqMax /\ emergMax
NewBatch == ~EmergencyExhausted /\ pending = None /\ nextToken < TokenMax
LedgerFault == ~EmergencyExhausted /\ pending = None /\ nextToken = TokenMax

ReleaseToken == IF pending # None THEN pending.token
                ELSE IF nextToken < TokenMax THEN nextToken ELSE None

EmergencyOuts(p) ==
    IF EmergencyExhausted THEN <<MetricOut("CounterExhausted")>>
    ELSE <<EmergencyOut(p, Frame(relSeq, "ReleaseAll", None, 0), ReleaseToken)>>

\* Mutant: the batch is taken from the ledger before the last control event.
PushStaleSnapshot(p) ==
    /\ relSeq' = IF relSeq < SeqMax THEN relSeq + 1 ELSE relSeq
    /\ emergMax' = (emergMax \/ relSeq = SeqMax)
    /\ nextToken' = IF NewBatch THEN nextToken + 1 ELSE nextToken
    /\ pending' = IF NewBatch THEN [token |-> nextToken, held |-> held, target |-> p]
                              ELSE pending

\* Mutant: the emergency sequence is not checked against the last number.
PushUnchecked(p) ==
    /\ relSeq' = relSeq + 1
    /\ UNCHANGED emergMax
    /\ nextToken' = IF NewBatch THEN nextToken + 1 ELSE nextToken
    /\ pending' = IF NewBatch THEN [token |-> nextToken, held |-> held', target |-> p]
                              ELSE pending

PushEmergencyRelease(p) ==
    /\ relSeq' = IF relSeq < SeqMax THEN relSeq + 1 ELSE relSeq
    /\ emergMax' = (emergMax \/ relSeq = SeqMax)
    /\ nextToken' = IF NewBatch THEN nextToken + 1 ELSE nextToken
    /\ pending' = IF NewBatch THEN [token |-> nextToken, held |-> held', target |-> p]
                              ELSE pending

(* handle_counter_exhausted and handle_pressed_ledger_fault: release what  *)
(* is held and give forwarding up; only the metric differs.                *)
DegradeWith(p, metric, rest) ==
    /\ PushEmergencyRelease(p)
    /\ session' = BackendDegradedState
    /\ pointer' = None
    /\ outbox' = EmergencyOuts(p) \o LeavingOuts(BackendDegradedState)
                 \o <<MetricOut(metric)>> \o rest

-----------------------------------------------------------------------------
(* Captured input.                                                         *)

(* handle_absolute_move while local: the pointer reached a routed edge.    *)
\* Mutant: a peer is entered while a release is still owed.
MayEnterOwing(e) == session = LocalReady /\ routes[e] # None

MayEnter(e) == session = LocalReady /\ pending = None /\ routes[e] # None

\* Mutant: the number the Enter took is given out again.
StartAtZero ==
    /\ relSeq' = 0 /\ rtSeq' = 1
    /\ emergMax' = FALSE
    /\ anchor' = 0

(* Both sequences restart; the Enter and the first anchor take number 0.   *)
StartCounters ==
    /\ relSeq' = 1 /\ rtSeq' = 1
    /\ emergMax' = FALSE
    /\ anchor' = 0

EnterRemote(e, rest) ==
    /\ MayEnter(e)
    /\ epoch < EpochMax
    /\ epoch' = epoch + 1
    /\ StartCounters
    /\ session' = RemoteActive(routes[e], e)
    /\ pointer' = routes[e]
    /\ outbox' = << SendReliableOut(routes[e], [Frame(0, "Enter", None, 0) EXCEPT !.epoch = epoch']),
                    SendRealtimeOut(routes[e], [Frame(0, "Anchor", None, 0) EXCEPT !.epoch = epoch']),
                    SessionOut(session'), SuppressOut(TRUE) >> \o rest
    /\ UNCHANGED <<suspendedTarget, routeVars, ledgerVars>>

EnterExhausted(e, rest) ==
    /\ MayEnter(e)
    /\ epoch = EpochMax
    /\ session' = BackendDegradedState
    /\ outbox' = LeavingOuts(BackendDegradedState) \o <<MetricOut("CounterExhausted")>> \o rest
    /\ UNCHANGED <<suspendedTarget, routeVars, epoch, countVars, ledgerVars, pointer>>

(* send_realtime: a pointer frame moves the anchor, gamepad axes do not.   *)
SendRealtime(kind, rest) ==
    /\ IsRemote
    /\ IF rtSeq < SeqMax
       THEN /\ rtSeq' = rtSeq + 1
            /\ anchor' = IF kind = "Axes" THEN anchor ELSE rtSeq
            /\ outbox' = <<SendRealtimeOut(session.target, Frame(rtSeq, kind, None, 0))>> \o rest
            /\ UNCHANGED <<session, relSeq, emergMax, ledgerVars, pointer>>
       ELSE /\ UNCHANGED <<rtSeq, anchor, held, nextGen>>
            /\ DegradeWith(session.target, "CounterExhausted", rest)
    /\ UNCHANGED <<suspendedTarget, routeVars, epoch>>

(* send_reliable, after the ledger has been updated.                       *)
SendReliable(kind, c, rest) ==
    IF relSeq < SeqMax
    THEN /\ relSeq' = relSeq + 1
         /\ outbox' = <<SendReliableOut(session.target, Frame(relSeq, kind, c,
                                         IF c \in Buttons THEN anchor ELSE 0))>> \o rest
         /\ UNCHANGED <<session, emergMax, nextToken, pending, pointer>>
    ELSE DegradeWith(session.target, "CounterExhausted", rest)

(* Key and MouseButton, pressed (down) or released.                        *)
PressOrRelease(c, down, rest) ==
    /\ IsRemote
    /\ IF down /\ held[c] = 0 /\ nextGen = GenMax
       THEN /\ UNCHANGED <<held, nextGen>>
            /\ DegradeWith(session.target, "PressedStateLedgerFault", rest)
       ELSE /\ held' = [held EXCEPT ![c] = IF ~down THEN 0 ELSE IF @ = 0 THEN nextGen ELSE @]
            /\ nextGen' = IF down /\ held[c] = 0 THEN nextGen + 1 ELSE nextGen
            /\ SendReliable(IF down THEN "Press" ELSE "Release", c, rest)
    /\ UNCHANGED <<suspendedTarget, routeVars, epoch, rtSeq, anchor>>

(* Wheel, TextCommit, gamepad connection and buttons: no ledger.           *)
OtherReliable(rest) ==
    /\ IsRemote
    /\ UNCHANGED <<held, nextGen>>
    /\ SendReliable("Other", None, rest)
    /\ UNCHANGED <<suspendedTarget, routeVars, epoch, rtSeq, anchor>>

-----------------------------------------------------------------------------
(* return_to_local: QuickReturn, SystemSuspended, LeaseExpired, Shutdown,  *)
(* or the remote pointer crossing the edge it entered by, when a bounded   *)
(* last move may precede the release.                                      *)

ReturnToLocalAfter(moved, rest) ==
    LET handback == IF LedgerFault THEN BackendDegradedState ELSE LocalReady
    IN  /\ IsRemote
        /\ UNCHANGED <<suspendedTarget, routeVars, epoch, held, nextGen>>
        /\ PushEmergencyRelease(session.target)
        /\ session' = handback
        /\ pointer' = None
        /\ outbox' = moved \o EmergencyOuts(session.target) \o LeavingOuts(handback)
                     \o (IF LedgerFault THEN <<MetricOut("PressedStateLedgerFault")>> ELSE <<>>)
                     \o rest

ReturnToLocal(rest) ==
    /\ ReturnToLocalAfter(<<>>, rest)
    /\ UNCHANGED <<rtSeq, anchor>>

CrossReturnEdge(rest) ==
    /\ pointer = session.target
    /\ \/ ReturnToLocal(rest)
       \/ /\ rtSeq < SeqMax
          /\ rtSeq' = rtSeq + 1 /\ anchor' = rtSeq
          /\ ReturnToLocalAfter(
                <<SendRealtimeOut(session.target, Frame(rtSeq, "Relative", None, 0))>>, rest)

BackendDegraded(rest) ==
    /\ UNCHANGED <<routeVars, epoch, rtSeq, anchor, held, nextGen>>
    /\ IF IsRemote
       THEN /\ PushEmergencyRelease(session.target)
            /\ outbox' = EmergencyOuts(session.target)
                         \o LeavingOuts(BackendDegradedState)
                         \o (IF LedgerFault THEN <<MetricOut("PressedStateLedgerFault")>> ELSE <<>>)
                         \o rest
       ELSE /\ outbox' = LeavingOuts(BackendDegradedState) \o rest
            /\ UNCHANGED <<relSeq, emergMax, nextToken, pending>>
    /\ session' = BackendDegradedState
    /\ suspendedTarget' = None
    /\ pointer' = None

-----------------------------------------------------------------------------
(* Topology.                                                               *)

\* Mutant: the target is given up without owing it a release.
LoseTargetSilently(p) ==
    /\ session' = TargetUnavailable
    /\ suspendedTarget' = p
    /\ pointer' = None
    /\ UNCHANGED <<relSeq, emergMax, nextToken, pending>>

(* The part of both handlers that takes control away from a lost target.   *)
LoseTarget(p) ==
    /\ PushEmergencyRelease(p)
    /\ session' = TargetUnavailable
    /\ suspendedTarget' = p
    /\ pointer' = None

\* Mutant: the desktop is handed back before the release is sent.
HandbackFirstOuts(p) == LeavingOuts(TargetUnavailable) \o EmergencyOuts(p)

LoseTargetOuts(p) ==
    EmergencyOuts(p) \o LeavingOuts(TargetUnavailable)
    \o (IF LedgerFault THEN <<MetricOut("PressedStateLedgerFault")>> ELSE RebuiltOut)

LayoutChanged(graph, rest) ==
    /\ graph # layout
    /\ layout' = graph
    /\ UNCHANGED <<connected, held, nextGen, epoch, rtSeq, anchor>>
    /\ RebuildRoutes
    /\ IF IsRemote /\ routes'[session.via] # session.target
       THEN /\ LoseTarget(session.target)
            /\ outbox' = LoseTargetOuts(session.target) \o rest
       ELSE /\ outbox' = RebuiltOut \o rest
            /\ UNCHANGED <<session, suspendedTarget, relSeq, emergMax, nextToken, pending, pointer>>

PeerDisconnected(p, rest) ==
    /\ p \in connected
    /\ connected' = connected \ {p}
    /\ UNCHANGED <<layout, held, nextGen, epoch, rtSeq, anchor>>
    /\ RebuildRoutes
    /\ IF IsRemote /\ session.target = p
       THEN /\ LoseTarget(p)
            /\ outbox' = LoseTargetOuts(p) \o rest
       ELSE /\ outbox' = RebuiltOut \o rest
            /\ UNCHANGED <<session, suspendedTarget, relSeq, emergMax, nextToken, pending, pointer>>

(* A reconnected target is first sent the release it still owes, and the   *)
(* session recovers only when nothing is owed (recover_unavailable_target).*)
PeerConnected(p, rest) ==
    /\ p \notin connected
    /\ connected' = connected \cup {p}
    /\ UNCHANGED <<layout, held, nextGen, epoch, rtSeq, anchor, pointer>>
    /\ RebuildRoutes
    /\ IF suspendedTarget = p /\ pending # None
       THEN /\ PushEmergencyRelease(p)
            /\ outbox' = RebuiltOut \o EmergencyOuts(p) \o rest
            /\ UNCHANGED <<session, suspendedTarget>>
       ELSE /\ IF suspendedTarget = p /\ session = TargetUnavailable
               THEN /\ session' = LocalReady
                    /\ suspendedTarget' = None
                    /\ outbox' = RebuiltOut \o <<SessionOut(LocalReady)>> \o rest
               ELSE /\ outbox' = RebuiltOut \o rest
                    /\ UNCHANGED <<session, suspendedTarget>>
            /\ UNCHANGED <<relSeq, emergMax, nextToken, pending>>

(* ReleaseAllCompleted: total, because the dispatcher calls it whatever    *)
(* became of the batch.                                                    *)
\* Mutant: a confirmed release never ends a suspension.
RecoversNever == FALSE

Recovers == session = TargetUnavailable /\ suspendedTarget \in connected

Confirms(token, success) == success /\ pending # None /\ token = pending.token

ReleaseAllCompleted(token, success, rest) ==
    IF Confirms(token, success)
    THEN /\ held' = [c \in Controls |-> IF held[c] = pending.held[c] THEN 0 ELSE held[c]]
         /\ pending' = None
         /\ session' = IF Recovers THEN LocalReady ELSE session
         /\ suspendedTarget' = IF Recovers THEN None ELSE suspendedTarget
         /\ outbox' = (IF Recovers THEN <<SessionOut(LocalReady)>> ELSE <<>>) \o rest
         /\ UNCHANGED <<routeVars, epoch, countVars, nextGen, nextToken, pointer>>
    ELSE /\ outbox' = rest
         /\ UNCHANGED routerVars

-----------------------------------------------------------------------------
RouterInit ==
    /\ session = LocalReady
    /\ suspendedTarget = None
    /\ connected \in SUBSET Peers
    /\ layout \in Layouts
    /\ routes = BuildRoutes(layout, connected)
    /\ routeGen = 1
    /\ epoch = 0
    /\ rtSeq = 0 /\ relSeq = 0 /\ emergMax = FALSE /\ anchor = 0
    /\ held = [c \in Controls |-> 0]
    /\ nextGen = 1 /\ nextToken = 1 /\ pending = None
    /\ pointer = None
    /\ outbox = <<>>

(* Everything handle() accepts except news of peers and completions, which *)
(* have senders of their own.                                              *)
Command(rest) ==
    \/ \E e \in Edges : EnterRemote(e, rest) \/ EnterExhausted(e, rest)
    \/ \E kind \in {"Relative", "Axes"} : SendRealtime(kind, rest)
    \/ \E c \in Controls, down \in BOOLEAN : PressOrRelease(c, down, rest)
    \/ OtherReliable(rest)
    \/ CrossReturnEdge(rest)
    \/ ReturnToLocal(rest)
    \/ BackendDegraded(rest)
    \/ \E graph \in Layouts : LayoutChanged(graph, rest)

RouterNext ==
    \/ Command(<<>>)
    \/ \E p \in Peers : PeerConnected(p, <<>>) \/ PeerDisconnected(p, <<>>)
    \/ \E token \in 1..TokenMax, success \in BOOLEAN :
        ReleaseAllCompleted(token, success, <<>>)

RouterSpec == RouterInit /\ [][RouterNext]_vars

-----------------------------------------------------------------------------
(* Properties.                                                             *)

(* Every field keeps to the range its Rust type and its guards give it.    *)
RouterTypeOK ==
    /\ session \in Sessions
    /\ suspendedTarget \in Peers \cup {None}
    /\ connected \subseteq Peers
    /\ layout \in Layouts
    /\ routes \in [Edges -> Peers \cup {None}]
    /\ routeGen \in 1..RouteGenMax
    /\ epoch \in 0..EpochMax
    /\ rtSeq \in 0..SeqMax /\ relSeq \in 0..SeqMax
    /\ emergMax \in BOOLEAN
    /\ anchor \in 0..SeqMax
    /\ held \in [Controls -> 0..GenMax]
    /\ nextGen \in 1..GenMax /\ nextToken \in 1..TokenMax
    /\ pending \in Batches \cup {None}
    /\ pointer \in Peers \cup {None}

(* A counter that can no longer promise a release: the last emergency      *)
(* sequence is used, or no batch token is left.                            *)
ReleaseFaulted == emergMax \/ nextToken = TokenMax

(* Input goes only to a peer that is connected and whose desktop the       *)
(* tracked pointer is on, whatever links and peers came and went.          *)
ActiveTargetReachable ==
    IsRemote => /\ session.target \in connected
                /\ pointer = session.target

(* A peer is never entered while a release is still owed to one: pressing  *)
(* on top of an unconfirmed batch would confuse two generations of a key.  *)
ActiveOwesNothing == IsRemote => pending = None /\ suspendedTarget = None

(* A pending batch covers exactly what the ledger holds, so that its       *)
(* confirmation leaves nothing held and drops nothing newer.               *)
PendingCoversHeld ==
    pending # None => pending.held = held /\ pending.token < nextToken

(* Control never leaves a peer with a key down and nothing owed for it,    *)
(* unless the release counters themselves ran out.                         *)
HeldIsOwed ==
    /\ ~IsRemote /\ pending = None
    /\ \E c \in Controls : held[c] # 0
    => ReleaseFaulted

(* TargetUnavailable is left as soon as its cause is gone: the target is   *)
(* remembered, and if it is connected a completion is still to come.       *)
RecoveryIsDriven ==
    /\ session = TargetUnavailable <=> suspendedTarget # None
    /\ session = TargetUnavailable /\ suspendedTarget \in connected /\ pending = None
       => ReleaseFaulted

(* When control leaves a peer, its release is the first thing sent: it     *)
(* precedes the news that the desktop and its shortcuts are local again.   *)
ReleaseBeforeHandback ==
    [][ IsRemote /\ ~IsRemote' =>
        \/ emergMax
        \/ \E i, j \in DOMAIN outbox' :
              /\ i < j
              /\ outbox'[i].type = "EmergencyReleaseAll"
              /\ outbox'[i].target = session.target
              /\ outbox'[j] = SessionOut(session') ]_vars

ReliableFrames(outs) ==
    {outs[i].frame : i \in {j \in DOMAIN outs :
        outs[j].type \in {"SendReliable", "EmergencyReleaseAll"}}}

(* No reliable sequence number is used twice in an epoch, the final one    *)
(* that only an emergency may take included.                               *)
ReliableSequencesAdvance ==
    [][ \A f \in ReliableFrames(outbox') :
            /\ f.epoch = epoch'
            /\ f.epoch > epoch \/ f.seq >= relSeq
            /\ f.seq < relSeq' \/ (emergMax' /\ ~emergMax) ]_vars

(* The router implements the abstract session: whatever the commands, its  *)
(* state machine takes no other transition, and what it holds is what it   *)
(* owes.                                                                   *)
Abstract == INSTANCE ControlSession WITH
    down <- {c \in Controls : held[c] # 0},
    owed <- pending # None,
    faulted <- ReleaseFaulted

ImplementsControlSession == Abstract!Spec

(* What the ledger's contract says of a failed release (violated: only a   *)
(* target lost by disconnection is sent its batch again).                  *)
FailedReleaseRetried ==
    [][ \A p \in connected' \ connected :
          pending # None /\ pending.target = p =>
            \E i \in DOMAIN outbox' : outbox'[i].type = "EmergencyReleaseAll" ]_vars
=============================================================================
