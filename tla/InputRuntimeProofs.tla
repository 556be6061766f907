-------------------------- MODULE InputRuntimeProofs --------------------------
(***************************************************************************)
(* The safety of the input router and of the actor around it, for every    *)
(* set of peers, edges and controls, every family of layouts and every     *)
(* bound of their counters.                                                *)
(*                                                                         *)
(* First the router by itself.  None of the invariants that the runs check *)
(* is inductive by itself: what a handler does depends on the others.      *)
(* RouterInv puts them together with two facts of the control states:      *)
(* where a session and a suspension may point.                             *)
(***************************************************************************)
EXTENDS InputRuntime, TLAPS

SessionShape == IsRemote => session.target \in Peers /\ session.via \in Edges

SuspensionShape == session = TargetUnavailable <=> suspendedTarget # None

RouterInv ==
    /\ RouterTypeOK
    /\ SessionShape
    /\ SuspensionShape
    /\ ActiveOwesNothing
    /\ PendingCoversHeld

-----------------------------------------------------------------------------
(* Helpers.                                                                *)

(* The route cache points at connected peers only.                         *)
LEMMA BuildRoutesType ==
    ASSUME NEW graph, NEW up
    PROVE  BuildRoutes(graph, up) \in [Edges -> Peers \cup {None}]
  BY DEF BuildRoutes

LEMMA RebuildRoutesType ==
    ASSUME RouterTypeOK, RebuildRoutes
    PROVE  /\ routes' \in [Edges -> Peers \cup {None}]
           /\ routeGen' \in 1..RouteGenMax
  BY ConstantsAssumption, BuildRoutesType DEF RouterTypeOK, RebuildRoutes

(* What an emergency release does to the ledger: whatever is owed after it *)
(* is typed, and covers the ledger if nothing was owed before.             *)
LEMMA PushType ==
    ASSUME RouterTypeOK, PendingCoversHeld, NEW p \in Peers,
           held' \in [Controls -> 0..GenMax],
           PushEmergencyRelease(p)
    PROVE  /\ relSeq' \in 0..SeqMax
           /\ emergMax' \in BOOLEAN
           /\ nextToken' \in 1..TokenMax
           /\ pending' \in Batches \cup {None}
           /\ pending' # None => pending'.token < nextToken'
           /\ pending = None /\ pending' # None => pending'.held = held'
  <1>1. relSeq' \in 0..SeqMax
    BY ConstantsAssumption DEF RouterTypeOK, PushEmergencyRelease
  <1>2. emergMax' \in BOOLEAN
    BY DEF RouterTypeOK, PushEmergencyRelease
  <1>3. CASE NewBatch
    <2>1. pending' = [token |-> nextToken, held |-> held', target |-> p]
      BY <1>3 DEF PushEmergencyRelease
    <2>2. nextToken' = nextToken + 1 /\ nextToken < TokenMax
      BY <1>3 DEF PushEmergencyRelease, NewBatch
    <2>3. nextToken \in 1..TokenMax /\ nextToken' \in 1..TokenMax
      BY <2>2, ConstantsAssumption DEF RouterTypeOK
    <2>4. pending' \in Batches
      BY <2>1, <2>3 DEF Batches
    <2> QED
      BY <1>1, <1>2, <2>1, <2>2, <2>3, <2>4
  <1>4. CASE ~NewBatch
    <2>1. pending' = pending /\ nextToken' = nextToken
      BY <1>4 DEF PushEmergencyRelease
    <2> QED
      BY <1>1, <1>2, <2>1 DEF RouterTypeOK, PendingCoversHeld
  <1> QED
    BY <1>3, <1>4

-----------------------------------------------------------------------------
(* The handlers, one by one.                                               *)

LEMMA DegradeWithInv ==
    ASSUME RouterInv, IsRemote, NEW metric, NEW rest,
           held' \in [Controls -> 0..GenMax], nextGen' \in 1..GenMax,
           rtSeq' \in 0..SeqMax, anchor' \in 0..SeqMax,
           UNCHANGED <<suspendedTarget, routeVars, epoch>>,
           DegradeWith(session.target, metric, rest)
    PROVE  RouterInv'
  <1>1. session.target \in Peers /\ PushEmergencyRelease(session.target)
    BY DEF RouterInv, SessionShape, DegradeWith
  <1>2. session' = BackendDegradedState /\ pointer' = None
    BY DEF DegradeWith
  <1>3. session' \in Sessions /\ ~IsRemote' /\ session' # TargetUnavailable
    BY <1>2 DEF Sessions, Modes, BackendDegradedState, TargetUnavailable, Idle, IsRemote
  <1>4. pending = None /\ suspendedTarget = None
    BY DEF RouterInv, ActiveOwesNothing
  <1>5. RouterTypeOK'
    BY <1>1, <1>2, <1>3, PushType DEF RouterInv, RouterTypeOK, routeVars
  <1>6. PendingCoversHeld'
    BY <1>1, <1>4, PushType DEF RouterInv, PendingCoversHeld
  <1> QED
    BY <1>3, <1>4, <1>5, <1>6
    DEF RouterInv, SessionShape, SuspensionShape, ActiveOwesNothing

LEMMA EnterRemoteInv ==
    ASSUME RouterInv, NEW e \in Edges, NEW rest, EnterRemote(e, rest)
    PROVE  RouterInv'
  <1>1. routes[e] \in Peers /\ session = LocalReady /\ pending = None
    BY DEF RouterInv, RouterTypeOK, EnterRemote, MayEnter
  <1>2. session' = RemoteActive(routes[e], e) /\ pointer' = routes[e]
    BY DEF EnterRemote
  <1>3. session' \in Sessions /\ session' # TargetUnavailable
        /\ session'.target \in Peers /\ session'.via \in Edges
    BY <1>1, <1>2 DEF Sessions, Modes, RemoteActive, TargetUnavailable, Idle
  <1>4. suspendedTarget = None
    BY <1>1 DEF RouterInv, SuspensionShape, LocalReady, TargetUnavailable, Idle
  <1>5. epoch' \in 0..EpochMax /\ rtSeq' \in 0..SeqMax /\ relSeq' \in 0..SeqMax
        /\ emergMax' \in BOOLEAN /\ anchor' \in 0..SeqMax
    <2>1. epoch' = epoch + 1 /\ epoch < EpochMax /\ epoch \in 0..EpochMax
      BY DEF EnterRemote, RouterInv, RouterTypeOK
    <2>2. relSeq' = 1 /\ rtSeq' = 1 /\ emergMax' = FALSE /\ anchor' = 0
      BY DEF EnterRemote, StartCounters
    <2>3. EpochMax \in Nat /\ SeqMax \in Nat \ {0}
      BY ConstantsAssumption
    <2>4. epoch' \in 0..EpochMax
      BY <2>1, <2>3
    <2>5. rtSeq' \in 0..SeqMax /\ relSeq' \in 0..SeqMax /\ anchor' \in 0..SeqMax
      BY <2>2, <2>3
    <2> QED
      BY <2>2, <2>4, <2>5
  <1>6. UNCHANGED <<suspendedTarget, routeVars, ledgerVars>>
    BY DEF EnterRemote
  <1>7. RouterTypeOK'
    BY <1>1, <1>2, <1>3, <1>5, <1>6 DEF RouterInv, RouterTypeOK, routeVars, ledgerVars
  <1> QED
    BY <1>1, <1>3, <1>4, <1>6, <1>7
    DEF RouterInv, SessionShape, SuspensionShape, ActiveOwesNothing, PendingCoversHeld,
        ledgerVars

LEMMA EnterExhaustedInv ==
    ASSUME RouterInv, NEW e \in Edges, NEW rest, EnterExhausted(e, rest)
    PROVE  RouterInv'
  <1>1. session' = BackendDegradedState
        /\ UNCHANGED <<suspendedTarget, routeVars, epoch, countVars, ledgerVars, pointer>>
    BY DEF EnterExhausted
  <1>2. session' \in Sessions /\ ~IsRemote' /\ session' # TargetUnavailable
    BY <1>1 DEF Sessions, Modes, BackendDegradedState, TargetUnavailable, Idle, IsRemote
  <1>3. suspendedTarget = None
    BY DEF EnterExhausted, MayEnter, RouterInv, SuspensionShape, LocalReady,
           TargetUnavailable, Idle
  <1>4. RouterTypeOK'
    BY <1>1, <1>2 DEF RouterInv, RouterTypeOK, routeVars, countVars, ledgerVars
  <1> QED
    BY <1>1, <1>2, <1>3, <1>4
    DEF RouterInv, SessionShape, SuspensionShape, ActiveOwesNothing, PendingCoversHeld,
        ledgerVars

LEMMA SendRealtimeInv ==
    ASSUME RouterInv, NEW kind, NEW rest, SendRealtime(kind, rest)
    PROVE  RouterInv'
  <1>1. IsRemote /\ UNCHANGED <<suspendedTarget, routeVars, epoch>>
    BY DEF SendRealtime
  <1>2. CASE rtSeq < SeqMax
    <2>1. rtSeq' \in 0..SeqMax /\ anchor' \in 0..SeqMax
      BY <1>2, ConstantsAssumption, SMTT(60), ZenonT(60) DEF SendRealtime, RouterInv, RouterTypeOK
    <2>2. UNCHANGED <<session, relSeq, emergMax, ledgerVars, pointer>>
      BY <1>2 DEF SendRealtime
    <2>3. RouterTypeOK'
      BY <1>1, <2>1, <2>2 DEF RouterInv, RouterTypeOK, routeVars, ledgerVars
    <2> QED
      BY <1>1, <2>2, <2>3
      DEF RouterInv, SessionShape, SuspensionShape, ActiveOwesNothing, PendingCoversHeld,
          IsRemote, ledgerVars
  <1>3. CASE ~(rtSeq < SeqMax)
    <2>1. UNCHANGED <<rtSeq, anchor, held, nextGen>>
          /\ DegradeWith(session.target, "CounterExhausted", rest)
      BY <1>3 DEF SendRealtime
    <2> QED
      BY <1>1, <2>1, DegradeWithInv DEF RouterInv, RouterTypeOK
  <1> QED
    BY <1>2, <1>3

LEMMA SendReliableInv ==
    ASSUME RouterInv, IsRemote, NEW kind, NEW c, NEW rest,
           held' \in [Controls -> 0..GenMax], nextGen' \in 1..GenMax,
           UNCHANGED <<suspendedTarget, routeVars, epoch, rtSeq, anchor>>,
           SendReliable(kind, c, rest)
    PROVE  RouterInv'
  <1>1. CASE relSeq < SeqMax
    <2>1. relSeq' \in 0..SeqMax /\ UNCHANGED <<session, emergMax, nextToken, pending, pointer>>
      BY <1>1, ConstantsAssumption DEF SendReliable, RouterInv, RouterTypeOK
    <2>2. RouterTypeOK'
      BY <2>1 DEF RouterInv, RouterTypeOK, routeVars
    <2>3. pending' = None
      BY <2>1 DEF RouterInv, ActiveOwesNothing
    <2> QED
      BY <2>1, <2>2, <2>3
      DEF RouterInv, SessionShape, SuspensionShape, ActiveOwesNothing, PendingCoversHeld,
          IsRemote
  <1>2. CASE ~(relSeq < SeqMax)
    <2>1. DegradeWith(session.target, "CounterExhausted", rest)
      BY <1>2 DEF SendReliable
    <2> QED
      BY <2>1, DegradeWithInv DEF RouterInv, RouterTypeOK
  <1> QED
    BY <1>1, <1>2

LEMMA PressOrReleaseInv ==
    ASSUME RouterInv, NEW c \in Controls, NEW down \in BOOLEAN, NEW rest,
           PressOrRelease(c, down, rest)
    PROVE  RouterInv'
  <1>1. IsRemote /\ UNCHANGED <<suspendedTarget, routeVars, epoch, rtSeq, anchor>>
    BY DEF PressOrRelease
  <1>2. CASE down /\ held[c] = 0 /\ nextGen = GenMax
    <2>1. UNCHANGED <<held, nextGen>>
          /\ DegradeWith(session.target, "PressedStateLedgerFault", rest)
      BY <1>2 DEF PressOrRelease
    <2> QED
      BY <1>1, <2>1, DegradeWithInv DEF RouterInv, RouterTypeOK
  <1>3. CASE ~(down /\ held[c] = 0 /\ nextGen = GenMax)
    <2>1. /\ held' = [held EXCEPT ![c] = IF ~down THEN 0 ELSE IF @ = 0 THEN nextGen ELSE @]
          /\ nextGen' = IF down /\ held[c] = 0 THEN nextGen + 1 ELSE nextGen
          /\ SendReliable(IF down THEN "Press" ELSE "Release", c, rest)
      BY <1>3 DEF PressOrRelease
    <2>2. held' \in [Controls -> 0..GenMax]
      BY <2>1, ConstantsAssumption DEF RouterInv, RouterTypeOK
    <2>3. nextGen' \in 1..GenMax
      BY <1>3, <2>1, ConstantsAssumption DEF RouterInv, RouterTypeOK
    <2> QED
      BY <1>1, <2>1, <2>2, <2>3, SendReliableInv
  <1> QED
    BY <1>2, <1>3

LEMMA OtherReliableInv ==
    ASSUME RouterInv, NEW rest, OtherReliable(rest)
    PROVE  RouterInv'
  BY SendReliableInv DEF OtherReliable, RouterInv, RouterTypeOK
LEMMA ReturnToLocalAfterInv ==
    ASSUME RouterInv, NEW moved, NEW rest, ReturnToLocalAfter(moved, rest),
           rtSeq' \in 0..SeqMax, anchor' \in 0..SeqMax
    PROVE  RouterInv'
  <1>1. /\ IsRemote
        /\ UNCHANGED <<suspendedTarget, routeVars, epoch, held, nextGen>>
        /\ PushEmergencyRelease(session.target)
        /\ session' \in {LocalReady, BackendDegradedState}
        /\ pointer' = None
    BY DEF ReturnToLocalAfter
  <1>2. session' \in Sessions /\ ~IsRemote' /\ session' # TargetUnavailable
    BY <1>1
    DEF Sessions, Modes, LocalReady, BackendDegradedState, TargetUnavailable, Idle, IsRemote
  <1>3. session.target \in Peers
    BY <1>1 DEF RouterInv, SessionShape
  <1>4. pending = None /\ suspendedTarget = None
    BY <1>1 DEF RouterInv, ActiveOwesNothing
  <1>5. RouterTypeOK'
    BY <1>1, <1>2, <1>3, PushType DEF RouterInv, RouterTypeOK, routeVars
  <1>6. PendingCoversHeld'
    BY <1>1, <1>3, <1>4, PushType DEF RouterInv, PendingCoversHeld, RouterTypeOK
  <1> QED
    BY <1>1, <1>2, <1>4, <1>5, <1>6
    DEF RouterInv, SessionShape, SuspensionShape, ActiveOwesNothing

LEMMA ReturnToLocalInv ==
    ASSUME RouterInv, NEW rest, ReturnToLocal(rest)
    PROVE  RouterInv'
  BY ReturnToLocalAfterInv DEF ReturnToLocal, RouterInv, RouterTypeOK

LEMMA CrossReturnEdgeInv ==
    ASSUME RouterInv, NEW rest, CrossReturnEdge(rest)
    PROVE  RouterInv'
  <1>1. CASE ReturnToLocal(rest)
    BY <1>1, ReturnToLocalInv
  <1>2. ASSUME NEW moved, rtSeq < SeqMax, rtSeq' = rtSeq + 1, anchor' = rtSeq,
               ReturnToLocalAfter(moved, rest)
        PROVE  RouterInv'
    <2>1. rtSeq' \in 0..SeqMax /\ anchor' \in 0..SeqMax
      BY <1>2, ConstantsAssumption DEF RouterInv, RouterTypeOK
    <2> QED
      BY <1>2, <2>1, ReturnToLocalAfterInv
  <1> QED
    BY <1>1, <1>2 DEF CrossReturnEdge

LEMMA BackendDegradedInv ==
    ASSUME RouterInv, NEW rest, BackendDegraded(rest)
    PROVE  RouterInv'
  <1>1. /\ UNCHANGED <<routeVars, epoch, rtSeq, anchor, held, nextGen>>
        /\ session' = BackendDegradedState /\ suspendedTarget' = None /\ pointer' = None
    BY DEF BackendDegraded
  <1>2. session' \in Sessions /\ ~IsRemote' /\ session' # TargetUnavailable
    BY <1>1 DEF Sessions, Modes, BackendDegradedState, TargetUnavailable, Idle, IsRemote
  <1>3. CASE IsRemote
    <2>1. PushEmergencyRelease(session.target)
      BY <1>3 DEF BackendDegraded
    <2>2. session.target \in Peers /\ pending = None
      BY <1>3 DEF RouterInv, SessionShape, ActiveOwesNothing
    <2>3. RouterTypeOK'
      BY <1>1, <1>2, <2>1, <2>2, PushType DEF RouterInv, RouterTypeOK, routeVars
    <2>4. PendingCoversHeld'
      BY <1>1, <2>1, <2>2, PushType DEF RouterInv, PendingCoversHeld, RouterTypeOK
    <2> QED
      BY <1>1, <1>2, <2>3, <2>4 DEF RouterInv, SessionShape, SuspensionShape, ActiveOwesNothing
  <1>4. CASE ~IsRemote
    <2>1. UNCHANGED <<relSeq, emergMax, nextToken, pending>>
      BY <1>4 DEF BackendDegraded
    <2>2. RouterTypeOK'
      BY <1>1, <1>2, <2>1 DEF RouterInv, RouterTypeOK, routeVars
    <2> QED
      BY <1>1, <1>2, <2>1, <2>2
      DEF RouterInv, SessionShape, SuspensionShape, ActiveOwesNothing, PendingCoversHeld
  <1> QED
    BY <1>3, <1>4

(* What the topology handlers have in common, by what becomes of control.  *)
LEMMA LoseTargetInv ==
    ASSUME RouterInv, IsRemote, LoseTarget(session.target),
           UNCHANGED <<held, nextGen, epoch, rtSeq, anchor>>,
           connected' \subseteq Peers, layout' \in Layouts, RebuildRoutes
    PROVE  RouterInv'
  <1>1. session.target \in Peers /\ pending = None
    BY DEF RouterInv, SessionShape, ActiveOwesNothing
  <1>2. /\ PushEmergencyRelease(session.target)
        /\ session' = TargetUnavailable /\ suspendedTarget' = session.target /\ pointer' = None
    BY DEF LoseTarget
  <1>3. session' \in Sessions /\ ~IsRemote'
    BY <1>2 DEF Sessions, Modes, TargetUnavailable, Idle, IsRemote
  <1>4. suspendedTarget' # None
    BY <1>1, <1>2, ConstantsAssumption
  <1>5. RouterTypeOK'
    BY <1>1, <1>2, <1>3, PushType, RebuildRoutesType DEF RouterInv, RouterTypeOK
  <1>6. PendingCoversHeld'
    BY <1>1, <1>2, PushType DEF RouterInv, PendingCoversHeld, RouterTypeOK
  <1> QED
    BY <1>2, <1>3, <1>4, <1>5, <1>6
    DEF RouterInv, SessionShape, SuspensionShape, ActiveOwesNothing

LEMMA KeepControlInv ==
    ASSUME RouterInv, RebuildRoutes, connected' \subseteq Peers, layout' \in Layouts,
           UNCHANGED <<session, suspendedTarget, epoch, countVars, ledgerVars, pointer>>
    PROVE  RouterInv'
  <1>1. RouterTypeOK'
    BY RebuildRoutesType DEF RouterInv, RouterTypeOK, countVars, ledgerVars
  <1> QED
    BY <1>1
    DEF RouterInv, SessionShape, SuspensionShape, ActiveOwesNothing, PendingCoversHeld,
        IsRemote, ledgerVars

LEMMA LayoutChangedInv ==
    ASSUME RouterInv, NEW graph \in Layouts, NEW rest, LayoutChanged(graph, rest)
    PROVE  RouterInv'
  <1>1. /\ UNCHANGED <<held, nextGen, epoch, rtSeq, anchor>> /\ RebuildRoutes
        /\ connected' \subseteq Peers /\ layout' \in Layouts
    BY DEF LayoutChanged, RouterInv, RouterTypeOK
  <1>2. CASE IsRemote /\ routes'[session.via] # session.target
    BY <1>1, <1>2, LoseTargetInv DEF LayoutChanged
  <1>3. CASE ~(IsRemote /\ routes'[session.via] # session.target)
    BY <1>1, <1>3, KeepControlInv DEF LayoutChanged, countVars, ledgerVars
  <1> QED
    BY <1>2, <1>3

LEMMA PeerDisconnectedInv ==
    ASSUME RouterInv, NEW p \in Peers, NEW rest, PeerDisconnected(p, rest)
    PROVE  RouterInv'
  <1>1. /\ UNCHANGED <<held, nextGen, epoch, rtSeq, anchor>> /\ RebuildRoutes
        /\ connected' \subseteq Peers /\ layout' \in Layouts
    BY DEF PeerDisconnected, RouterInv, RouterTypeOK
  <1>2. CASE IsRemote /\ session.target = p
    BY <1>1, <1>2, LoseTargetInv DEF PeerDisconnected
  <1>3. CASE ~(IsRemote /\ session.target = p)
    BY <1>1, <1>3, KeepControlInv DEF PeerDisconnected, countVars, ledgerVars
  <1> QED
    BY <1>2, <1>3

LEMMA PeerConnectedInv ==
    ASSUME RouterInv, NEW p \in Peers, NEW rest, PeerConnected(p, rest)
    PROVE  RouterInv'
  <1>1. /\ UNCHANGED <<held, nextGen, epoch, rtSeq, anchor, pointer>> /\ RebuildRoutes
        /\ connected' \subseteq Peers /\ layout' \in Layouts
    BY DEF PeerConnected, RouterInv, RouterTypeOK
  <1>2. CASE suspendedTarget = p /\ pending # None
    <2>1. PushEmergencyRelease(p) /\ UNCHANGED <<session, suspendedTarget>>
      BY <1>2 DEF PeerConnected
    <2>2. UNCHANGED pending
      BY <1>2, <2>1 DEF PushEmergencyRelease, NewBatch
    <2>3. nextToken' = nextToken
      BY <1>2, <2>1 DEF PushEmergencyRelease, NewBatch
    <2>4. RouterTypeOK'
      BY <1>1, <2>1, PushType, RebuildRoutesType DEF RouterInv, RouterTypeOK
    <2> QED
      BY <1>1, <2>1, <2>2, <2>3, <2>4
      DEF RouterInv, SessionShape, SuspensionShape, ActiveOwesNothing, PendingCoversHeld,
          IsRemote
  <1>3. CASE ~(suspendedTarget = p /\ pending # None)
    <2>1. UNCHANGED <<relSeq, emergMax, nextToken, pending>>
      BY <1>3 DEF PeerConnected
    <2>2. CASE suspendedTarget = p /\ session = TargetUnavailable
      <3>1. session' = LocalReady /\ suspendedTarget' = None
        BY <1>3, <2>2 DEF PeerConnected
      <3>2. session' \in Sessions /\ ~IsRemote' /\ session' # TargetUnavailable
        BY <3>1 DEF Sessions, Modes, LocalReady, TargetUnavailable, Idle, IsRemote
      <3>3. RouterTypeOK'
        BY <1>1, <2>1, <3>1, <3>2, RebuildRoutesType DEF RouterInv, RouterTypeOK
      <3> QED
        BY <1>1, <2>1, <3>1, <3>2, <3>3
        DEF RouterInv, SessionShape, SuspensionShape, ActiveOwesNothing, PendingCoversHeld
    <2>3. CASE ~(suspendedTarget = p /\ session = TargetUnavailable)
      <3>1. UNCHANGED <<session, suspendedTarget>>
        BY <1>3, <2>3 DEF PeerConnected
      <3> QED
        BY <1>1, <2>1, <3>1, KeepControlInv DEF countVars, ledgerVars
    <2> QED
      BY <2>2, <2>3
  <1> QED
    BY <1>2, <1>3

LEMMA ReleaseAllCompletedInv ==
    ASSUME RouterInv, NEW token, NEW success, NEW rest,
           ReleaseAllCompleted(token, success, rest)
    PROVE  RouterInv'
  <1>1. CASE Confirms(token, success)
    <2>1. /\ held' = [c \in Controls |-> IF held[c] = pending.held[c] THEN 0 ELSE held[c]]
          /\ pending' = None
          /\ session' = IF Recovers THEN LocalReady ELSE session
          /\ suspendedTarget' = IF Recovers THEN None ELSE suspendedTarget
          /\ UNCHANGED <<routeVars, epoch, countVars, nextGen, nextToken, pointer>>
      BY <1>1 DEF ReleaseAllCompleted
    <2>2. held' \in [Controls -> 0..GenMax]
      BY <2>1, ConstantsAssumption DEF RouterInv, RouterTypeOK
    <2>3. ~IsRemote
      BY <1>1 DEF Confirms, RouterInv, ActiveOwesNothing
    <2>4. session' \in Sessions /\ ~IsRemote'
          /\ suspendedTarget' \in Peers \cup {None}
          /\ (session' = TargetUnavailable <=> suspendedTarget' # None)
      BY <2>1, <2>3
      DEF RouterInv, RouterTypeOK, SuspensionShape, Sessions, Modes, LocalReady,
          TargetUnavailable, Idle, IsRemote
    <2>5. RouterTypeOK'
      BY <2>1, <2>2, <2>4 DEF RouterInv, RouterTypeOK, routeVars, countVars
    <2> QED
      BY <2>1, <2>4, <2>5
      DEF RouterInv, SessionShape, SuspensionShape, ActiveOwesNothing, PendingCoversHeld
  <1>2. CASE ~Confirms(token, success)
    <2>1. UNCHANGED routerVars
      BY <1>2 DEF ReleaseAllCompleted
    <2> QED
      BY <2>1
      DEF RouterInv, RouterTypeOK, SessionShape, SuspensionShape, ActiveOwesNothing,
          PendingCoversHeld, IsRemote, routerVars, routeVars, countVars, ledgerVars
  <1> QED
    BY <1>1, <1>2

-----------------------------------------------------------------------------
(* The theorems.                                                           *)

LEMMA RouterInvInit == RouterInit => RouterInv
  <1> SUFFICES ASSUME RouterInit PROVE RouterInv
    OBVIOUS
  <1>1. session \in Sessions /\ ~IsRemote /\ session # TargetUnavailable
    BY DEF RouterInit, Sessions, Modes, LocalReady, TargetUnavailable, Idle, IsRemote
  <1>2. routes \in [Edges -> Peers \cup {None}]
    BY BuildRoutesType DEF RouterInit
  <1>3. /\ routeGen \in 1..RouteGenMax /\ epoch \in 0..EpochMax
        /\ rtSeq \in 0..SeqMax /\ relSeq \in 0..SeqMax /\ anchor \in 0..SeqMax
        /\ nextGen \in 1..GenMax /\ nextToken \in 1..TokenMax
    BY ConstantsAssumption DEF RouterInit
  <1>4. held \in [Controls -> 0..GenMax]
    BY ConstantsAssumption DEF RouterInit
  <1>5. RouterTypeOK
    BY <1>1, <1>2, <1>3, <1>4 DEF RouterInit, RouterTypeOK
  <1> QED
    BY <1>1, <1>5
    DEF RouterInit, RouterInv, SessionShape, SuspensionShape, ActiveOwesNothing,
        PendingCoversHeld

LEMMA CommandInv ==
    ASSUME RouterInv, NEW rest, Command(rest)
    PROVE  RouterInv'
  BY EnterRemoteInv, EnterExhaustedInv, SendRealtimeInv, PressOrReleaseInv, OtherReliableInv,
     CrossReturnEdgeInv, ReturnToLocalInv, BackendDegradedInv, LayoutChangedInv
  DEF Command

LEMMA RouterInvStep == RouterInv /\ [RouterNext]_vars => RouterInv'
  <1> SUFFICES ASSUME RouterInv, [RouterNext]_vars PROVE RouterInv'
    OBVIOUS
  <1>1. CASE RouterNext
    BY <1>1, CommandInv, PeerConnectedInv, PeerDisconnectedInv, ReleaseAllCompletedInv
    DEF RouterNext
  <1>2. CASE UNCHANGED vars
    BY <1>2
    DEF RouterInv, RouterTypeOK, SessionShape, SuspensionShape, ActiveOwesNothing,
        PendingCoversHeld, IsRemote, vars, routerVars, routeVars, countVars, ledgerVars
  <1> QED
    BY <1>1, <1>2

THEOREM RouterInvariant == RouterSpec => []RouterInv
  BY RouterInvInit, RouterInvStep, PTL DEF RouterSpec

(* Type correctness of the router (input_router.rs).                       *)
THEOREM RouterTypeCorrect == RouterSpec => []RouterTypeOK
  BY RouterInvariant, PTL DEF RouterInv

(* No peer is ever entered while a release is owed (handle_absolute_move). *)
THEOREM NeverEntersOwing == RouterSpec => []ActiveOwesNothing
  BY RouterInvariant, PTL DEF RouterInv

(* A pending batch is always a snapshot of the whole ledger                *)
(* (push_emergency_release).                                               *)
THEOREM BatchCoversLedger == RouterSpec => []PendingCoversHeld
  BY RouterInvariant, PTL DEF RouterInv

-----------------------------------------------------------------------------
(* Input goes only to a peer that can be reached: the routes lead to       *)
(* connected peers, and control leaves a peer together with its route.     *)

RoutesReachable == \A e \in Edges : routes[e] # None => routes[e] \in connected

ReachInv == RoutesReachable /\ ActiveTargetReachable

LEMMA BuildRoutesReachable ==
    ASSUME NEW graph, NEW up, NEW e \in Edges, BuildRoutes(graph, up)[e] # None
    PROVE  BuildRoutes(graph, up)[e] \in up
  <1>1. \E p \in Peers : LeadsTo(graph[e], up, p)
    BY DEF BuildRoutes
  <1>2. BuildRoutes(graph, up)[e] = CHOOSE p \in Peers : LeadsTo(graph[e], up, p)
    BY <1>1 DEF BuildRoutes
  <1>3. LeadsTo(graph[e], up, BuildRoutes(graph, up)[e])
    BY <1>1, <1>2
  <1> QED
    BY <1>3 DEF LeadsTo

LEMMA RebuildRoutesReachable == RebuildRoutes => RoutesReachable'
  BY BuildRoutesReachable DEF RebuildRoutes, RoutesReachable

\* A handler that keeps the topology either keeps or leaves the session.
LEMMA KeepReach ==
    ASSUME ReachInv, UNCHANGED routeVars, UNCHANGED <<session, pointer>> \/ ~IsRemote'
    PROVE  ReachInv'
  BY DEF ReachInv, RoutesReachable, ActiveTargetReachable, IsRemote, routeVars

LEMMA CommandReach ==
    ASSUME RouterInv, ReachInv, NEW rest, Command(rest)
    PROVE  ReachInv'
  <1> USE DEF LocalReady, BackendDegradedState, TargetUnavailable, Idle
  <1>1. ASSUME NEW e \in Edges, EnterRemote(e, rest) PROVE ReachInv'
    <2>1. session' = RemoteActive(routes[e], e) /\ pointer' = routes[e] /\ UNCHANGED routeVars
      BY <1>1 DEF EnterRemote
    <2>2. routes[e] \in connected
      BY <1>1 DEF EnterRemote, MayEnter, ReachInv, RoutesReachable
    <2> QED
      BY <2>1, <2>2
      DEF ReachInv, RoutesReachable, ActiveTargetReachable, IsRemote, RemoteActive, routeVars
  <1>2. ASSUME NEW e \in Edges, EnterExhausted(e, rest) PROVE ReachInv'
    BY <1>2, KeepReach DEF EnterExhausted, IsRemote
  <1>3. ASSUME NEW kind, SendRealtime(kind, rest) PROVE ReachInv'
    BY <1>3, KeepReach DEF SendRealtime, DegradeWith, IsRemote
  <1>4. ASSUME NEW kind, NEW c, SendReliable(kind, c, rest), UNCHANGED routeVars PROVE ReachInv'
    BY <1>4, KeepReach DEF SendReliable, DegradeWith, IsRemote
  <1>5. ASSUME NEW c, NEW down, PressOrRelease(c, down, rest) PROVE ReachInv'
    BY <1>4, <1>5, KeepReach DEF PressOrRelease, DegradeWith, IsRemote
  <1>6. ASSUME OtherReliable(rest) PROVE ReachInv'
    BY <1>4, <1>6 DEF OtherReliable
  <1>7. ASSUME NEW moved, ReturnToLocalAfter(moved, rest) PROVE ReachInv'
    BY <1>7, KeepReach DEF ReturnToLocalAfter, IsRemote
  <1>8. ASSUME BackendDegraded(rest) PROVE ReachInv'
    BY <1>8, KeepReach DEF BackendDegraded, IsRemote
  <1>9. ASSUME NEW graph \in Layouts, LayoutChanged(graph, rest) PROVE ReachInv'
    <2>1. RoutesReachable' /\ connected' = connected
      BY <1>9, RebuildRoutesReachable DEF LayoutChanged
    <2>2. CASE IsRemote /\ routes'[session.via] # session.target
      BY <1>9, <2>1, <2>2 DEF LayoutChanged, LoseTarget, ReachInv, ActiveTargetReachable, IsRemote
    <2>3. CASE ~(IsRemote /\ routes'[session.via] # session.target)
      BY <1>9, <2>1, <2>3 DEF LayoutChanged, ReachInv, ActiveTargetReachable, IsRemote
    <2> QED
      BY <2>2, <2>3
  <1> QED
    BY <1>1, <1>2, <1>3, <1>5, <1>6, <1>7, <1>8, <1>9
    DEF Command, CrossReturnEdge, ReturnToLocal

LEMMA MovesReach ==
    ASSUME RouterInv, ReachInv, NEW rest,
           \/ Command(rest)
           \/ \E p \in Peers : PeerConnected(p, rest) \/ PeerDisconnected(p, rest)
           \/ \E token, success : ReleaseAllCompleted(token, success, rest)
           \/ UNCHANGED routerVars
    PROVE  ReachInv'
  <1> USE DEF LocalReady, TargetUnavailable, Idle
  <1>1. ASSUME NEW p \in Peers, PeerConnected(p, rest) PROVE ReachInv'
    <2>1. /\ RoutesReachable' /\ connected' = connected \cup {p} /\ pointer' = pointer
          /\ session' \in {session, LocalReady}
      BY <1>1, RebuildRoutesReachable DEF PeerConnected
    <2> QED
      BY <2>1 DEF ReachInv, ActiveTargetReachable, IsRemote
  <1>2. ASSUME NEW p \in Peers, PeerDisconnected(p, rest) PROVE ReachInv'
    <2>1. RoutesReachable' /\ connected' = connected \ {p}
      BY <1>2, RebuildRoutesReachable DEF PeerDisconnected
    <2>2. CASE IsRemote /\ session.target = p
      BY <1>2, <2>1, <2>2 DEF PeerDisconnected, LoseTarget, ReachInv, ActiveTargetReachable, IsRemote
    <2>3. CASE ~(IsRemote /\ session.target = p)
      BY <1>2, <2>1, <2>3 DEF PeerDisconnected, ReachInv, ActiveTargetReachable, IsRemote
    <2> QED
      BY <2>2, <2>3
  <1>3. ASSUME NEW token, NEW success, ReleaseAllCompleted(token, success, rest) PROVE ReachInv'
    BY <1>3, KeepReach DEF ReleaseAllCompleted, routerVars, IsRemote
  <1>4. CASE UNCHANGED routerVars
    BY <1>4, KeepReach DEF routerVars
  <1> QED
    BY <1>1, <1>2, <1>3, <1>4, CommandReach

LEMMA ReachInvStep == RouterInv /\ ReachInv /\ [RouterNext]_vars => ReachInv'
  BY MovesReach DEF RouterNext, vars

(* The peer in control is connected and the tracked pointer is on it       *)
(* (handle_absolute_move, handle_layout_changed and the connectivity one). *)
THEOREM ControlsReachablePeer == RouterSpec => []ActiveTargetReachable
  <1>1. RouterInit => ReachInv
    BY BuildRoutesReachable
    DEF RouterInit, ReachInv, RoutesReachable, ActiveTargetReachable, IsRemote, LocalReady, Idle
  <1> QED
    BY <1>1, RouterInvariant, ReachInvStep, PTL DEF RouterSpec, ReachInv

-----------------------------------------------------------------------------
(* Nothing is left held, and no suspension is left undriven: whenever      *)
(* control leaves a peer, a release is owed or its counters have run out.  *)

OwedInv == HeldIsOwed /\ RecoveryIsDriven

LEMMA PushOwes ==
    ASSUME RouterTypeOK, NEW p \in Peers, held' \in [Controls -> 0..GenMax],
           PushEmergencyRelease(p)
    PROVE  pending' # None \/ ReleaseFaulted'
  <1>1. CASE NewBatch
    <2>1. pending' = [token |-> nextToken, held |-> held', target |-> p]
      BY <1>1 DEF PushEmergencyRelease
    <2>2. pending' \in Batches
      BY <2>1 DEF Batches, RouterTypeOK
    <2> QED
      BY <2>2, NoBatchAssumption
  <1>2. CASE EmergencyExhausted
    BY <1>2 DEF EmergencyExhausted, PushEmergencyRelease, ReleaseFaulted
  <1>3. CASE ~EmergencyExhausted /\ pending # None
    BY <1>3 DEF PushEmergencyRelease, NewBatch
  <1>4. CASE ~EmergencyExhausted /\ pending = None /\ ~(nextToken < TokenMax)
    <2>1. nextToken' = nextToken
      BY <1>4 DEF PushEmergencyRelease, NewBatch
    <2>2. nextToken = TokenMax
      BY <1>4, ConstantsAssumption DEF RouterTypeOK
    <2> QED
      BY <2>1, <2>2 DEF ReleaseFaulted
  <1> QED
    BY <1>1, <1>2, <1>3, <1>4 DEF NewBatch

\* A handler that leaves a peer, one that keeps or enters one, and one that
\* does not touch what is owed.
LEMMA LeaveOwed ==
    ASSUME RouterInv, RouterInv', IsRemote, PushEmergencyRelease(session.target)
    PROVE  OwedInv'
  BY PushOwes DEF RouterInv, RouterTypeOK, SessionShape, SuspensionShape, OwedInv, HeldIsOwed,
                  RecoveryIsDriven

LEMMA RemoteOwed ==
    ASSUME RouterInv', IsRemote'
    PROVE  OwedInv'
  BY DEF RouterInv, SuspensionShape, OwedInv, HeldIsOwed, RecoveryIsDriven, IsRemote,
         TargetUnavailable, Idle

LEMMA KeepOwed ==
    ASSUME RouterInv', OwedInv, ~IsRemote,
           UNCHANGED <<held, pending, emergMax, nextToken>>,
           session' # TargetUnavailable \/ (UNCHANGED <<session, suspendedTarget>>
                                            /\ (suspendedTarget \in connected' => suspendedTarget \in connected))
    PROVE  OwedInv'
  BY DEF RouterInv, SuspensionShape, OwedInv, HeldIsOwed, RecoveryIsDriven, ReleaseFaulted

LEMMA CommandOwed ==
    ASSUME RouterInv, RouterInv', OwedInv, NEW rest, Command(rest)
    PROVE  OwedInv'
  <1>1. ASSUME NEW e \in Edges, EnterRemote(e, rest) PROVE OwedInv'
    BY <1>1, RemoteOwed DEF EnterRemote, IsRemote, RemoteActive
  <1>2. ASSUME NEW e \in Edges, EnterExhausted(e, rest) PROVE OwedInv'
    BY <1>2, KeepOwed
    DEF EnterExhausted, MayEnter, IsRemote, LocalReady, BackendDegradedState,
        TargetUnavailable, Idle, ledgerVars, countVars
  <1>3. ASSUME NEW kind, SendRealtime(kind, rest) PROVE OwedInv'
    BY <1>3, RemoteOwed, LeaveOwed DEF SendRealtime, DegradeWith, IsRemote
  <1>4. ASSUME IsRemote, NEW kind, NEW c, SendReliable(kind, c, rest) PROVE OwedInv'
    BY <1>4, RemoteOwed, LeaveOwed DEF SendReliable, DegradeWith, IsRemote
  <1>5. ASSUME NEW c, NEW down, PressOrRelease(c, down, rest) PROVE OwedInv'
    BY <1>4, <1>5, LeaveOwed DEF PressOrRelease, DegradeWith
  <1>6. ASSUME OtherReliable(rest) PROVE OwedInv'
    BY <1>4, <1>6 DEF OtherReliable
  <1>7. ASSUME NEW moved, ReturnToLocalAfter(moved, rest) PROVE OwedInv'
    BY <1>7, LeaveOwed DEF ReturnToLocalAfter
  <1>8. ASSUME BackendDegraded(rest) PROVE OwedInv'
    <2>1. CASE IsRemote
      BY <1>8, <2>1, LeaveOwed DEF BackendDegraded
    <2>2. CASE ~IsRemote
      BY <1>8, <2>2, KeepOwed DEF BackendDegraded, BackendDegradedState, TargetUnavailable, Idle
    <2> QED
      BY <2>1, <2>2
  <1>9. ASSUME NEW graph \in Layouts, LayoutChanged(graph, rest) PROVE OwedInv'
    <2>1. CASE IsRemote /\ routes'[session.via] # session.target
      BY <1>9, <2>1, LeaveOwed DEF LayoutChanged, LoseTarget
    <2>2. CASE ~(IsRemote /\ routes'[session.via] # session.target)
      BY <1>9, <2>2, KeepOwed, RemoteOwed DEF LayoutChanged, IsRemote
    <2> QED
      BY <2>1, <2>2
  <1> QED
    BY <1>1, <1>2, <1>3, <1>5, <1>6, <1>7, <1>8, <1>9
    DEF Command, CrossReturnEdge, ReturnToLocal

LEMMA PeerConnectedOwed ==
    ASSUME RouterInv, RouterInv', OwedInv, NEW p \in Peers, NEW rest, PeerConnected(p, rest)
    PROVE  OwedInv'
  <1>1. CASE IsRemote
    <2>1. suspendedTarget # p
      BY <1>1, ConstantsAssumption DEF RouterInv, ActiveOwesNothing
    <2>2. session' = session
      BY <2>1 DEF PeerConnected
    <2> QED
      BY <1>1, <2>2, RemoteOwed DEF IsRemote
  <1>2. CASE ~IsRemote /\ suspendedTarget = p /\ pending # None
    <2>1. UNCHANGED <<session, suspendedTarget, held, pending>>
      BY <1>2 DEF PeerConnected, PushEmergencyRelease, NewBatch
    <2> QED
      BY <1>2, <2>1 DEF RouterInv, SuspensionShape, OwedInv, HeldIsOwed, RecoveryIsDriven
  <1>3. CASE ~IsRemote /\ ~(suspendedTarget = p /\ pending # None)
    <2>1. UNCHANGED <<held, pending, emergMax, nextToken>> /\ connected' = connected \cup {p}
      BY <1>3 DEF PeerConnected
    <2>2. CASE suspendedTarget = p /\ session = TargetUnavailable
      <3>1. session' # TargetUnavailable
        BY <1>3, <2>2 DEF PeerConnected, LocalReady, TargetUnavailable, Idle
      <3> QED
        BY <1>3, <2>1, <3>1, KeepOwed
    <2>3. CASE ~(suspendedTarget = p /\ session = TargetUnavailable)
      <3>1. UNCHANGED <<session, suspendedTarget>>
        BY <1>3, <2>3 DEF PeerConnected
      <3> QED
        BY <1>3, <2>1, <2>3, <3>1, KeepOwed
    <2> QED
      BY <2>2, <2>3
  <1> QED
    BY <1>1, <1>2, <1>3

LEMMA PeerDisconnectedOwed ==
    ASSUME RouterInv, RouterInv', OwedInv, NEW p \in Peers, NEW rest, PeerDisconnected(p, rest)
    PROVE  OwedInv'
  <1>1. CASE IsRemote /\ session.target = p
    BY <1>1, LeaveOwed DEF PeerDisconnected, LoseTarget
  <1>2. CASE ~(IsRemote /\ session.target = p)
    BY <1>2, KeepOwed, RemoteOwed DEF PeerDisconnected, IsRemote
  <1> QED
    BY <1>1, <1>2

LEMMA ReleaseAllCompletedOwed ==
    ASSUME RouterInv, RouterInv', OwedInv, NEW token, NEW success, NEW rest,
           ReleaseAllCompleted(token, success, rest)
    PROVE  OwedInv'
  <1>1. CASE Confirms(token, success)
    <2>1. pending.held = held
      BY <1>1 DEF Confirms, RouterInv, PendingCoversHeld
    <2>2. \A c \in Controls : held'[c] = 0
      BY <1>1, <2>1 DEF ReleaseAllCompleted
    <2>3. HeldIsOwed'
      BY <2>2 DEF HeldIsOwed
    <2>4. session' = TargetUnavailable => suspendedTarget' \notin connected'
      BY <1>1 DEF ReleaseAllCompleted, Recovers, LocalReady, TargetUnavailable, Idle, routeVars
    <2> QED
      BY <2>3, <2>4 DEF RouterInv, SuspensionShape, OwedInv, RecoveryIsDriven
  <1>2. CASE ~Confirms(token, success)
    BY <1>2
    DEF ReleaseAllCompleted, OwedInv, HeldIsOwed, RecoveryIsDriven, ReleaseFaulted, IsRemote,
        routerVars, routeVars, countVars, ledgerVars
  <1> QED
    BY <1>1, <1>2

LEMMA OwedInvStep == RouterInv /\ RouterInv' /\ OwedInv /\ [RouterNext]_vars => OwedInv'
  <1> SUFFICES ASSUME RouterInv, RouterInv', OwedInv, [RouterNext]_vars PROVE OwedInv'
    OBVIOUS
  <1>1. CASE RouterNext
    BY <1>1, CommandOwed, PeerConnectedOwed, PeerDisconnectedOwed, ReleaseAllCompletedOwed
    DEF RouterNext
  <1>2. CASE UNCHANGED vars
    BY <1>2 DEF OwedInv, HeldIsOwed, RecoveryIsDriven, ReleaseFaulted, IsRemote, vars, routerVars,
                routeVars, countVars, ledgerVars
  <1> QED
    BY <1>1, <1>2

THEOREM OwedInvariant == RouterSpec => []OwedInv
  <1>1. RouterInit => OwedInv
    BY DEF RouterInit, OwedInv, HeldIsOwed, RecoveryIsDriven, LocalReady, TargetUnavailable, Idle
  <1> QED
    BY <1>1, RouterInvariant, OwedInvStep, PTL DEF RouterSpec

(* Control never leaves a peer with something held and nothing owed        *)
(* (push_emergency_release before every change of session).                *)
THEOREM HeldControlsAreOwed == RouterSpec => []HeldIsOwed
  BY OwedInvariant, PTL DEF OwedInv

(* A suspension ends with its cause: by a completion still to come or by   *)
(* the target's return (recover_unavailable_target).                       *)
THEOREM SuspensionIsDriven == RouterSpec => []RecoveryIsDriven
  BY OwedInvariant, PTL DEF OwedInv

-----------------------------------------------------------------------------
(* Action properties: what a single step may return.  Both speak of the    *)
(* list of outputs, so first what the lists are made of.                   *)

LEMMA Listed ==
    ASSUME NEW S, NEW a \in S, NEW b \in S
    PROVE  <<>> \in Seq(S) /\ <<a>> \in Seq(S) /\ <<a, b>> \in Seq(S)
  OBVIOUS

LEMMA Joined ==
    ASSUME NEW S, NEW s \in Seq(S), NEW t \in Seq(S)
    PROVE  s \o t \in Seq(S)
  OBVIOUS

LEMMA Widened ==
    ASSUME NEW S, NEW T, S \subseteq T, NEW s \in Seq(S)
    PROVE  s \in Seq(T)
  OBVIOUS

\* Outputs that carry no reliable frame.
Metrics == {"RouteCacheRebuilt", "CounterExhausted", "PressedStateLedgerFault"}
Unnumbered ==
    {SessionOut(s) : s \in Sessions} \cup {SuppressOut(b) : b \in BOOLEAN}
    \cup {MetricOut(m) : m \in Metrics}
    \cup {SendRealtimeOut(session.target, Frame(rtSeq, kind, None, 0)) : kind \in {"Relative", "Axes"}}

\* All that leaving peer p may return.
ReleaseOf(p) == EmergencyOut(p, Frame(relSeq, "ReleaseAll", None, 0), ReleaseToken)
Leaving(p) == Unnumbered \cup (IF EmergencyExhausted THEN {} ELSE {ReleaseOf(p)})

LEMMA SessionsTyped ==
    LocalReady \in Sessions /\ TargetUnavailable \in Sessions /\ BackendDegradedState \in Sessions
  BY DEF Sessions, Modes, LocalReady, TargetUnavailable, BackendDegradedState, Idle

LEMMA UnnumberedLists ==
    /\ RebuiltOut \in Seq(Unnumbered) /\ <<>> \in Seq(Unnumbered)
    /\ \A m \in Metrics : <<MetricOut(m)>> \in Seq(Unnumbered)
    /\ \A s \in Sessions : LeavingOuts(s) \in Seq(Unnumbered)
                           /\ <<SessionOut(s)>> \in Seq(Unnumbered)
  <1>1. ASSUME NEW m \in Metrics PROVE <<MetricOut(m)>> \in Seq(Unnumbered)
    <2>1. MetricOut(m) \in Unnumbered
      BY DEF Unnumbered
    <2> QED
      BY <2>1, Listed
  <1>2. RebuiltOut \in Seq(Unnumbered)
    BY <1>1 DEF RebuiltOut, Metrics
  <1>3. ASSUME NEW s \in Sessions
        PROVE  LeavingOuts(s) \in Seq(Unnumbered) /\ <<SessionOut(s)>> \in Seq(Unnumbered)
    <2>1. SessionOut(s) \in Unnumbered /\ SuppressOut(FALSE) \in Unnumbered
      BY DEF Unnumbered
    <2> QED
      BY <2>1, Listed DEF LeavingOuts
  <1> QED
    BY <1>1, <1>2, <1>3

LEMMA LeavingLists ==
    ASSUME NEW p
    PROVE  /\ EmergencyOuts(p) \in Seq(Leaving(p)) /\ RebuiltOut \in Seq(Leaving(p))
           /\ <<>> \in Seq(Leaving(p))
           /\ \A m \in Metrics : <<MetricOut(m)>> \in Seq(Leaving(p))
           /\ \A s \in Sessions : LeavingOuts(s) \in Seq(Leaving(p))
  <1>1. Unnumbered \subseteq Leaving(p)
    BY DEF Leaving
  <1>2. EmergencyOuts(p) \in Seq(Leaving(p))
    <2>1. CASE EmergencyExhausted
      BY <1>1, <2>1, UnnumberedLists, Widened DEF EmergencyOuts, Metrics
    <2>2. CASE ~EmergencyExhausted
      BY <2>2, Listed DEF EmergencyOuts, Leaving, ReleaseOf
    <2> QED
      BY <2>1, <2>2
  <1> QED
    BY <1>1, <1>2, UnnumberedLists, Widened

-----------------------------------------------------------------------------
(* The numbers of reliable frames: what a step sends is numbered from the  *)
(* counter as it was, and the counter ends beyond it, or gives out its     *)
(* last number for the one emergency release.                              *)

Advancing(o) ==
    o.type \in {"SendReliable", "EmergencyReleaseAll"} =>
        /\ o.frame.epoch = epoch'
        /\ o.frame.epoch > epoch \/ o.frame.seq >= relSeq
        /\ o.frame.seq < relSeq' \/ (emergMax' /\ ~emergMax)

ReturnsAdvancing == \E S : outbox' \in Seq(S) /\ \A o \in S : Advancing(o)

LEMMA ReturnsAdvance ==
    ASSUME ReturnsAdvancing, NEW f \in ReliableFrames(outbox')
    PROVE  /\ f.epoch = epoch'
           /\ f.epoch > epoch \/ f.seq >= relSeq
           /\ f.seq < relSeq' \/ (emergMax' /\ ~emergMax)
  <1>1. PICK S : outbox' \in Seq(S) /\ \A o \in S : Advancing(o)
    BY DEF ReturnsAdvancing
  <1>2. PICK i \in DOMAIN outbox' : /\ f = outbox'[i].frame
                                    /\ outbox'[i].type \in {"SendReliable", "EmergencyReleaseAll"}
    BY DEF ReliableFrames
  <1>3. outbox'[i] \in S
    BY <1>1, <1>2
  <1> QED
    BY <1>1, <1>2, <1>3 DEF Advancing

LEMMA UnnumberedAdvances == \A o \in Unnumbered : Advancing(o)
  BY DEF Unnumbered, Advancing, SessionOut, SuppressOut, MetricOut, SendRealtimeOut, Output

LEMMA UnnumberedReturns ==
    ASSUME outbox' \in Seq(Unnumbered)
    PROVE  ReturnsAdvancing
  BY UnnumberedAdvances DEF ReturnsAdvancing

LEMMA LeavingReturns ==
    ASSUME RouterTypeOK, NEW p, PushEmergencyRelease(p), epoch' = epoch,
           outbox' \in Seq(Leaving(p))
    PROVE  ReturnsAdvancing
  <1>1. ASSUME NEW o \in Leaving(p), o \notin Unnumbered PROVE Advancing(o)
    <2>1. ~EmergencyExhausted /\ o = ReleaseOf(p)
      BY <1>1 DEF Leaving
    <2>2. o.frame.epoch = epoch /\ o.frame.seq = relSeq
      BY <2>1 DEF ReleaseOf, EmergencyOut, Output, Frame
    <2>3. CASE relSeq < SeqMax
      <3>1. relSeq' = relSeq + 1
        BY <2>3 DEF PushEmergencyRelease
      <3> QED
        BY <2>2, <3>1 DEF Advancing, RouterTypeOK
    <2>4. CASE ~(relSeq < SeqMax)
      <3>1. relSeq = SeqMax
        BY <2>4, ConstantsAssumption DEF RouterTypeOK
      <3>2. emergMax' /\ ~emergMax
        BY <2>1, <3>1 DEF EmergencyExhausted, PushEmergencyRelease, RouterTypeOK
      <3> QED
        BY <2>2, <3>2 DEF Advancing, RouterTypeOK
    <2> QED
      BY <2>3, <2>4
  <1>2. \A o \in Leaving(p) : Advancing(o)
    BY <1>1, UnnumberedAdvances
  <1> QED
    BY <1>2 DEF ReturnsAdvancing

LEMMA DegradeReturns ==
    ASSUME RouterTypeOK, NEW p, NEW metric \in Metrics, DegradeWith(p, metric, <<>>),
           epoch' = epoch
    PROVE  ReturnsAdvancing
  <1>1. outbox' \in Seq(Leaving(p))
    BY LeavingLists, Joined, SessionsTyped DEF DegradeWith
  <1> QED
    BY <1>1, LeavingReturns DEF DegradeWith

LEMMA SendReliableReturns ==
    ASSUME RouterTypeOK, NEW kind, NEW c, SendReliable(kind, c, <<>>), epoch' = epoch
    PROVE  ReturnsAdvancing
  <1>1. CASE relSeq < SeqMax
    <2> DEFINE o == SendReliableOut(session.target, Frame(relSeq, kind, c,
                                         IF c \in Buttons THEN anchor ELSE 0))
    <2>1. outbox' = <<o>> \o <<>> /\ relSeq' = relSeq + 1
      BY <1>1 DEF SendReliable
    <2>2. Advancing(o)
      BY <2>1 DEF Advancing, SendReliableOut, Output, Frame, RouterTypeOK
    <2>3. outbox' \in Seq({o})
      BY <2>1
    <2> QED
      BY <2>2, <2>3 DEF ReturnsAdvancing
  <1>2. CASE ~(relSeq < SeqMax)
    BY <1>2, DegradeReturns DEF SendReliable, Metrics
  <1> QED
    BY <1>1, <1>2

LEMMA EnterReturns ==
    ASSUME RouterTypeOK, NEW e, EnterRemote(e, <<>>)
    PROVE  ReturnsAdvancing
  <1> DEFINE a == SendReliableOut(routes[e], [Frame(0, "Enter", None, 0) EXCEPT !.epoch = epoch'])
             b == SendRealtimeOut(routes[e], [Frame(0, "Anchor", None, 0) EXCEPT !.epoch = epoch'])
             S == {a, b, SessionOut(session'), SuppressOut(TRUE)}
  <1>1. outbox' \in Seq(S)
    <2>1. outbox' = <<a, b, SessionOut(session'), SuppressOut(TRUE)>> \o <<>>
      BY DEF EnterRemote
    <2> QED
      BY <2>1
  <1>2. epoch' = epoch + 1 /\ relSeq' = 1
    BY DEF EnterRemote, StartCounters
  <1>3. Advancing(a)
    <2>1. a.frame.epoch = epoch' /\ a.frame.seq = 0
      BY DEF SendReliableOut, Output, Frame
    <2> QED
      BY <1>2, <2>1 DEF Advancing, RouterTypeOK
  <1>4. \A o \in S : Advancing(o)
    BY <1>3 DEF Advancing, SendRealtimeOut, SessionOut, SuppressOut, Output
  <1> HIDE DEF S
  <1> QED
    BY <1>1, <1>4 DEF ReturnsAdvancing

LEMMA ReturnToLocalReturns ==
    ASSUME RouterTypeOK, NEW moved \in Seq(Unnumbered), ReturnToLocalAfter(moved, <<>>)
    PROVE  ReturnsAdvancing
  <1> DEFINE p == session.target
             handback == IF LedgerFault THEN BackendDegradedState ELSE LocalReady
             fault == IF LedgerFault THEN <<MetricOut("PressedStateLedgerFault")>> ELSE <<>>
  <1>1. outbox' = moved \o EmergencyOuts(p) \o LeavingOuts(handback) \o fault \o <<>>
    BY DEF ReturnToLocalAfter
  <1>2. moved \in Seq(Leaving(p))
    BY Widened DEF Leaving
  <1>3. handback \in Sessions /\ fault \in Seq(Leaving(p))
    BY SessionsTyped, LeavingLists DEF Metrics
  <1>4. outbox' \in Seq(Leaving(p))
    <2> HIDE DEF p, handback, fault
    <2> QED
      BY <1>1, <1>2, <1>3, LeavingLists, Joined
  <1> QED
    BY <1>4, LeavingReturns DEF ReturnToLocalAfter

LEMMA LoseTargetReturns ==
    ASSUME RouterTypeOK, NEW p, LoseTarget(p), epoch' = epoch, outbox' = LoseTargetOuts(p) \o <<>>
    PROVE  ReturnsAdvancing
  <1>1. outbox' \in Seq(Leaving(p))
    BY LeavingLists, Joined, SessionsTyped DEF LoseTargetOuts, Metrics
  <1> QED
    BY <1>1, LeavingReturns DEF LoseTarget

LEMMA NextReturns ==
    ASSUME RouterTypeOK, RouterNext
    PROVE  ReturnsAdvancing
  <1>1. ASSUME NEW e, EnterExhausted(e, <<>>) PROVE ReturnsAdvancing
    <2>1. outbox' \in Seq(Unnumbered)
      BY <1>1, UnnumberedLists, Joined, SessionsTyped DEF EnterExhausted, Metrics
    <2> QED
      BY <2>1, UnnumberedReturns
  <1>2. ASSUME NEW kind \in {"Relative", "Axes"}, SendRealtime(kind, <<>>) PROVE ReturnsAdvancing
    <2>1. CASE rtSeq < SeqMax
      <3> DEFINE o == SendRealtimeOut(session.target, Frame(rtSeq, kind, None, 0))
      <3>1. o \in Unnumbered /\ outbox' = <<o>> \o <<>>
        BY <1>2, <2>1 DEF SendRealtime, Unnumbered
      <3>2. outbox' \in Seq(Unnumbered)
        BY <3>1
      <3> QED
        BY <3>2, UnnumberedReturns
    <2>2. CASE ~(rtSeq < SeqMax)
      BY <1>2, <2>2, DegradeReturns DEF SendRealtime, Metrics
    <2> QED
      BY <2>1, <2>2
  <1>3. ASSUME NEW c, NEW down, PressOrRelease(c, down, <<>>) PROVE ReturnsAdvancing
    BY <1>3, DegradeReturns, SendReliableReturns DEF PressOrRelease, Metrics
  <1>4. ASSUME OtherReliable(<<>>) PROVE ReturnsAdvancing
    BY <1>4, SendReliableReturns DEF OtherReliable
  <1>5. ASSUME ReturnToLocal(<<>>) PROVE ReturnsAdvancing
    BY <1>5, ReturnToLocalReturns, UnnumberedLists DEF ReturnToLocal
  <1>6. ASSUME CrossReturnEdge(<<>>) PROVE ReturnsAdvancing
    <2> DEFINE o == SendRealtimeOut(session.target, Frame(rtSeq, "Relative", None, 0))
    <2>1. <<o>> \in Seq(Unnumbered)
      <3>1. o \in Unnumbered
        BY DEF Unnumbered
      <3> QED
        BY <3>1
    <2> QED
      BY <1>5, <1>6, <2>1, ReturnToLocalReturns DEF CrossReturnEdge
  <1>7. ASSUME BackendDegraded(<<>>) PROVE ReturnsAdvancing
    <2>1. CASE IsRemote
      <3> DEFINE p == session.target
             fault == IF LedgerFault THEN <<MetricOut("PressedStateLedgerFault")>> ELSE <<>>
      <3>1. outbox' \in Seq(Leaving(p))
        <4>1. outbox' = EmergencyOuts(p) \o LeavingOuts(BackendDegradedState) \o fault \o <<>>
          BY <1>7, <2>1 DEF BackendDegraded
        <4>2. fault \in Seq(Leaving(p))
          BY LeavingLists DEF Metrics
        <4> HIDE DEF p, fault
        <4> QED
          BY <4>1, <4>2, LeavingLists, Joined, SessionsTyped
      <3> QED
        BY <1>7, <2>1, <3>1, LeavingReturns DEF BackendDegraded
    <2>2. CASE ~IsRemote
      <3>1. outbox' \in Seq(Unnumbered)
        BY <1>7, <2>2, UnnumberedLists, Joined, SessionsTyped DEF BackendDegraded
      <3> QED
        BY <3>1, UnnumberedReturns
    <2> QED
      BY <2>1, <2>2
  <1>8. ASSUME outbox' = RebuiltOut \o <<>> PROVE ReturnsAdvancing
    BY <1>8, UnnumberedLists, UnnumberedReturns
  <1>9. ASSUME NEW graph, LayoutChanged(graph, <<>>) PROVE ReturnsAdvancing
    BY <1>8, <1>9, LoseTargetReturns DEF LayoutChanged
  <1>10. ASSUME NEW p, PeerDisconnected(p, <<>>) PROVE ReturnsAdvancing
    BY <1>8, <1>10, LoseTargetReturns DEF PeerDisconnected
  <1>11. ASSUME NEW p, PeerConnected(p, <<>>) PROVE ReturnsAdvancing
    <2>1. CASE suspendedTarget = p /\ pending # None
      <3>1. outbox' \in Seq(Leaving(p))
        BY <1>11, <2>1, LeavingLists, Joined DEF PeerConnected
      <3> QED
        BY <1>11, <2>1, <3>1, LeavingReturns DEF PeerConnected
    <2>2. CASE ~(suspendedTarget = p /\ pending # None)
      <3>1. outbox' \in {RebuiltOut \o <<SessionOut(LocalReady)>> \o <<>>, RebuiltOut \o <<>>}
        BY <1>11, <2>2 DEF PeerConnected
      <3>2. <<SessionOut(LocalReady)>> \in Seq(Unnumbered)
        BY UnnumberedLists, SessionsTyped
      <3>3. outbox' \in Seq(Unnumbered)
        BY <3>1, <3>2, UnnumberedLists, Joined
      <3> QED
        BY <3>3, UnnumberedReturns
    <2> QED
      BY <2>1, <2>2
  <1>12. ASSUME NEW token, NEW success, ReleaseAllCompleted(token, success, <<>>)
         PROVE  ReturnsAdvancing
    <2>1. outbox' \in {<<SessionOut(LocalReady)>> \o <<>>, <<>> \o <<>>, <<>>}
      BY <1>12 DEF ReleaseAllCompleted
    <2>2. outbox' \in Seq(Unnumbered)
      BY <2>1, UnnumberedLists, Joined, SessionsTyped, ZenonT(60), SMTT(60)
    <2> QED
      BY <2>2, UnnumberedReturns
  <1> QED
    BY EnterReturns, <1>1, <1>2, <1>3, <1>4, <1>5, <1>6, <1>7, <1>9, <1>10, <1>11, <1>12
    DEF RouterNext, Command

(* No reliable number is used twice in an epoch (send_reliable, start of   *)
(* an epoch in handle_absolute_move, push_emergency_release).              *)
THEOREM ReliableNumbersAreFresh == RouterSpec => ReliableSequencesAdvance
  <1>1. ASSUME RouterTypeOK, RouterNext
        PROVE  \A f \in ReliableFrames(outbox') :
                  /\ f.epoch = epoch'
                  /\ f.epoch > epoch \/ f.seq >= relSeq
                  /\ f.seq < relSeq' \/ (emergMax' /\ ~emergMax)
    BY <1>1, NextReturns, ReturnsAdvance
  <1>2. RouterTypeOK /\ [RouterNext]_vars =>
            [\A f \in ReliableFrames(outbox') :
                  /\ f.epoch = epoch'
                  /\ f.epoch > epoch \/ f.seq >= relSeq
                  /\ f.seq < relSeq' \/ (emergMax' /\ ~emergMax)]_vars
    BY <1>1
  <1> QED
    BY <1>2, RouterTypeCorrect, PTL DEF RouterSpec, ReliableSequencesAdvance

-----------------------------------------------------------------------------
(* The order of a handback: the release comes first.                       *)

ReleasedFirst ==
    \/ emergMax
    \/ \E i, j \in DOMAIN outbox' :
          /\ i < j
          /\ outbox'[i].type = "EmergencyReleaseAll"
          /\ outbox'[i].target = session.target
          /\ outbox'[j] = SessionOut(session')

LEMMA ReleasePrecedes ==
    ASSUME NEW S, NEW before \in Seq(S), NEW after \in Seq(S), LeavingOuts(session') \in Seq(S),
           EmergencyOuts(session.target) \in Seq(S),
           outbox' = before \o EmergencyOuts(session.target) \o LeavingOuts(session') \o after
    PROVE  ReleasedFirst
  <1>1. CASE emergMax
    BY <1>1 DEF ReleasedFirst
  <1>2. CASE ~emergMax
    <2> DEFINE i == Len(before) + 1
    <2>1. EmergencyOuts(session.target) = <<ReleaseOf(session.target)>>
      BY <1>2 DEF EmergencyOuts, EmergencyExhausted, ReleaseOf
    <2>2. LeavingOuts(session') = <<SessionOut(session'), SuppressOut(FALSE)>>
      BY DEF LeavingOuts
    <2>3. /\ i \in DOMAIN outbox' /\ i + 1 \in DOMAIN outbox' /\ i < i + 1
          /\ outbox'[i] = ReleaseOf(session.target) /\ outbox'[i + 1] = SessionOut(session')
      BY <2>1, <2>2
    <2>4. outbox'[i].type = "EmergencyReleaseAll" /\ outbox'[i].target = session.target
      BY <2>3 DEF ReleaseOf, EmergencyOut, Output
    <2> HIDE DEF i
    <2> QED
      BY <2>3, <2>4 DEF ReleasedFirst
  <1> QED
    BY <1>1, <1>2

LEMMA StartsEmpty == \A p : EmergencyOuts(p) = <<>> \o EmergencyOuts(p)
  <1> TAKE p
  <1>1. EmergencyOuts(p) \in Seq(Leaving(p))
    BY LeavingLists
  <1> QED
    BY <1>1

\* Leaving a peer, with outputs that follow.
LEMMA LeavingPrecedes ==
    ASSUME NEW T, NEW rest \in Seq(T), NEW before \in Seq(Unnumbered), NEW more \in Seq(Unnumbered),
           session' \in Sessions,
           outbox' = before \o EmergencyOuts(session.target) \o LeavingOuts(session') \o more \o rest
    PROVE  ReleasedFirst
  <1> DEFINE p == session.target
             S == Leaving(p) \cup T
  <1>1. Unnumbered \subseteq Leaving(p)
    BY DEF Leaving
  <1>2. /\ LeavingOuts(session') \in Seq(Leaving(p)) /\ EmergencyOuts(p) \in Seq(Leaving(p))
        /\ more \in Seq(Leaving(p)) /\ before \in Seq(Leaving(p))
    BY <1>1, LeavingLists, Widened
  <1>3. Leaving(p) \subseteq S /\ T \subseteq S
    OBVIOUS
  <1>4. /\ LeavingOuts(session') \in Seq(S) /\ EmergencyOuts(p) \in Seq(S)
        /\ more \in Seq(S) /\ before \in Seq(S) /\ rest \in Seq(S)
    BY <1>2, <1>3, Widened
  <1> HIDE DEF S
  <1>5. more \o rest \in Seq(S)
    BY <1>4
  <1> DEFINE first == before \o EmergencyOuts(p) \o LeavingOuts(session')
  <1>6. first \in Seq(S) /\ outbox' = first \o more \o rest
    BY <1>4
  <1>7. outbox' = first \o (more \o rest)
    <2> HIDE DEF first
    <2> QED
      BY <1>4, <1>6, SMTT(60), ZenonT(60)
  <1> QED
    BY <1>4, <1>5, <1>7, ReleasePrecedes

LEMMA DegradeReleases ==
    ASSUME NEW T, NEW rest \in Seq(T), NEW metric \in Metrics, DegradeWith(session.target, metric, rest)
    PROVE  ReleasedFirst
  <1> DEFINE p == session.target
  <1>1. /\ session' = BackendDegradedState
        /\ outbox' = EmergencyOuts(p) \o LeavingOuts(session') \o <<MetricOut(metric)>> \o rest
    BY DEF DegradeWith
  <1>2. outbox' = <<>> \o EmergencyOuts(p) \o LeavingOuts(session') \o <<MetricOut(metric)>> \o rest
    BY <1>1, StartsEmpty
  <1> QED
    BY <1>1, <1>2, LeavingPrecedes, UnnumberedLists, SessionsTyped

LEMMA ReturnReleases ==
    ASSUME NEW T, NEW rest \in Seq(T), NEW moved \in Seq(Unnumbered), ReturnToLocalAfter(moved, rest)
    PROVE  ReleasedFirst
  <1> DEFINE p == session.target
             fault == IF LedgerFault THEN <<MetricOut("PressedStateLedgerFault")>> ELSE <<>>
  <1>1. /\ session' \in {BackendDegradedState, LocalReady}
        /\ outbox' = moved \o EmergencyOuts(p) \o LeavingOuts(session') \o fault \o rest
    BY DEF ReturnToLocalAfter
  <1>2. fault \in Seq(Unnumbered)
    BY UnnumberedLists DEF Metrics
  <1> HIDE DEF fault
  <1> QED
    BY <1>1, <1>2, LeavingPrecedes, SessionsTyped

LEMMA BackendDegradedReleases ==
    ASSUME NEW T, NEW rest \in Seq(T), IsRemote, BackendDegraded(rest)
    PROVE  ReleasedFirst
  <1> DEFINE p == session.target
             fault == IF LedgerFault THEN <<MetricOut("PressedStateLedgerFault")>> ELSE <<>>
  <1>1. /\ session' = BackendDegradedState
        /\ outbox' = EmergencyOuts(p) \o LeavingOuts(session') \o fault \o rest
    BY DEF BackendDegraded
  <1>2. fault \in Seq(Unnumbered)
    BY UnnumberedLists DEF Metrics
  <1> HIDE DEF fault
  <1>3. outbox' = <<>> \o EmergencyOuts(p) \o LeavingOuts(session') \o fault \o rest
    BY <1>1, StartsEmpty
  <1> QED
    BY <1>1, <1>2, <1>3, LeavingPrecedes, UnnumberedLists, SessionsTyped

LEMMA LoseTargetReleases ==
    ASSUME NEW T, NEW rest \in Seq(T), LoseTarget(session.target),
           outbox' = LoseTargetOuts(session.target) \o rest
    PROVE  ReleasedFirst
  <1> DEFINE p == session.target
             new == IF LedgerFault THEN <<MetricOut("PressedStateLedgerFault")>> ELSE RebuiltOut
  <1>1. /\ session' = TargetUnavailable
        /\ outbox' = EmergencyOuts(p) \o LeavingOuts(session') \o new \o rest
    BY DEF LoseTarget, LoseTargetOuts
  <1>2. new \in Seq(Unnumbered)
    BY UnnumberedLists DEF Metrics
  <1> HIDE DEF new
  <1>3. outbox' = <<>> \o EmergencyOuts(p) \o LeavingOuts(session') \o new \o rest
    BY <1>1, StartsEmpty
  <1> QED
    BY <1>1, <1>2, <1>3, LeavingPrecedes, UnnumberedLists, SessionsTyped

LEMMA MovesRelease ==
    ASSUME NEW T, NEW rest \in Seq(T), IsRemote, ~IsRemote',
           \/ Command(rest)
           \/ \E p \in Peers : PeerConnected(p, rest) \/ PeerDisconnected(p, rest)
           \/ \E token, success : ReleaseAllCompleted(token, success, rest)
    PROVE  ReleasedFirst
  <1>1. ASSUME NEW e, EnterRemote(e, rest) \/ EnterExhausted(e, rest) PROVE FALSE
    <2>1. session = LocalReady
      BY <1>1 DEF EnterRemote, EnterExhausted, MayEnter
    <2> QED
      BY <2>1 DEF IsRemote, LocalReady, Idle
  <1>2. ASSUME NEW kind \in {"Relative", "Axes"}, SendRealtime(kind, rest) PROVE ReleasedFirst
    BY <1>2, DegradeReleases DEF SendRealtime, IsRemote, Metrics
  <1>3. ASSUME NEW kind, NEW c, SendReliable(kind, c, rest) PROVE ReleasedFirst
    BY <1>3, DegradeReleases DEF SendReliable, IsRemote, Metrics
  <1>4. ASSUME NEW c, NEW down, PressOrRelease(c, down, rest) PROVE ReleasedFirst
    BY <1>3, <1>4, DegradeReleases DEF PressOrRelease, Metrics
  <1>5. ASSUME OtherReliable(rest) PROVE ReleasedFirst
    BY <1>3, <1>5 DEF OtherReliable
  <1>6. ASSUME ReturnToLocal(rest) PROVE ReleasedFirst
    BY <1>6, ReturnReleases, UnnumberedLists DEF ReturnToLocal
  <1>7. ASSUME CrossReturnEdge(rest) PROVE ReleasedFirst
    <2> DEFINE o == SendRealtimeOut(session.target, Frame(rtSeq, "Relative", None, 0))
    <2>1. <<o>> \in Seq(Unnumbered)
      <3>1. o \in Unnumbered
        BY DEF Unnumbered
      <3> QED
        BY <3>1
    <2> QED
      BY <1>6, <1>7, <2>1, ReturnReleases DEF CrossReturnEdge
  <1>8. ASSUME NEW graph, LayoutChanged(graph, rest) PROVE ReleasedFirst
    BY <1>8, LoseTargetReleases DEF LayoutChanged, IsRemote
  <1>9. ASSUME NEW p, PeerDisconnected(p, rest) PROVE ReleasedFirst
    BY <1>9, LoseTargetReleases DEF PeerDisconnected, IsRemote
  <1>10. ASSUME NEW p \in Peers, PeerConnected(p, rest) PROVE ReleasedFirst
    BY <1>10 DEF PeerConnected, IsRemote, TargetUnavailable, Idle
  <1>11. ASSUME NEW token, NEW success, ReleaseAllCompleted(token, success, rest)
         PROVE  ReleasedFirst
    BY <1>11 DEF ReleaseAllCompleted, Recovers, IsRemote, TargetUnavailable, Idle, routerVars
  <1> QED
    BY <1>1, <1>2, <1>4, <1>5, <1>6, <1>7, BackendDegradedReleases, <1>8, <1>9, <1>10, <1>11
    DEF Command

LEMMA NextReleases ==
    ASSUME RouterNext, IsRemote, ~IsRemote'
    PROVE  ReleasedFirst
  <1>1. <<>> \in Seq({})
    OBVIOUS
  <1> QED
    BY <1>1, MovesRelease DEF RouterNext

(* When control leaves a peer its release is sent before the desktop is    *)
(* handed back (return_to_local, handle_backend_degraded,                  *)
(* handle_layout_changed, handle_connectivity, the two fault handlers).    *)
THEOREM ReleaseComesFirst == RouterSpec => ReleaseBeforeHandback
  <1>1. [RouterNext]_vars => [IsRemote /\ ~IsRemote' => ReleasedFirst]_vars
    BY NextReleases
  <1>2. RouterSpec => [][IsRemote /\ ~IsRemote' => ReleasedFirst]_vars
    BY <1>1, PTL DEF RouterSpec
  <1> QED
    BY <1>2 DEF ReleaseBeforeHandback, ReleasedFirst

-----------------------------------------------------------------------------
(* The input router implements ControlSession: every step of a handler is  *)
(* a step of the abstract session or leaves it unchanged.  A handler that  *)
(* takes control away is one abstract step, Leave, whatever its reason;    *)
(* that the release is owed after it, or can no longer be numbered, is     *)
(* PushOwes.                                                               *)

DownSet == {c \in Controls : held[c] # 0}

LEMMA Stutter ==
    ASSUME UNCHANGED <<session, held, pending, emergMax, nextToken>>
    PROVE  UNCHANGED Abstract!vars
  BY DEF Abstract!vars, ReleaseFaulted

LEMMA Faulting == ReleaseFaulted \in BOOLEAN /\ ReleaseFaulted' \in BOOLEAN
  BY DEF ReleaseFaulted

\* Leaving a peer, the last control event included.
LEMMA LeaveStep ==
    ASSUME RouterInv, IsRemote, held' \in [Controls -> 0..GenMax],
           \/ UNCHANGED held
           \/ \E c \in Controls : \E g : held' = [held EXCEPT ![c] = g],
           PushEmergencyRelease(session.target),
           session' \in {LocalReady, TargetUnavailable, BackendDegradedState}
    PROVE  Abstract!Leave
  <1>1. pending' # None \/ ReleaseFaulted'
    BY PushOwes DEF RouterInv, SessionShape
  <1>2. \/ DownSet' = DownSet
        \/ \E c \in Controls : DownSet' = DownSet \cup {c} \/ DownSet' = DownSet \ {c}
    <2>1. CASE UNCHANGED held
      BY <2>1 DEF DownSet
    <2>2. ASSUME NEW c \in Controls, NEW g, held' = [held EXCEPT ![c] = g]
          PROVE  DownSet' = DownSet \cup {c} \/ DownSet' = DownSet \ {c}
      BY <2>2 DEF DownSet, RouterInv, RouterTypeOK
    <2> QED
      BY <2>1, <2>2
  <1> QED
    BY <1>1, <1>2, Faulting
    DEF Abstract!Leave, Abstract!Remote, Abstract!LocalReady, Abstract!TargetUnavailable,
        Abstract!BackendDegraded, Abstract!Idle, IsRemote, LocalReady, TargetUnavailable,
        BackendDegradedState, Idle, DownSet

AbstractStep == Abstract!Next \/ UNCHANGED Abstract!vars

LEMMA DegradeWithStep ==
    ASSUME RouterInv, IsRemote, held' \in [Controls -> 0..GenMax],
           \/ UNCHANGED held
           \/ \E c \in Controls : \E g : held' = [held EXCEPT ![c] = g],
           NEW metric, NEW rest, DegradeWith(session.target, metric, rest)
    PROVE  Abstract!Next
  BY LeaveStep DEF DegradeWith, Abstract!Next

LEMMA EnterRemoteStep ==
    ASSUME RouterInv, NEW e \in Edges, NEW rest, EnterRemote(e, rest)
    PROVE  Abstract!Next
  <1>1. routes[e] \in Peers
    BY DEF EnterRemote, MayEnter, RouterInv, RouterTypeOK
  <1>2. Abstract!Enter(routes[e], e)
    BY Faulting
    DEF EnterRemote, MayEnter, Abstract!Enter, Abstract!LocalReady, Abstract!Idle,
        Abstract!RemoteActive, LocalReady, Idle, RemoteActive, ledgerVars
  <1> QED
    BY <1>1, <1>2 DEF Abstract!Next

\* Degrading while no peer has control.
LEMMA DegradeStep ==
    ASSUME ~IsRemote, session' = BackendDegradedState,
           UNCHANGED <<held, pending, emergMax, nextToken>>
    PROVE  Abstract!Next
  BY DEF Abstract!Next, Abstract!Degrade, Abstract!Remote, Abstract!BackendDegraded,
         Abstract!Idle, IsRemote, BackendDegradedState, Idle, ReleaseFaulted

LEMMA SendReliableStep ==
    ASSUME RouterInv, IsRemote, held' \in [Controls -> 0..GenMax],
           \/ UNCHANGED held
           \/ \E c \in Controls : \E g : held' = [held EXCEPT ![c] = g],
           NEW kind, NEW ctl, NEW rest, SendReliable(kind, ctl, rest)
    PROVE  AbstractStep
  <1>1. CASE relSeq < SeqMax
    <2>1. UNCHANGED <<session, pending, emergMax, nextToken>>
      BY <1>1 DEF SendReliable
    <2>2. CASE UNCHANGED held
      BY <2>1, <2>2, Stutter DEF AbstractStep
    <2>3. ASSUME NEW c \in Controls, NEW g, held' = [held EXCEPT ![c] = g]
          PROVE  AbstractStep
      <3>1. DownSet' = DownSet \cup {c} \/ DownSet' = DownSet \ {c}
        BY <2>3 DEF DownSet, RouterInv, RouterTypeOK
      <3>2. Abstract!Hold
        BY <2>1, <3>1
        DEF Abstract!Hold, Abstract!Remote, IsRemote, DownSet, ReleaseFaulted
      <3> QED
        BY <3>2 DEF AbstractStep, Abstract!Next
    <2> QED
      BY <2>2, <2>3
  <1>2. CASE ~(relSeq < SeqMax)
    BY <1>2, DegradeWithStep DEF SendReliable, AbstractStep
  <1> QED
    BY <1>1, <1>2

LEMMA PressOrReleaseStep ==
    ASSUME RouterInv, NEW c \in Controls, NEW down \in BOOLEAN, NEW rest,
           PressOrRelease(c, down, rest)
    PROVE  AbstractStep
  <1>1. IsRemote
    BY DEF PressOrRelease
  <1>2. CASE down /\ held[c] = 0 /\ nextGen = GenMax
    BY <1>1, <1>2, DegradeWithStep DEF PressOrRelease, AbstractStep, RouterInv, RouterTypeOK
  <1>3. CASE ~(down /\ held[c] = 0 /\ nextGen = GenMax)
    <2>1. /\ held' = [held EXCEPT ![c] = IF ~down THEN 0 ELSE IF @ = 0 THEN nextGen ELSE @]
          /\ SendReliable(IF down THEN "Press" ELSE "Release", c, rest)
      BY <1>3 DEF PressOrRelease
    <2>2. held' \in [Controls -> 0..GenMax]
      BY <2>1, ConstantsAssumption DEF RouterInv, RouterTypeOK
    <2> QED
      BY <1>1, <2>1, <2>2, SendReliableStep
  <1> QED
    BY <1>2, <1>3

LEMMA CommandStep ==
    ASSUME RouterInv, NEW rest, Command(rest)
    PROVE  AbstractStep
  <1>1. ASSUME NEW e \in Edges, EnterRemote(e, rest) PROVE AbstractStep
    BY <1>1, EnterRemoteStep DEF AbstractStep
  <1>2. ASSUME NEW e \in Edges, EnterExhausted(e, rest) PROVE AbstractStep
    BY <1>2, DegradeStep
    DEF AbstractStep, EnterExhausted, MayEnter, IsRemote, LocalReady, Idle, ledgerVars, countVars
  <1>3. ASSUME NEW kind, SendRealtime(kind, rest) PROVE AbstractStep
    <2>1. CASE rtSeq < SeqMax
      BY <1>3, <2>1, Stutter DEF SendRealtime, AbstractStep, ledgerVars
    <2>2. CASE ~(rtSeq < SeqMax)
      BY <1>3, <2>2, DegradeWithStep DEF SendRealtime, AbstractStep, RouterInv, RouterTypeOK
    <2> QED
      BY <2>1, <2>2
  <1>4. ASSUME OtherReliable(rest) PROVE AbstractStep
    BY <1>4, SendReliableStep DEF OtherReliable, RouterInv, RouterTypeOK
  <1>5. ASSUME NEW moved, ReturnToLocalAfter(moved, rest) PROVE AbstractStep
    BY <1>5, LeaveStep DEF ReturnToLocalAfter, AbstractStep, Abstract!Next, RouterInv, RouterTypeOK
  <1>6. ASSUME BackendDegraded(rest) PROVE AbstractStep
    <2>1. CASE IsRemote
      BY <1>6, <2>1, LeaveStep DEF BackendDegraded, AbstractStep, Abstract!Next, RouterInv, RouterTypeOK
    <2>2. CASE ~IsRemote
      BY <1>6, <2>2, DegradeStep DEF BackendDegraded, AbstractStep
    <2> QED
      BY <2>1, <2>2
  <1>7. ASSUME NEW graph \in Layouts, LayoutChanged(graph, rest) PROVE AbstractStep
    <2>1. CASE IsRemote /\ routes'[session.via] # session.target
      BY <1>7, <2>1, LeaveStep
      DEF LayoutChanged, LoseTarget, AbstractStep, Abstract!Next, RouterInv, RouterTypeOK
    <2>2. CASE ~(IsRemote /\ routes'[session.via] # session.target)
      BY <1>7, <2>2, Stutter DEF LayoutChanged, AbstractStep
    <2> QED
      BY <2>1, <2>2
  <1> QED
    BY <1>1, <1>2, <1>3, <1>4, <1>5, <1>6, <1>7, PressOrReleaseStep
    DEF Command, CrossReturnEdge, ReturnToLocal

LEMMA PeerConnectedStep ==
    ASSUME RouterInv, NEW p \in Peers, NEW rest, PeerConnected(p, rest)
    PROVE  AbstractStep
  <1>1. CASE suspendedTarget = p /\ pending # None
    <2>1. UNCHANGED <<session, held, pending>>
      BY <1>1 DEF PeerConnected, PushEmergencyRelease, NewBatch
    <2>2. Abstract!Retry
      BY <1>1, <2>1, Faulting DEF Abstract!Retry
    <2> QED
      BY <2>2 DEF AbstractStep, Abstract!Next
  <1>2. CASE ~(suspendedTarget = p /\ pending # None)
    <2>1. UNCHANGED <<held, pending, emergMax, nextToken>>
      BY <1>2 DEF PeerConnected
    <2>2. CASE suspendedTarget = p /\ session = TargetUnavailable
      <3>1. session' = LocalReady /\ pending = None
        BY <1>2, <2>2 DEF PeerConnected
      <3>2. Abstract!RecoverSettled
        BY <2>1, <2>2, <3>1
        DEF Abstract!RecoverSettled, Abstract!Recover, Abstract!LocalReady,
            Abstract!TargetUnavailable, Abstract!Idle, LocalReady, TargetUnavailable, Idle,
            ReleaseFaulted
      <3> QED
        BY <3>2 DEF AbstractStep, Abstract!Next
    <2>3. CASE ~(suspendedTarget = p /\ session = TargetUnavailable)
      BY <1>2, <2>1, <2>3, Stutter DEF PeerConnected, AbstractStep
    <2> QED
      BY <2>2, <2>3
  <1> QED
    BY <1>1, <1>2

LEMMA PeerDisconnectedStep ==
    ASSUME RouterInv, NEW p \in Peers, NEW rest, PeerDisconnected(p, rest)
    PROVE  AbstractStep
  <1>1. CASE IsRemote /\ session.target = p
    BY <1>1, LeaveStep
    DEF PeerDisconnected, LoseTarget, AbstractStep, Abstract!Next, RouterInv, RouterTypeOK
  <1>2. CASE ~(IsRemote /\ session.target = p)
    BY <1>2, Stutter DEF PeerDisconnected, AbstractStep
  <1> QED
    BY <1>1, <1>2

LEMMA ReleaseAllCompletedStep ==
    ASSUME RouterInv, NEW token, NEW success, NEW rest,
           ReleaseAllCompleted(token, success, rest)
    PROVE  AbstractStep
  <1>1. CASE Confirms(token, success)
    <2>1. pending # None /\ pending.held = held
      BY <1>1 DEF Confirms, RouterInv, PendingCoversHeld
    <2>2. DownSet' = {} /\ pending' = None /\ ReleaseFaulted' = ReleaseFaulted
      BY <1>1, <2>1 DEF ReleaseAllCompleted, DownSet, ReleaseFaulted, countVars
    <2>3. session' = session \/ (session = TargetUnavailable /\ session' = LocalReady)
      BY <1>1 DEF ReleaseAllCompleted, Recovers
    <2>4. Abstract!Settle
      BY <2>1, <2>2, <2>3
      DEF Abstract!Settle, Abstract!Recover, Abstract!LocalReady, Abstract!TargetUnavailable,
          Abstract!Idle, LocalReady, TargetUnavailable, Idle, DownSet
    <2> QED
      BY <2>4 DEF AbstractStep, Abstract!Next
  <1>2. CASE ~Confirms(token, success)
    BY <1>2, Stutter DEF ReleaseAllCompleted, AbstractStep, routerVars, countVars, ledgerVars
  <1> QED
    BY <1>1, <1>2

LEMMA RefinementInit == RouterInit => Abstract!Init
  BY Faulting
  DEF RouterInit, Abstract!Init, Abstract!LocalReady, Abstract!Idle, LocalReady, Idle

LEMMA RefinementStep == RouterInv /\ [RouterNext]_vars => [Abstract!Next]_Abstract!vars
  <1> SUFFICES ASSUME RouterInv, [RouterNext]_vars PROVE AbstractStep
    BY DEF AbstractStep
  <1>1. CASE RouterNext
    BY <1>1, CommandStep, PeerConnectedStep, PeerDisconnectedStep, ReleaseAllCompletedStep
    DEF RouterNext
  <1>2. CASE UNCHANGED vars
    BY <1>2, Stutter DEF AbstractStep, vars, routerVars, countVars, ledgerVars
  <1> QED
    BY <1>1, <1>2

(* The router (input_router.rs) takes no transition that the abstract      *)
(* session, with its duty to release what it holds, does not allow.        *)
THEOREM RouterImplementsSession == RouterSpec => ImplementsControlSession
  BY RouterInvariant, RefinementInit, RefinementStep, PTL
  DEF RouterSpec, ImplementsControlSession, Abstract!Spec

-----------------------------------------------------------------------------
(***************************************************************************)
(* The input actor's dispatch: types, the connections that sessions use,   *)
(* and what the machine shows of them.                                     *)
(*                                                                         *)
(* The properties of the runs speak of the moments between commands.  The  *)
(* invariant behind them says of every moment what the outputs that still  *)
(* wait will do: each waiting output is sound in the state it was returned *)
(* for, a reliable frame waits at the head only, a peer that keeps a       *)
(* binding without being in control has its release waiting, and the last  *)
(* waiting news of the session and of the shortcuts is the right one.      *)
(***************************************************************************)

\* No emergency release has used the last number of the running session, only
\* a lack of batch tokens leaves controls held that nothing is owed for, and
\* nothing is owed before the first session.
OwedStrictly ==
    /\ IsRemote \/ pending # None => epoch # 0
    /\ IsRemote => ~emergMax
    /\ ~IsRemote /\ pending = None /\ HeldSet # {} => nextToken = TokenMax

FrameTypes == {"SendRealtime", "SendReliable", "EmergencyReleaseAll"}

\* What each waiting output says of the state.
Sound(o) ==
    /\ o.type \in OutputTypes
    /\ o.type \in FrameTypes => o.target \in Peers /\ epoch # 0 /\ o.frame.epoch = epoch
    /\ o.type = "EmergencyReleaseAll" => ~IsRemote /\ o.frame.kind = "ReleaseAll"
    /\ o.type = "AdvanceFaultEpoch" => session = BackendDegradedState
    /\ o.type = "LocalSessionChanged" => o.value \in Sessions
    /\ o.type = "SuppressLocalShortcuts" => o.value \in BOOLEAN

\* And what the reliable frame at the head says.
SoundReliable(o) ==
    /\ Controlled(o.target)
    /\ o.frame.kind # "ReleaseAll"
    /\ o.frame.kind \in {"Press", "Release"} => o.frame.control \in Controls
    /\ o.frame.kind = "Enter" => carriers[epoch] = {} /\ \A p \in Peers : binding[p] = 0

IsList(s) == Len(s) \in Nat /\ s = [i \in 1..Len(s) |-> s[i]]

OutboxInv ==
    /\ IsList(outbox)
    /\ \A i \in DOMAIN outbox :
          /\ Sound(outbox[i])
          /\ outbox[i].type = "SendReliable" => i = 1 /\ SoundReliable(outbox[i])

Entering == ~Quiet /\ Head(outbox).type = "SendReliable" /\ Head(outbox).frame.kind = "Enter"

ReleaseDue(p) ==
    \E i \in DOMAIN outbox : outbox[i].type = "EmergencyReleaseAll" /\ outbox[i].target = p

BoundInv ==
    /\ \A p \in Peers :
          /\ binding[p] # 0 => Controlled(p) \/ ReleaseDue(p)
          /\ Controlled(p) => binding[p] # 0 \/ Entering
    /\ \A p, q \in Peers : binding[p] # 0 /\ binding[q] # 0 => p = q

LaneInv ==
    \A p \in Peers, g \in Conns :
        lanes[p][g].active # 0 =>
            lanes[p][g].active = epoch /\ binding[p] = g /\ <<p, g>> \in carriers[epoch]

CarrierInv ==
    /\ \A e \in 1..EpochMax : e > epoch => carriers[e] = {}
    /\ \A p \in Peers : binding[p] # 0 /\ epoch # 0 => carriers[epoch] \subseteq {<<p, binding[p]>>}

-----------------------------------------------------------------------------
(* What is shown when all that waits has been executed: the value of the   *)
(* last output of a type, or the one that is shown now, is in good.        *)
Settles(outs, type, now, good) ==
    /\ \A i \in DOMAIN outs :
          outs[i].type = type /\ (\A j \in DOMAIN outs : j > i => outs[j].type # type)
          => outs[i].value \in good
    /\ (\A i \in DOMAIN outs : outs[i].type # type) => now \in good

Fitting == {s \in Sessions : s = session \/ (~IsRemote /\ s = TargetUnavailable)}

Projecting ==
    IF ~Quiet /\ Head(outbox).type = "SendReliable" THEN Project(Head(outbox).frame) ELSE projected

ViewInv ==
    session # BackendDegradedState =>
        /\ alive => /\ Settles(outbox, "SuppressLocalShortcuts", suppressed, {IsRemote})
                    /\ Settles(outbox, "LocalSessionChanged", published, Fitting)
        /\ Projecting \subseteq HeldSet
        /\ IsRemote /\ nextToken # TokenMax => Projecting = HeldSet

IInv ==
    /\ RouterInv /\ RuntimeTypeOK /\ IsList(news)
    /\ OwedStrictly
    /\ OutboxInv
    /\ BoundInv /\ LaneInv /\ CarrierInv /\ OneCarrierPerEpoch
    /\ ViewInv

-----------------------------------------------------------------------------
(* Lists of outputs.                                                       *)

LEMMA ListsAreSequences ==
    ASSUME NEW s
    PROVE  /\ IsList(s) => \E S : s \in Seq(S)
           /\ \A S : s \in Seq(S) => IsList(s) /\ DOMAIN s = 1..Len(s) /\ \A i \in DOMAIN s : s[i] \in S
  <1>1. ASSUME IsList(s) PROVE \E S : s \in Seq(S)
    <2> DEFINE S == {s[i] : i \in 1..Len(s)}
    <2>1. s = [i \in 1..Len(s) |-> s[i]] /\ Len(s) \in Nat /\ \A i \in 1..Len(s) : s[i] \in S
      BY <1>1 DEF IsList
    <2> HIDE DEF S
    <2>2. s \in [1..Len(s) -> S]
      BY <2>1
    <2>3. s \in Seq(S)
      BY <2>1, <2>2
    <2> QED
      BY <2>3
  <1>2. ASSUME NEW S, s \in Seq(S)
        PROVE  IsList(s) /\ DOMAIN s = 1..Len(s) /\ \A i \in DOMAIN s : s[i] \in S
    BY <1>2 DEF IsList
  <1> QED
    BY <1>1, <1>2

\* The list without its head, and the lists put together.
LEMMA Tails ==
    ASSUME NEW s, IsList(s), s # <<>>
    PROVE  /\ IsList(Tail(s)) /\ Len(Tail(s)) = Len(s) - 1 /\ 1 \in DOMAIN s /\ Head(s) = s[1]
           /\ DOMAIN Tail(s) = 1..Len(s) - 1 /\ DOMAIN s = 1..Len(s) /\ Len(s) \in Nat
           /\ \A i \in DOMAIN Tail(s) : i + 1 \in DOMAIN s /\ Tail(s)[i] = s[i + 1]
  <1>1. PICK S : s \in Seq(S)
    BY ListsAreSequences
  <1>2. Tail(s) \in Seq(S) /\ Len(Tail(s)) = Len(s) - 1 /\ Len(s) \in Nat \ {0} /\ Head(s) = s[1]
        /\ DOMAIN s = 1..Len(s)
    BY <1>1
  <1>3. DOMAIN Tail(s) = 1..Len(s) - 1
    BY <1>2
  <1>4. ASSUME NEW i \in DOMAIN Tail(s) PROVE i + 1 \in DOMAIN s /\ Tail(s)[i] = s[i + 1]
    BY <1>1, <1>2, <1>3, <1>4
  <1>5. IsList(Tail(s))
    BY <1>2, ListsAreSequences
  <1> DEFINE t == Tail(s)
  <1> HIDE DEF t
  <1> QED
    BY <1>2, <1>3, <1>4, <1>5 DEF t

LEMMA Joins ==
    ASSUME NEW s, NEW t, IsList(s), IsList(t)
    PROVE  /\ IsList(s \o t) /\ Len(s) \in Nat /\ Len(t) \in Nat
           /\ DOMAIN (s \o t) = 1..Len(s) + Len(t) /\ DOMAIN s = 1..Len(s) /\ DOMAIN t = 1..Len(t)
           /\ \A i \in DOMAIN s : i \in DOMAIN (s \o t) /\ (s \o t)[i] = s[i]
           /\ \A i \in DOMAIN t : i + Len(s) \in DOMAIN (s \o t) /\ (s \o t)[i + Len(s)] = t[i]
           /\ \A i \in DOMAIN (s \o t) : i \in DOMAIN s \/ i - Len(s) \in DOMAIN t
  <1>1. PICK S : s \in Seq(S)
    BY ListsAreSequences
  <1>2. PICK T : t \in Seq(T)
    BY ListsAreSequences
  <1>3. s \in Seq(S \cup T) /\ t \in Seq(S \cup T)
    BY <1>1, <1>2, Widened
  <1> DEFINE u == s \o t
  <1>4. /\ u \in Seq(S \cup T) /\ Len(u) = Len(s) + Len(t) /\ Len(s) \in Nat /\ Len(t) \in Nat
        /\ DOMAIN u = 1..Len(u) /\ DOMAIN s = 1..Len(s) /\ DOMAIN t = 1..Len(t)
    BY <1>3
  <1>5. \A i \in 1..Len(s) + Len(t) : u[i] = IF i <= Len(s) THEN s[i] ELSE t[i - Len(s)]
    BY <1>3
  <1>6. IsList(u)
    BY <1>4, ListsAreSequences
  <1> HIDE DEF u
  <1>7. \A i \in DOMAIN s : i \in DOMAIN u /\ u[i] = s[i]
    BY <1>4, <1>5
  <1>8. ASSUME NEW i \in DOMAIN t PROVE i + Len(s) \in DOMAIN u /\ u[i + Len(s)] = t[i]
    BY <1>4, <1>5
  <1>9. \A i \in DOMAIN u : i \in DOMAIN s \/ i - Len(s) \in DOMAIN t
    BY <1>4
  <1> QED
    BY <1>4, <1>6, <1>7, <1>8, <1>9 DEF u

-----------------------------------------------------------------------------
(* What a list of outputs settles.                                         *)

LEMMA SettledTail ==
    ASSUME NEW s, IsList(s), s # <<>>, NEW type, NEW now, NEW good, Settles(s, type, now, good)
    PROVE  Settles(Tail(s), type, IF Head(s).type = type THEN Head(s).value ELSE now, good)
  <1> DEFINE t == Tail(s)
  <1>1. /\ DOMAIN t = 1..Len(s) - 1 /\ DOMAIN s = 1..Len(s) /\ Len(s) \in Nat
        /\ 1 \in DOMAIN s /\ Head(s) = s[1]
        /\ \A i \in DOMAIN t : i + 1 \in DOMAIN s /\ t[i] = s[i + 1]
    BY Tails
  <1> HIDE DEF t
  <1>2. \A j \in DOMAIN s : j = 1 \/ (j - 1 \in DOMAIN t /\ t[j - 1] = s[j])
    <2> SUFFICES ASSUME NEW j \in DOMAIN s, j # 1 PROVE j - 1 \in DOMAIN t /\ t[j - 1] = s[j]
      OBVIOUS
    <2>1. j \in Int /\ j - 1 \in DOMAIN t /\ (j - 1) + 1 = j
      BY <1>1
    <2> QED
      BY <1>1, <2>1
  <1>3. ASSUME NEW i \in DOMAIN t, t[i].type = type, \A j \in DOMAIN t : j > i => t[j].type # type
        PROVE  t[i].value \in good
    <2>1. i \in Int /\ i >= 1 /\ i + 1 \in DOMAIN s /\ t[i] = s[i + 1]
      BY <1>1
    <2>2. ASSUME NEW j \in DOMAIN s, j > i + 1 PROVE s[j].type # type
      <3>1. j - 1 \in DOMAIN t /\ t[j - 1] = s[j] /\ j - 1 > i
        BY <1>1, <1>2, <2>1, <2>2
      <3> QED
        BY <1>3, <3>1
    <2> QED
      BY <1>3, <2>1, <2>2 DEF Settles
  <1>4. ASSUME \A i \in DOMAIN t : t[i].type # type
        PROVE  (IF Head(s).type = type THEN Head(s).value ELSE now) \in good
    <2>1. \A j \in DOMAIN s : j > 1 => s[j].type # type
      BY <1>1, <1>2, <1>4
    <2>2. CASE s[1].type = type
      BY <1>1, <2>1, <2>2 DEF Settles
    <2>3. CASE s[1].type # type
      BY <1>1, <1>2, <1>4, <2>3 DEF Settles
    <2> QED
      BY <1>1, <2>2, <2>3
  <1> QED
    BY <1>3, <1>4 DEF Settles, t

\* Outputs put in front: they settle what the rest does not.
LEMMA SettledJoin ==
    ASSUME NEW s, NEW t, IsList(s), IsList(t), NEW type, NEW now, NEW good,
           Settles(t, type, now, good) \/ \A i \in DOMAIN t : t[i].type # type,
           \A i \in DOMAIN s : s[i].type = type => s[i].value \in good,
           (\A i \in DOMAIN s : s[i].type # type) => Settles(t, type, now, good)
    PROVE  Settles(s \o t, type, now, good)
  <1> DEFINE u == s \o t
  <1>1. /\ Len(s) \in Nat /\ Len(t) \in Nat
        /\ DOMAIN u = 1..Len(s) + Len(t) /\ DOMAIN s = 1..Len(s) /\ DOMAIN t = 1..Len(t)
        /\ \A i \in DOMAIN s : i \in DOMAIN u /\ u[i] = s[i]
        /\ \A i \in DOMAIN t : i + Len(s) \in DOMAIN u /\ u[i + Len(s)] = t[i]
        /\ \A i \in DOMAIN u : i \in DOMAIN s \/ i - Len(s) \in DOMAIN t
    BY Joins
  <1> HIDE DEF u
  <1>2. ASSUME NEW i \in DOMAIN u, u[i].type = type, \A j \in DOMAIN u : j > i => u[j].type # type
        PROVE  u[i].value \in good
    <2>1. CASE i \in DOMAIN s
      BY <1>1, <1>2, <2>1
    <2>2. CASE i - Len(s) \in DOMAIN t
      <3> DEFINE k == i - Len(s)
      <3>1. k \in DOMAIN t /\ k \in Int /\ k + Len(s) = i /\ u[i] = t[k]
        BY <1>1, <2>2
      <3>2. ASSUME NEW j \in DOMAIN t, j > k PROVE t[j].type # type
        <4>1. j + Len(s) \in DOMAIN u /\ u[j + Len(s)] = t[j] /\ j + Len(s) > i
          BY <1>1, <3>1, <3>2
        <4> QED
          BY <1>2, <4>1
      <3> HIDE DEF k
      <3>3. Settles(t, type, now, good)
        BY <1>2, <3>1
      <3> QED
        BY <1>2, <3>1, <3>2, <3>3 DEF Settles
    <2> QED
      BY <1>1, <2>1, <2>2
  <1>3. ASSUME \A i \in DOMAIN u : u[i].type # type
        PROVE  now \in good
    <2>1. \A i \in DOMAIN s : s[i].type # type
      BY <1>1, <1>3
    <2>2. \A i \in DOMAIN t : t[i].type # type
      BY <1>1, <1>3
    <2> QED
      BY <2>1, <2>2 DEF Settles
  <1> QED
    BY <1>2, <1>3 DEF Settles, u

\* A value that is good itself may be shown, and more may be good.
LEMMA SettledAgain ==
    ASSUME NEW s, NEW type, NEW now, NEW now2, NEW good, NEW good2,
           Settles(s, type, now, good), good \subseteq good2, now \in good => now2 \in good2
    PROVE  Settles(s, type, now2, good2)
  BY DEF Settles

-----------------------------------------------------------------------------
(* What the router may answer, as far as the dispatch can tell: the new    *)
(* outputs are put in front of those that wait.                            *)

Moving(o) == o.type = "SendRealtime" /\ IsRemote /\ o.target = session.target /\ o.frame.epoch = epoch

Stays(rest) ==
    /\ \E new : /\ IsList(new) /\ outbox' = new \o rest
                /\ \A i \in DOMAIN new : new[i].type = "Metric" \/ Moving(new[i])
    /\ UNCHANGED <<session, epoch, emergMax, held, nextToken, pending>>

Sends(rest) ==
    \E o :
        /\ outbox' = <<o>> \o rest
        /\ o.type = "SendReliable" /\ IsRemote /\ o.target = session.target /\ o.frame.epoch = epoch
        /\ \/ o.frame.kind = "Press" /\ o.frame.control \in Controls
              /\ HeldSet' = HeldSet \cup {o.frame.control}
           \/ o.frame.kind = "Release" /\ o.frame.control \in Controls
              /\ HeldSet' = HeldSet \ {o.frame.control}
           \/ o.frame.kind = "Other" /\ HeldSet' = HeldSet
        /\ UNCHANGED <<session, epoch, emergMax, nextToken, pending>>

Enters(rest) ==
    \E o, a :
        /\ outbox' = <<o, a, SessionOut(session'), SuppressOut(TRUE)>> \o rest
        /\ o.type = "SendReliable" /\ o.target = session'.target
        /\ o.frame.epoch = epoch' /\ o.frame.kind = "Enter"
        /\ a.type = "SendRealtime" /\ a.target = session'.target /\ a.frame.epoch = epoch'
        /\ ~IsRemote /\ IsRemote' /\ pending = None /\ session = LocalReady
        /\ epoch' = epoch + 1 /\ ~emergMax'
        /\ UNCHANGED <<held, nextToken, pending>>

\* What is said when control leaves peer p, or when forwarding is given up.
Handback(o, s) ==
    \/ o.type = "Metric"
    \/ o.type = "LocalSessionChanged" /\ o.value = s
    \/ o.type = "SuppressLocalShortcuts" /\ o.value = FALSE

Release(o, p) ==
    \/ o.type = "SendRealtime" /\ o.target = p /\ o.frame.epoch = epoch
    \/ o.type = "EmergencyReleaseAll" /\ o.target = p /\ o.frame.epoch = epoch
       /\ o.frame.kind = "ReleaseAll"

Tells(new, type) == \E i \in DOMAIN new : new[i].type = type

HandedBack(new) ==
    /\ IsList(new)
    /\ Tells(new, "LocalSessionChanged") /\ Tells(new, "SuppressLocalShortcuts")

Leaves(rest) ==
    /\ \E new : /\ HandedBack(new) /\ outbox' = new \o rest
                /\ Tells(new, "EmergencyReleaseAll")
                /\ \A i \in DOMAIN new : Handback(new[i], session') \/ Release(new[i], session.target)
    /\ IsRemote /\ epoch' = epoch
    /\ session' \in {LocalReady, TargetUnavailable, BackendDegradedState}
    /\ pending' # None \/ nextToken' = TokenMax
    /\ session' # BackendDegradedState => held' = held

Degrades(rest) ==
    /\ \E new : /\ HandedBack(new) /\ outbox' = new \o rest
                /\ \A i \in DOMAIN new : Handback(new[i], session')
    /\ ~IsRemote /\ session' = BackendDegradedState
    /\ UNCHANGED <<epoch, held, nextToken, pending>>

Resends(rest) ==
    /\ \E new : /\ IsList(new) /\ outbox' = new \o rest
                /\ \A i \in DOMAIN new :
                      new[i].type = "Metric" \/ \E p \in Peers : Release(new[i], p)
    /\ ~IsRemote /\ pending # None
    /\ UNCHANGED <<session, epoch, held, nextToken, pending>>

Completes(rest) ==
    /\ \E new : /\ IsList(new) /\ outbox' = new \o rest
                /\ \A i \in DOMAIN new : Handback(new[i], session') /\ new[i].type # "SuppressLocalShortcuts"
                /\ \/ session' = session /\ ~Tells(new, "LocalSessionChanged")
                   \/ session = TargetUnavailable /\ session' = LocalReady
                      /\ Tells(new, "LocalSessionChanged")
    /\ ~IsRemote
    /\ UNCHANGED <<epoch, nextToken>>
    /\ UNCHANGED <<held, pending>> \/ (pending' = None /\ HeldSet' = {})

-----------------------------------------------------------------------------
(* The handlers give these answers.                                        *)

\* The outputs that leaving p for state s is made of.
LeavingSet(p, s) ==
    {EmergencyOut(p, Frame(relSeq, "ReleaseAll", None, 0), ReleaseToken)}
    \cup {SessionOut(s), SuppressOut(FALSE)} \cup {MetricOut(m) : m \in Metrics}
    \cup {SendRealtimeOut(p, Frame(rtSeq, "Relative", None, 0))}

Has(s, o) == \E i \in DOMAIN s : s[i] = o

LEMMA HasJoin ==
    ASSUME NEW S, NEW s \in Seq(S), NEW t \in Seq(S), NEW o, Has(s, o) \/ Has(t, o)
    PROVE  Has(s \o t, o)
  <1>1. IsList(s) /\ IsList(t)
    BY ListsAreSequences
  <1> DEFINE u == s \o t
  <1>2. /\ \A i \in DOMAIN s : i \in DOMAIN u /\ u[i] = s[i]
        /\ \A i \in DOMAIN t : i + Len(s) \in DOMAIN u /\ u[i + Len(s)] = t[i]
    BY <1>1, Joins
  <1> HIDE DEF u
  <1>3. Has(u, o)
    BY <1>2 DEF Has
  <1> QED
    BY <1>3 DEF u

LEMMA LeavingMembers ==
    ASSUME NEW p, NEW s, NEW o \in LeavingSet(p, s)
    PROVE  Handback(o, s) \/ Release(o, p)
  BY DEF LeavingSet, Handback, Release, EmergencyOut, SessionOut, SuppressOut, MetricOut,
         SendRealtimeOut, Output, Frame

LEMMA LeavingParts ==
    ASSUME NEW p, NEW s, ~EmergencyExhausted
    PROVE  /\ EmergencyOuts(p) \in Seq(LeavingSet(p, s))
           /\ Has(EmergencyOuts(p), EmergencyOut(p, Frame(relSeq, "ReleaseAll", None, 0), ReleaseToken))
           /\ LeavingOuts(s) \in Seq(LeavingSet(p, s))
           /\ Has(LeavingOuts(s), SessionOut(s)) /\ Has(LeavingOuts(s), SuppressOut(FALSE))
           /\ \A m \in Metrics : <<MetricOut(m)>> \in Seq(LeavingSet(p, s))
           /\ <<>> \in Seq(LeavingSet(p, s)) /\ RebuiltOut \in Seq(LeavingSet(p, s))
           /\ <<SendRealtimeOut(p, Frame(rtSeq, "Relative", None, 0))>> \in Seq(LeavingSet(p, s))
  <1> DEFINE e == EmergencyOut(p, Frame(relSeq, "ReleaseAll", None, 0), ReleaseToken)
             a == SessionOut(s)
             b == SuppressOut(FALSE)
             r == SendRealtimeOut(p, Frame(rtSeq, "Relative", None, 0))
             S == LeavingSet(p, s)
  <1>1. e \in S /\ a \in S /\ b \in S /\ r \in S /\ \A m \in Metrics : MetricOut(m) \in S
    BY DEF LeavingSet
  <1>2. EmergencyOuts(p) = <<e>> /\ LeavingOuts(s) = <<a, b>>
    BY DEF EmergencyOuts, LeavingOuts
  <1> HIDE DEF e, a, b, r, S
  <1>3. <<e>> \in Seq(S) /\ <<a, b>> \in Seq(S) /\ <<r>> \in Seq(S) /\ <<>> \in Seq(S)
        /\ \A m \in Metrics : <<MetricOut(m)>> \in Seq(S)
    BY <1>1, Listed
  <1>4. Has(<<e>>, e) /\ Has(<<a, b>>, a) /\ Has(<<a, b>>, b)
    BY DEF Has
  <1>5. RebuiltOut \in Seq(S)
    BY <1>3 DEF RebuiltOut, Metrics
  <1> QED
    BY <1>2, <1>3, <1>4, <1>5 DEF e, a, b, r, S

LEMMA PushOwesBatch ==
    ASSUME RouterTypeOK, ~emergMax, NEW p \in Peers, held' \in [Controls -> 0..GenMax],
           PushEmergencyRelease(p)
    PROVE  pending' # None \/ nextToken' = TokenMax
  <1>1. CASE NewBatch
    <2>1. pending' = [token |-> nextToken, held |-> held', target |-> p]
      BY <1>1 DEF PushEmergencyRelease
    <2>2. pending' \in Batches
      BY <2>1 DEF Batches, RouterTypeOK
    <2> QED
      BY <2>2, NoBatchAssumption
  <1>2. CASE ~NewBatch
    <2>1. pending' = pending /\ nextToken' = nextToken /\ nextToken \in 1..TokenMax
      BY <1>2 DEF PushEmergencyRelease, RouterTypeOK
    <2>2. pending # None \/ nextToken = TokenMax
      BY <1>2, <2>1, ConstantsAssumption DEF NewBatch, EmergencyExhausted
    <2> QED
      BY <2>1, <2>2
  <1> QED
    BY <1>1, <1>2

\* Leaving the peer in control, whatever the handler.
LEMMA LeavingLeaves ==
    ASSUME RouterInv, OwedStrictly, IsRemote, NEW rest, NEW new \in Seq(LeavingSet(session.target, session')),
           outbox' = new \o rest,
           Has(new, EmergencyOut(session.target, Frame(relSeq, "ReleaseAll", None, 0), ReleaseToken)),
           Has(new, SessionOut(session')), Has(new, SuppressOut(FALSE)),
           PushEmergencyRelease(session.target), held' \in [Controls -> 0..GenMax], epoch' = epoch,
           session' \in {LocalReady, TargetUnavailable, BackendDegradedState},
           session' # BackendDegradedState => held' = held
    PROVE  Leaves(rest)
  <1>1. pending' # None \/ nextToken' = TokenMax
    BY PushOwesBatch DEF RouterInv, SessionShape, OwedStrictly
  <1>2. IsList(new) /\ \A i \in DOMAIN new : new[i] \in LeavingSet(session.target, session')
    BY ListsAreSequences
  <1>3. \A i \in DOMAIN new : Handback(new[i], session') \/ Release(new[i], session.target)
    BY <1>2, LeavingMembers
  <1>4. /\ Tells(new, "EmergencyReleaseAll") /\ Tells(new, "LocalSessionChanged")
        /\ Tells(new, "SuppressLocalShortcuts")
    BY DEF Has, Tells, EmergencyOut, SessionOut, SuppressOut, Output
  <1> QED
    BY <1>1, <1>2, <1>3, <1>4 DEF Leaves, HandedBack

LEMMA DegradeAnswers ==
    ASSUME RouterInv, OwedStrictly, IsRemote, NEW metric \in Metrics, NEW rest,
           held' \in [Controls -> 0..GenMax], epoch' = epoch,
           DegradeWith(session.target, metric, rest)
    PROVE  Leaves(rest) /\ session' = BackendDegradedState
  <1> DEFINE S == LeavingSet(session.target, session')
             E == EmergencyOuts(session.target)
             L == LeavingOuts(session')
             M == <<MetricOut(metric)>>
             e == EmergencyOut(session.target, Frame(relSeq, "ReleaseAll", None, 0), ReleaseToken)
  <1>1. session' = BackendDegradedState /\ outbox' = E \o L \o M \o rest
        /\ PushEmergencyRelease(session.target)
    BY DEF DegradeWith
  <1>2. ~EmergencyExhausted
    BY DEF OwedStrictly, EmergencyExhausted
  <1>3. E \in Seq(S) /\ L \in Seq(S) /\ M \in Seq(S) /\ Has(E, e)
        /\ Has(L, SessionOut(session')) /\ Has(L, SuppressOut(FALSE))
    BY <1>2, LeavingParts
  <1> HIDE DEF S, E, L, M, e
  <1>4. E \o L \in Seq(S) /\ E \o L \o M \in Seq(S)
    BY <1>3
  <1>5. Has(E \o L \o M, e) /\ Has(E \o L \o M, SessionOut(session')) /\ Has(E \o L \o M, SuppressOut(FALSE))
    BY <1>3, <1>4, HasJoin
  <1> DEFINE new == E \o L \o M
  <1>6. outbox' = new \o rest /\ new \in Seq(S) /\ Has(new, e) /\ Has(new, SessionOut(session'))
        /\ Has(new, SuppressOut(FALSE))
    BY <1>1, <1>4, <1>5
  <1> HIDE DEF new
  <1> QED
    BY <1>1, <1>6, LeavingLeaves DEF S, e

LEMMA ReturnAnswers ==
    ASSUME RouterInv, OwedStrictly, NEW rest, NEW moved, ReturnToLocalAfter(moved, rest),
           moved \in Seq(LeavingSet(session.target, session'))
    PROVE  Leaves(rest)
  <1> DEFINE S == LeavingSet(session.target, session')
             E == EmergencyOuts(session.target)
             L == LeavingOuts(session')
             M == IF LedgerFault THEN <<MetricOut("PressedStateLedgerFault")>> ELSE <<>>
             e == EmergencyOut(session.target, Frame(relSeq, "ReleaseAll", None, 0), ReleaseToken)
  <1>1. /\ IsRemote /\ epoch' = epoch /\ held' = held /\ PushEmergencyRelease(session.target)
        /\ session' \in {LocalReady, TargetUnavailable, BackendDegradedState}
        /\ outbox' = moved \o E \o L \o M \o rest
    BY DEF ReturnToLocalAfter
  <1>2. ~EmergencyExhausted
    BY <1>1 DEF OwedStrictly, EmergencyExhausted
  <1>3. E \in Seq(S) /\ L \in Seq(S) /\ M \in Seq(S) /\ Has(E, e)
        /\ Has(L, SessionOut(session')) /\ Has(L, SuppressOut(FALSE)) /\ moved \in Seq(S)
    BY <1>2, LeavingParts DEF Metrics
  <1> HIDE DEF S, E, L, M, e
  <1>4. moved \o E \in Seq(S) /\ moved \o E \o L \in Seq(S) /\ moved \o E \o L \o M \in Seq(S)
    BY <1>3
  <1>5. Has(moved \o E, e)
    BY <1>3, HasJoin
  <1>6. Has(moved \o E \o L, e) /\ Has(moved \o E \o L, SessionOut(session'))
        /\ Has(moved \o E \o L, SuppressOut(FALSE))
    BY <1>3, <1>4, <1>5, HasJoin
  <1> DEFINE before == moved \o E \o L
             new == before \o M
  <1>7. before \in Seq(S) /\ new \in Seq(S) /\ outbox' = new \o rest /\ Has(before, e)
        /\ Has(before, SessionOut(session')) /\ Has(before, SuppressOut(FALSE))
    BY <1>1, <1>4, <1>6
  <1> HIDE DEF before
  <1>8. Has(new, e) /\ Has(new, SessionOut(session')) /\ Has(new, SuppressOut(FALSE))
    BY <1>3, <1>7, HasJoin
  <1>9. held' \in [Controls -> 0..GenMax]
    BY <1>1 DEF RouterInv, RouterTypeOK
  <1> HIDE DEF new
  <1> QED
    BY <1>1, <1>7, <1>8, <1>9, LeavingLeaves DEF S, e


LEMMA EnterAnswers ==
    ASSUME RouterInv, NEW e \in Edges, NEW rest, EnterRemote(e, rest)
    PROVE  Enters(rest)
  <1> DEFINE o == SendReliableOut(routes[e], [Frame(0, "Enter", None, 0) EXCEPT !.epoch = epoch'])
             a == SendRealtimeOut(routes[e], [Frame(0, "Anchor", None, 0) EXCEPT !.epoch = epoch'])
  <1>1. /\ outbox' = <<o, a, SessionOut(session'), SuppressOut(TRUE)>> \o rest
        /\ session = LocalReady /\ pending = None /\ session' = RemoteActive(routes[e], e)
        /\ epoch' = epoch + 1 /\ ~emergMax' /\ UNCHANGED <<held, nextToken, pending>>
    BY DEF EnterRemote, MayEnter, StartCounters, ledgerVars
  <1>2. session'.target = routes[e] /\ IsRemote' /\ ~IsRemote
    BY <1>1 DEF RemoteActive, LocalReady, Idle, IsRemote
  <1>3. /\ o.type = "SendReliable" /\ o.target = routes[e]
        /\ o.frame.epoch = epoch' /\ o.frame.kind = "Enter"
        /\ a.type = "SendRealtime" /\ a.target = routes[e] /\ a.frame.epoch = epoch'
    BY DEF SendReliableOut, SendRealtimeOut, Output, Frame
  <1> HIDE DEF o, a
  <1> QED
    BY <1>1, <1>2, <1>3 DEF Enters

LEMMA EnterExhaustedAnswers ==
    ASSUME RouterInv, NEW e \in Edges, NEW rest, EnterExhausted(e, rest)
    PROVE  Degrades(rest)
  <1> DEFINE a == SessionOut(session')
             b == SuppressOut(FALSE)
             m == MetricOut("CounterExhausted")
             L == <<a, b>>
             M == <<m>>
             new == L \o M
             S == {a, b, m}
  <1>1. /\ outbox' = new \o rest /\ session' = BackendDegradedState /\ session = LocalReady
        /\ UNCHANGED <<epoch, held, nextToken, pending>>
    BY DEF EnterExhausted, LeavingOuts, MayEnter, ledgerVars
  <1>2. \A o \in S : Handback(o, session')
    BY DEF Handback, SessionOut, SuppressOut, MetricOut, Output
  <1>3. a.type = "LocalSessionChanged" /\ b.type = "SuppressLocalShortcuts"
    BY DEF SessionOut, SuppressOut, Output
  <1>4. a \in S /\ b \in S /\ m \in S
    OBVIOUS
  <1> HIDE DEF a, b, m, S
  <1>5. L \in Seq(S) /\ M \in Seq(S)
    BY <1>4, Listed
  <1>6. Has(L, a) /\ Has(L, b)
    BY DEF Has
  <1> HIDE DEF L, M
  <1>7. new \in Seq(S) /\ Has(new, a) /\ Has(new, b)
    BY <1>5, <1>6, HasJoin, Joined
  <1> HIDE DEF new
  <1>8. IsList(new) /\ \A i \in DOMAIN new : Handback(new[i], session')
    BY <1>2, <1>7, ListsAreSequences
  <1>9. Tells(new, "LocalSessionChanged") /\ Tells(new, "SuppressLocalShortcuts")
    BY <1>3, <1>7 DEF Has, Tells
  <1>10. ~IsRemote
    BY <1>1 DEF IsRemote, LocalReady, Idle
  <1> QED
    BY <1>1, <1>8, <1>9, <1>10 DEF Degrades, HandedBack

LEMMA RealtimeAnswers ==
    ASSUME RouterInv, OwedStrictly, NEW kind, NEW rest, SendRealtime(kind, rest)
    PROVE  Stays(rest) \/ Leaves(rest)
  <1>1. CASE rtSeq < SeqMax
    <2> DEFINE o == SendRealtimeOut(session.target, Frame(rtSeq, kind, None, 0))
               new == <<o>>
    <2>1. /\ outbox' = new \o rest /\ IsRemote
          /\ UNCHANGED <<session, epoch, emergMax, held, nextToken, pending>>
      BY <1>1 DEF SendRealtime, ledgerVars
    <2>2. Moving(o)
      BY <2>1 DEF Moving, SendRealtimeOut, Output, Frame
    <2> HIDE DEF o
    <2>3. IsList(new) /\ \A i \in DOMAIN new : Moving(new[i])
      BY <2>2 DEF IsList
    <2> QED
      BY <2>1, <2>3 DEF Stays
  <1>2. CASE ~(rtSeq < SeqMax)
    <2>1. /\ IsRemote /\ epoch' = epoch /\ held' = held
          /\ DegradeWith(session.target, "CounterExhausted", rest)
      BY <1>2 DEF SendRealtime
    <2>2. "CounterExhausted" \in Metrics /\ held' \in [Controls -> 0..GenMax]
      BY <2>1 DEF RouterInv, RouterTypeOK, Metrics
    <2> QED
      BY <2>1, <2>2, DegradeAnswers
  <1> QED
    BY <1>1, <1>2

LEMMA ReliableAnswers ==
    ASSUME RouterInv, OwedStrictly, IsRemote, NEW kind, NEW c, NEW rest,
           held' \in [Controls -> 0..GenMax], UNCHANGED epoch, SendReliable(kind, c, rest),
           \/ kind = "Press" /\ c \in Controls /\ HeldSet' = HeldSet \cup {c}
           \/ kind = "Release" /\ c \in Controls /\ HeldSet' = HeldSet \ {c}
           \/ kind = "Other" /\ HeldSet' = HeldSet
    PROVE  Sends(rest) \/ Leaves(rest)
  <1>1. CASE relSeq < SeqMax
    <2> DEFINE o == SendReliableOut(session.target, Frame(relSeq, kind, c, IF c \in Buttons THEN anchor ELSE 0))
    <2>1. outbox' = <<o>> \o rest /\ UNCHANGED <<session, epoch, emergMax, nextToken, pending>>
      BY <1>1 DEF SendReliable
    <2>2. o.type = "SendReliable" /\ o.target = session.target /\ o.frame.epoch = epoch
          /\ o.frame.kind = kind /\ o.frame.control = c
      BY DEF SendReliableOut, Output, Frame
    <2> HIDE DEF o
    <2> QED
      BY <2>1, <2>2 DEF Sends
  <1>2. CASE ~(relSeq < SeqMax)
    <2>1. DegradeWith(session.target, "CounterExhausted", rest) /\ "CounterExhausted" \in Metrics
      BY <1>2 DEF SendReliable, Metrics
    <2> QED
      BY <2>1, DegradeAnswers
  <1> QED
    BY <1>1, <1>2

LEMMA PressAnswers ==
    ASSUME RouterInv, OwedStrictly, NEW c \in Controls, NEW down \in BOOLEAN, NEW rest,
           PressOrRelease(c, down, rest)
    PROVE  Sends(rest) \/ Leaves(rest)
  <1>1. IsRemote /\ UNCHANGED epoch
    BY DEF PressOrRelease
  <1>2. CASE down /\ held[c] = 0 /\ nextGen = GenMax
    <2>1. held' = held /\ DegradeWith(session.target, "PressedStateLedgerFault", rest)
          /\ "PressedStateLedgerFault" \in Metrics
      BY <1>2 DEF PressOrRelease, Metrics
    <2>2. held' \in [Controls -> 0..GenMax]
      BY <2>1 DEF RouterInv, RouterTypeOK
    <2> QED
      BY <1>1, <2>1, <2>2, DegradeAnswers
  <1>3. CASE ~(down /\ held[c] = 0 /\ nextGen = GenMax)
    <2>1. /\ held' = [held EXCEPT ![c] = IF ~down THEN 0 ELSE IF @ = 0 THEN nextGen ELSE @]
          /\ SendReliable(IF down THEN "Press" ELSE "Release", c, rest)
      BY <1>3 DEF PressOrRelease
    <2>2. held \in [Controls -> 0..GenMax] /\ nextGen \in 1..GenMax /\ GenMax \in Nat
      BY ConstantsAssumption DEF RouterInv, RouterTypeOK
    <2>3. held' \in [Controls -> 0..GenMax]
      BY <2>1, <2>2
    <2>4. CASE down
      <3>1. held'[c] # 0 /\ \A d \in Controls \ {c} : held'[d] = held[d]
        BY <2>1, <2>2, <2>4
      <3>2. HeldSet' = HeldSet \cup {c}
        BY <3>1 DEF HeldSet
      <3> QED
        BY <1>1, <2>1, <2>3, <2>4, <3>2, ReliableAnswers
    <2>5. CASE ~down
      <3>1. held'[c] = 0 /\ \A d \in Controls \ {c} : held'[d] = held[d]
        BY <2>1, <2>2, <2>5
      <3>2. HeldSet' = HeldSet \ {c}
        BY <3>1 DEF HeldSet
      <3> QED
        BY <1>1, <2>1, <2>3, <2>5, <3>2, ReliableAnswers
    <2> QED
      BY <2>4, <2>5
  <1> QED
    BY <1>2, <1>3

LEMMA OtherAnswers ==
    ASSUME RouterInv, OwedStrictly, NEW rest, OtherReliable(rest)
    PROVE  Sends(rest) \/ Leaves(rest)
  <1>1. IsRemote /\ UNCHANGED <<epoch, held>> /\ SendReliable("Other", None, rest)
    BY DEF OtherReliable
  <1>2. held' \in [Controls -> 0..GenMax] /\ HeldSet' = HeldSet
    BY <1>1 DEF RouterInv, RouterTypeOK, HeldSet
  <1> QED
    BY <1>1, <1>2, ReliableAnswers

LEMMA CrossingAnswers ==
    ASSUME RouterInv, OwedStrictly, NEW rest, CrossReturnEdge(rest) \/ ReturnToLocal(rest)
    PROVE  Leaves(rest)
  <1>1. CASE ReturnToLocal(rest)
    <2>1. ReturnToLocalAfter(<<>>, rest) /\ <<>> \in Seq(LeavingSet(session.target, session'))
      BY <1>1 DEF ReturnToLocal
    <2> QED
      BY <2>1, ReturnAnswers
  <1>2. ASSUME ReturnToLocalAfter(
                  <<SendRealtimeOut(session.target, Frame(rtSeq, "Relative", None, 0))>>, rest)
        PROVE  Leaves(rest)
    <2>1. ~EmergencyExhausted
      BY <1>2 DEF ReturnToLocalAfter, OwedStrictly, EmergencyExhausted
    <2>2. <<SendRealtimeOut(session.target, Frame(rtSeq, "Relative", None, 0))>>
             \in Seq(LeavingSet(session.target, session'))
      BY <2>1, LeavingParts
    <2> QED
      BY <1>2, <2>2, ReturnAnswers
  <1> QED
    BY <1>1, <1>2 DEF CrossReturnEdge


LEMMA BackendAnswers ==
    ASSUME RouterInv, OwedStrictly, NEW rest, BackendDegraded(rest)
    PROVE  (Leaves(rest) /\ session' = BackendDegradedState) \/ Degrades(rest)
  <1> DEFINE S == LeavingSet(session.target, session')
             E == EmergencyOuts(session.target)
             L == LeavingOuts(session')
             M == IF LedgerFault THEN <<MetricOut("PressedStateLedgerFault")>> ELSE <<>>
             e == EmergencyOut(session.target, Frame(relSeq, "ReleaseAll", None, 0), ReleaseToken)
  <1>1. session' = BackendDegradedState /\ UNCHANGED <<epoch, held>>
        /\ held' \in [Controls -> 0..GenMax]
    BY DEF BackendDegraded, RouterInv, RouterTypeOK
  <1>2. CASE IsRemote
    <2>1. PushEmergencyRelease(session.target) /\ outbox' = E \o L \o M \o rest
      BY <1>1, <1>2 DEF BackendDegraded
    <2>2. ~EmergencyExhausted
      BY <1>2 DEF OwedStrictly, EmergencyExhausted
    <2>3. E \in Seq(S) /\ L \in Seq(S) /\ M \in Seq(S) /\ Has(E, e)
          /\ Has(L, SessionOut(session')) /\ Has(L, SuppressOut(FALSE))
      BY <2>2, LeavingParts DEF Metrics
    <2> HIDE DEF S, E, L, M, e
    <2> DEFINE before == E \o L
               new == before \o M
    <2>4. before \in Seq(S)
      BY <2>3
    <2>5. Has(before, e) /\ Has(before, SessionOut(session')) /\ Has(before, SuppressOut(FALSE))
      BY <2>3, HasJoin
    <2>6. outbox' = new \o rest
      BY <2>1
    <2> HIDE DEF before
    <2>7. new \in Seq(S)
      BY <2>3, <2>4
    <2>8. Has(new, e) /\ Has(new, SessionOut(session')) /\ Has(new, SuppressOut(FALSE))
      BY <2>3, <2>4, <2>5, HasJoin
    <2> HIDE DEF new
    <2> QED
      BY <1>1, <1>2, <2>1, <2>6, <2>7, <2>8, LeavingLeaves DEF S, e
  <1>3. CASE ~IsRemote
    <2> DEFINE new == <<SessionOut(session'), SuppressOut(FALSE)>>
    <2>1. outbox' = new \o rest /\ UNCHANGED <<nextToken, pending>>
      BY <1>1, <1>3 DEF BackendDegraded, LeavingOuts
    <2>2. IsList(new) /\ DOMAIN new = 1..2 /\ new[1] = SessionOut(session') /\ new[2] = SuppressOut(FALSE)
      BY DEF IsList
    <2> HIDE DEF new
    <2>3. HandedBack(new)
      BY <2>2 DEF HandedBack, Tells, SessionOut, SuppressOut, Output
    <2>4. \A i \in DOMAIN new : Handback(new[i], session')
      BY <2>2 DEF Handback, SessionOut, SuppressOut, Output
    <2> QED
      BY <1>1, <1>3, <2>1, <2>3, <2>4 DEF Degrades
  <1> QED
    BY <1>2, <1>3

LEMMA LosesAnswers ==
    ASSUME RouterInv, OwedStrictly, IsRemote, NEW rest, LoseTarget(session.target),
           UNCHANGED <<held, epoch>>, outbox' = LoseTargetOuts(session.target) \o rest
    PROVE  Leaves(rest)
  <1> DEFINE S == LeavingSet(session.target, session')
             E == EmergencyOuts(session.target)
             L == LeavingOuts(session')
             M == IF LedgerFault THEN <<MetricOut("PressedStateLedgerFault")>> ELSE RebuiltOut
             e == EmergencyOut(session.target, Frame(relSeq, "ReleaseAll", None, 0), ReleaseToken)
  <1>1. session' = TargetUnavailable /\ PushEmergencyRelease(session.target)
    BY DEF LoseTarget
  <1>2. ~EmergencyExhausted /\ held' \in [Controls -> 0..GenMax]
    BY DEF OwedStrictly, EmergencyExhausted, RouterInv, RouterTypeOK
  <1>3. E \in Seq(S) /\ L \in Seq(S) /\ M \in Seq(S) /\ Has(E, e)
        /\ Has(L, SessionOut(session')) /\ Has(L, SuppressOut(FALSE))
    BY <1>2, LeavingParts DEF Metrics
  <1>4. outbox' = E \o L \o M \o rest
    BY <1>1 DEF LoseTargetOuts
  <1> HIDE DEF S, E, L, M, e
  <1> DEFINE before == E \o L
             new == before \o M
  <1>5. before \in Seq(S)
    BY <1>3
  <1>6. Has(before, e) /\ Has(before, SessionOut(session')) /\ Has(before, SuppressOut(FALSE))
    BY <1>3, HasJoin
  <1>7. outbox' = new \o rest
    BY <1>4
  <1> HIDE DEF before
  <1>8. new \in Seq(S)
    BY <1>3, <1>5
  <1>9. Has(new, e) /\ Has(new, SessionOut(session')) /\ Has(new, SuppressOut(FALSE))
    BY <1>3, <1>5, <1>6, HasJoin
  <1> HIDE DEF new
  <1> QED
    BY <1>1, <1>2, <1>7, <1>8, <1>9, LeavingLeaves DEF S, e

LEMMA RebuiltListed == IsList(RebuiltOut) /\ \A i \in DOMAIN RebuiltOut : RebuiltOut[i].type = "Metric"
  <1>1. ASSUME NEW m PROVE IsList(<<MetricOut(m)>>)
                           /\ \A i \in DOMAIN <<MetricOut(m)>> : <<MetricOut(m)>>[i].type = "Metric"
    BY DEF IsList, MetricOut, Output
  <1> QED
    BY <1>1 DEF RebuiltOut

LEMMA RebuiltAnswers ==
    ASSUME NEW rest, outbox' = RebuiltOut \o rest,
           UNCHANGED <<session, epoch, emergMax, held, nextToken, pending>>
    PROVE  Stays(rest)
  BY RebuiltListed DEF Stays

LEMMA LayoutAnswers ==
    ASSUME RouterInv, OwedStrictly, NEW graph \in Layouts, NEW rest, LayoutChanged(graph, rest)
    PROVE  Stays(rest) \/ Leaves(rest)
  <1>1. CASE IsRemote /\ routes'[session.via] # session.target
    BY <1>1, LosesAnswers DEF LayoutChanged
  <1>2. CASE ~(IsRemote /\ routes'[session.via] # session.target)
    BY <1>2, RebuiltAnswers DEF LayoutChanged
  <1> QED
    BY <1>1, <1>2

LEMMA DisconnectedAnswers ==
    ASSUME RouterInv, OwedStrictly, NEW p \in Peers, NEW rest, PeerDisconnected(p, rest)
    PROVE  Stays(rest) \/ Leaves(rest)
  <1>1. CASE IsRemote /\ session.target = p
    BY <1>1, LosesAnswers DEF PeerDisconnected
  <1>2. CASE ~(IsRemote /\ session.target = p)
    BY <1>2, RebuiltAnswers DEF PeerDisconnected
  <1> QED
    BY <1>1, <1>2

LEMMA CommandAnswers ==
    ASSUME RouterInv, OwedStrictly, NEW rest, Command(rest)
    PROVE  Stays(rest) \/ Sends(rest) \/ Enters(rest) \/ Leaves(rest) \/ Degrades(rest)
  BY EnterAnswers, EnterExhaustedAnswers, RealtimeAnswers, PressAnswers, OtherAnswers, CrossingAnswers,
     BackendAnswers, LayoutAnswers
  DEF Command

LEMMA ConnectedAnswers ==
    ASSUME RouterInv, OwedStrictly, NEW p \in Peers, NEW rest, PeerConnected(p, rest)
    PROVE  Stays(rest) \/ Resends(rest) \/ (Completes(rest) /\ held' = held)
  <1>1. UNCHANGED <<held, epoch>>
    BY DEF PeerConnected
  <1>2. CASE suspendedTarget = p /\ pending # None
    <2> DEFINE o == EmergencyOut(p, Frame(relSeq, "ReleaseAll", None, 0), ReleaseToken)
               new == RebuiltOut \o EmergencyOuts(p)
    <2>1. PushEmergencyRelease(p) /\ outbox' = new \o rest /\ session' = session
      BY <1>2 DEF PeerConnected
    <2>2. pending' = pending /\ nextToken' = nextToken
      BY <1>2, <2>1 DEF PushEmergencyRelease, NewBatch
    <2>3. ~IsRemote
      BY <1>2 DEF RouterInv, ActiveOwesNothing
    <2>4. IsList(EmergencyOuts(p)) /\ \A i \in DOMAIN EmergencyOuts(p) :
                 EmergencyOuts(p)[i].type = "Metric" \/ Release(EmergencyOuts(p)[i], p)
      <3>1. Release(o, p) /\ MetricOut("CounterExhausted").type = "Metric"
        BY DEF Release, EmergencyOut, MetricOut, Output, Frame
      <3>2. EmergencyOuts(p) = <<o>> \/ EmergencyOuts(p) = <<MetricOut("CounterExhausted")>>
        BY DEF EmergencyOuts
      <3> HIDE DEF o
      <3> QED
        BY <3>1, <3>2 DEF IsList
    <2>5. IsList(new) /\ \A i \in DOMAIN new : new[i].type = "Metric" \/ Release(new[i], p)
      <3> DEFINE s == RebuiltOut
                 t == EmergencyOuts(p)
      <3>1. /\ IsList(new) /\ \A i \in DOMAIN s : new[i] = s[i]
            /\ Len(s) \in Nat /\ \A i \in DOMAIN t : i + Len(s) \in DOMAIN new /\ new[i + Len(s)] = t[i]
            /\ DOMAIN new = 1..Len(s) + Len(t) /\ Len(t) \in Nat
            /\ \A i \in DOMAIN new : i \in DOMAIN s \/ i - Len(s) \in DOMAIN t
        BY <2>4, RebuiltListed, Joins
      <3>2. /\ \A i \in DOMAIN s : s[i].type = "Metric"
            /\ \A i \in DOMAIN t : t[i].type = "Metric" \/ Release(t[i], p)
        BY <2>4, RebuiltListed
      <3> HIDE DEF s, t, new
      <3>3. ASSUME NEW i \in DOMAIN new, i - Len(s) \in DOMAIN t PROVE new[i] = t[i - Len(s)]
        <4>1. i \in Int /\ (i - Len(s)) + Len(s) = i
          BY <3>1
        <4> QED
          BY <3>1, <3>3, <4>1
      <3> QED
        BY <3>1, <3>2, <3>3
    <2> HIDE DEF new
    <2> QED
      BY <1>1, <1>2, <2>1, <2>2, <2>3, <2>5 DEF Resends
  <1>3. CASE ~(suspendedTarget = p /\ pending # None) /\ suspendedTarget = p /\ session = TargetUnavailable
    <2> DEFINE o == SessionOut(LocalReady)
               new == RebuiltOut \o <<o>>
    <2>1. /\ session' = LocalReady /\ outbox' = new \o rest
          /\ UNCHANGED <<nextToken, pending>>
      BY <1>3 DEF PeerConnected
    <2>2. o.type = "LocalSessionChanged" /\ o.value = session'
      BY <2>1 DEF SessionOut, Output
    <2> HIDE DEF o
    <2>3. IsList(<<o>>) /\ DOMAIN <<o>> = 1..1 /\ <<o>>[1] = o
      BY DEF IsList
    <2>4. IsList(new) /\ \A i \in DOMAIN new : new[i].type = "Metric" \/ new[i] = o
      BY <2>3, RebuiltListed, Joins
    <2>5. Tells(new, "LocalSessionChanged")
      <3>1. 1 + Len(RebuiltOut) \in DOMAIN new /\ new[1 + Len(RebuiltOut)] = o
        BY <2>3, RebuiltListed, Joins
      <3> QED
        BY <2>2, <3>1 DEF Tells
    <2> HIDE DEF new
    <2>6. \A i \in DOMAIN new : Handback(new[i], session') /\ new[i].type # "SuppressLocalShortcuts"
      BY <2>2, <2>4 DEF Handback
    <2>7. ~IsRemote
      BY <1>3 DEF IsRemote, TargetUnavailable, Idle
    <2> QED
      BY <1>1, <1>3, <2>1, <2>4, <2>5, <2>6, <2>7 DEF Completes
  <1>4. CASE ~(suspendedTarget = p /\ pending # None) /\ ~(suspendedTarget = p /\ session = TargetUnavailable)
    BY <1>1, <1>4, RebuiltAnswers DEF PeerConnected
  <1> QED
    BY <1>2, <1>3, <1>4

LEMMA CompletedAnswers ==
    ASSUME RouterInv, ~IsRemote, NEW token, NEW success, NEW rest, IsList(rest),
           ReleaseAllCompleted(token, success, rest)
    PROVE  Completes(rest)
  <1>1. ASSUME NEW t, IsList(t) PROVE <<>> \o t = t
    BY <1>1, ListsAreSequences
  <1>2. IsList(<<>>) /\ DOMAIN <<>> = {}
    BY DEF IsList
  <1>3. CASE ~Confirms(token, success)
    <2>1. outbox' = <<>> \o rest /\ UNCHANGED <<session, epoch, nextToken, held, pending>>
      BY <1>1, <1>3 DEF ReleaseAllCompleted, routerVars, ledgerVars
    <2> QED
      BY <1>2, <2>1 DEF Completes, Tells
  <1>4. CASE Confirms(token, success)
    <2>1. /\ held' = [c \in Controls |-> IF held[c] = pending.held[c] THEN 0 ELSE held[c]]
          /\ pending' = None /\ UNCHANGED <<epoch, nextToken>> /\ pending.held = held
          /\ session' = IF Recovers THEN LocalReady ELSE session
          /\ outbox' = (IF Recovers THEN <<SessionOut(LocalReady)>> ELSE <<>>) \o rest
      BY <1>4 DEF ReleaseAllCompleted, Confirms, RouterInv, PendingCoversHeld
    <2>2. HeldSet' = {}
      BY <2>1 DEF HeldSet
    <2>3. CASE Recovers
      <3> DEFINE o == SessionOut(LocalReady)
                 new == <<o>>
      <3>1. session = TargetUnavailable /\ session' = LocalReady /\ outbox' = new \o rest
        BY <2>1, <2>3 DEF Recovers
      <3>2. o.type = "LocalSessionChanged" /\ o.value = session'
        BY <3>1 DEF SessionOut, Output
      <3> HIDE DEF o
      <3>3. IsList(new) /\ DOMAIN new = 1..1 /\ new[1] = o
        BY DEF IsList
      <3> HIDE DEF new
      <3>4. \A i \in DOMAIN new : Handback(new[i], session') /\ new[i].type # "SuppressLocalShortcuts"
        BY <3>2, <3>3 DEF Handback
      <3>5. Tells(new, "LocalSessionChanged")
        BY <3>2, <3>3 DEF Tells
      <3> QED
        BY <2>1, <2>2, <3>1, <3>3, <3>4, <3>5 DEF Completes
    <2>4. CASE ~Recovers
      BY <1>2, <2>1, <2>2, <2>4 DEF Completes, Tells
    <2> QED
      BY <2>3, <2>4
  <1> QED
    BY <1>3, <1>4

-----------------------------------------------------------------------------
(* What every answer keeps.                                                *)

LEMMA Counted == RouterInv => epoch \in Nat /\ epoch <= EpochMax /\ EpochMax \in Nat \ {0}
  BY ConstantsAssumption DEF RouterInv, RouterTypeOK

LEMMA LeavesLocal ==
    ASSUME session' \in {LocalReady, TargetUnavailable, BackendDegradedState}
    PROVE  ~IsRemote'
  BY DEF IsRemote, LocalReady, TargetUnavailable, BackendDegradedState, Idle

LEMMA CompletesLocal ==
    ASSUME NEW rest, Completes(rest)
    PROVE  ~IsRemote' /\ (session = BackendDegradedState => session' = BackendDegradedState)
  BY DEF Completes, IsRemote, LocalReady, TargetUnavailable, BackendDegradedState, Idle

LEMMA OwedAfter ==
    ASSUME RouterInv, OwedStrictly, NEW rest,
           \/ Stays(rest) \/ Sends(rest) \/ Enters(rest) \/ Leaves(rest) \/ Degrades(rest)
           \/ Resends(rest) \/ Completes(rest)
    PROVE  OwedStrictly'
  <1>1. CASE Stays(rest)
    <2>1. UNCHANGED <<session, epoch, emergMax, held, nextToken, pending>>
      BY <1>1 DEF Stays
    <2> QED
      BY <2>1 DEF OwedStrictly, IsRemote, HeldSet
  <1>2. CASE Sends(rest)
    <2>1. IsRemote /\ UNCHANGED <<session, epoch, emergMax, nextToken, pending>>
      BY <1>2 DEF Sends
    <2> QED
      BY <2>1 DEF OwedStrictly, IsRemote
  <1>3. CASE Enters(rest)
    <2>1. IsRemote' /\ epoch' = epoch + 1 /\ ~emergMax'
      BY <1>3 DEF Enters
    <2> QED
      BY <2>1, Counted DEF OwedStrictly
  <1>4. CASE Leaves(rest)
    <2>1. IsRemote /\ ~IsRemote' /\ epoch' = epoch /\ (pending' # None \/ nextToken' = TokenMax)
      BY <1>4, LeavesLocal DEF Leaves
    <2> QED
      BY <2>1 DEF OwedStrictly
  <1>5. CASE Degrades(rest)
    <2>1. ~IsRemote /\ ~IsRemote' /\ UNCHANGED <<epoch, held, nextToken, pending>>
      BY <1>5, LeavesLocal DEF Degrades
    <2> QED
      BY <2>1 DEF OwedStrictly, HeldSet
  <1>6. CASE Resends(rest)
    <2>1. ~IsRemote /\ UNCHANGED <<session, epoch, held, nextToken, pending>>
      BY <1>6 DEF Resends
    <2> QED
      BY <2>1 DEF OwedStrictly, HeldSet, IsRemote
  <1>7. CASE Completes(rest)
    <2>1. ~IsRemote /\ ~IsRemote' /\ UNCHANGED <<epoch, nextToken>>
          /\ (UNCHANGED <<held, pending>> \/ (pending' = None /\ HeldSet' = {}))
      BY <1>7, CompletesLocal DEF Completes
    <2> QED
      BY <2>1 DEF OwedStrictly, HeldSet
  <1> QED
    BY <1>1, <1>2, <1>3, <1>4, <1>5, <1>6, <1>7

\* An output stays sound as long as no session begins.
LEMMA SoundStays ==
    ASSUME NEW o, Sound(o), epoch' = epoch, IsRemote' => IsRemote,
           session = BackendDegradedState => session' = BackendDegradedState
    PROVE  Sound(o)'
  BY DEF Sound

\* A list that may wait behind an answer.
Waits(rest) ==
    IsList(rest) /\ \A i \in DOMAIN rest : rest[i].type # "SendReliable"

LEMMA OutboxJoined ==
    ASSUME NEW new, NEW rest, IsList(new), Waits(rest), outbox' = new \o rest,
           \A i \in DOMAIN rest : Sound(rest[i])',
           \A i \in DOMAIN new :
              Sound(new[i])' /\ (new[i].type = "SendReliable" => i = 1 /\ SoundReliable(new[i])')
    PROVE  OutboxInv'
  <1> DEFINE u == new \o rest
  <1>1. /\ IsList(u) /\ Len(new) \in Nat /\ DOMAIN u = 1..Len(new) + Len(rest)
        /\ \A i \in DOMAIN new : u[i] = new[i]
        /\ \A i \in DOMAIN rest : i + Len(new) \in DOMAIN u /\ u[i + Len(new)] = rest[i]
        /\ \A i \in DOMAIN u : i \in DOMAIN new \/ i - Len(new) \in DOMAIN rest
        /\ Len(rest) \in Nat
    BY Joins DEF Waits
  <1>2. outbox' = u
    OBVIOUS
  <1> HIDE DEF u
  <1>3. ASSUME NEW i \in DOMAIN u
        PROVE  Sound(u[i])' /\ (u[i].type = "SendReliable" => i = 1 /\ SoundReliable(u[i])')
    <2>1. CASE i \in DOMAIN new
      BY <1>1, <2>1
    <2>2. CASE i - Len(new) \in DOMAIN rest
      <3>1. i \in Int /\ (i - Len(new)) + Len(new) = i
        BY <1>1
      <3>2. u[i] = rest[i - Len(new)]
        BY <1>1, <2>2, <3>1
      <3> QED
        BY <2>2, <3>2 DEF Waits
    <2> QED
      BY <1>1, <2>1, <2>2
  <1> QED
    BY <1>1, <1>2, <1>3 DEF OutboxInv

\* A list with no news of the session or of the shortcuts.
Silent(rest) ==
    \A i \in DOMAIN rest : rest[i].type \notin {"LocalSessionChanged", "SuppressLocalShortcuts"}

LEMMA NothingWaits == Waits(<<>>) /\ Silent(<<>>) /\ \A i \in DOMAIN <<>> : FALSE
  BY DEF Waits, Silent, IsList

LEMMA StaysOutbox ==
    ASSUME RouterInv, OwedStrictly, NEW rest, Stays(rest), Waits(rest), \A i \in DOMAIN rest : Sound(rest[i])
    PROVE  OutboxInv'
  <1>1. PICK new : /\ IsList(new) /\ outbox' = new \o rest
                   /\ \A i \in DOMAIN new : new[i].type = "Metric" \/ Moving(new[i])
    BY DEF Stays
  <1>2. UNCHANGED <<session, epoch>> /\ (IsRemote' <=> IsRemote)
    BY DEF Stays, IsRemote
  <1>3. \A i \in DOMAIN rest : Sound(rest[i])'
    BY <1>2, SoundStays
  <1>4. ASSUME NEW o, o.type = "Metric" \/ Moving(o)
        PROVE  Sound(o)' /\ o.type # "SendReliable"
    <2>1. Moving(o) => session.target \in Peers /\ epoch # 0 /\ IsRemote
      BY DEF Moving, RouterInv, SessionShape, OwedStrictly
    <2>2. CASE o.type = "Metric"
      BY <2>2 DEF Sound, OutputTypes, FrameTypes
    <2>3. CASE Moving(o)
      BY <1>2, <2>1, <2>3 DEF Sound, Moving, OutputTypes, FrameTypes
    <2> QED
      BY <1>4, <2>2, <2>3
  <1> QED
    BY <1>1, <1>3, <1>4, OutboxJoined

\* The parts of an answer that leaves a peer, and of one that gives up.
LEMMA HandbackSound ==
    ASSUME NEW o, session' \in Sessions, Handback(o, session')
    PROVE  Sound(o)' /\ o.type \notin FrameTypes
  BY DEF Handback, Sound, OutputTypes, FrameTypes

LEMMA ReleaseSound ==
    ASSUME NEW o, NEW p \in Peers, ~IsRemote', epoch' = epoch, epoch # 0, Release(o, p)
    PROVE  Sound(o)' /\ o.type # "SendReliable"
  BY DEF Release, Sound, OutputTypes, FrameTypes

LEMMA LeavesOutbox ==
    ASSUME RouterInv, OwedStrictly, RouterInv', NEW rest, Leaves(rest) \/ Degrades(rest), Waits(rest),
           \A i \in DOMAIN rest : Sound(rest[i])'
    PROVE  OutboxInv'
  <1>1. CASE Leaves(rest)
    <2>1. PICK new : /\ IsList(new) /\ outbox' = new \o rest
                     /\ \A i \in DOMAIN new : Handback(new[i], session') \/ Release(new[i], session.target)
      BY <1>1 DEF Leaves, HandedBack
    <2>2. /\ session' \in Sessions /\ session.target \in Peers /\ epoch' = epoch /\ epoch # 0
          /\ ~IsRemote'
      BY <1>1, LeavesLocal DEF Leaves, RouterInv, RouterTypeOK, SessionShape, OwedStrictly
    <2>3. \A i \in DOMAIN new : Sound(new[i])' /\ new[i].type # "SendReliable"
      BY <2>1, <2>2, HandbackSound, ReleaseSound DEF FrameTypes
    <2> QED
      BY <2>1, <2>3, OutboxJoined
  <1>2. CASE Degrades(rest)
    <2>1. PICK new : /\ IsList(new) /\ outbox' = new \o rest
                     /\ \A i \in DOMAIN new : Handback(new[i], session')
      BY <1>2 DEF Degrades, HandedBack
    <2>2. \A i \in DOMAIN new : Sound(new[i])' /\ new[i].type # "SendReliable"
      BY <2>1, HandbackSound DEF FrameTypes, RouterInv, RouterTypeOK
    <2> QED
      BY <2>1, <2>2, OutboxJoined
  <1> QED
    BY <1>1, <1>2

LEMMA ResendsOutbox ==
    ASSUME RouterInv, OwedStrictly, NEW rest, Resends(rest), Waits(rest), \A i \in DOMAIN rest : Sound(rest[i])
    PROVE  OutboxInv'
  <1>1. PICK new : /\ IsList(new) /\ outbox' = new \o rest
                   /\ \A i \in DOMAIN new : new[i].type = "Metric" \/ \E p \in Peers : Release(new[i], p)
    BY DEF Resends
  <1>2. UNCHANGED <<session, epoch>> /\ ~IsRemote /\ ~IsRemote' /\ epoch # 0
    BY DEF Resends, IsRemote, OwedStrictly
  <1>3. \A i \in DOMAIN rest : Sound(rest[i])'
    BY <1>2, SoundStays
  <1>4. \A i \in DOMAIN new : Sound(new[i])' /\ new[i].type # "SendReliable"
    <2>1. ASSUME NEW o, o.type = "Metric" PROVE Sound(o)' /\ o.type # "SendReliable"
      BY <2>1 DEF Sound, OutputTypes, FrameTypes
    <2> QED
      BY <1>1, <1>2, <2>1, ReleaseSound
  <1> QED
    BY <1>1, <1>3, <1>4, OutboxJoined

LEMMA CompletesOutbox ==
    ASSUME RouterInv', NEW rest, Completes(rest), Waits(rest), \A i \in DOMAIN rest : Sound(rest[i])
    PROVE  OutboxInv'
  <1>1. PICK new : /\ IsList(new) /\ outbox' = new \o rest
                   /\ \A i \in DOMAIN new : Handback(new[i], session')
    BY DEF Completes
  <1>2. ~IsRemote' /\ epoch' = epoch /\ (session = BackendDegradedState => session' = BackendDegradedState)
    BY CompletesLocal DEF Completes
  <1>3. \A i \in DOMAIN rest : Sound(rest[i])'
    BY <1>2, SoundStays
  <1>4. \A i \in DOMAIN new : Sound(new[i])' /\ new[i].type # "SendReliable"
    BY <1>1, HandbackSound DEF FrameTypes, RouterInv, RouterTypeOK
  <1> QED
    BY <1>1, <1>3, <1>4, OutboxJoined

LEMMA Single ==
    ASSUME NEW o, NEW s, s = <<o>> \o <<>>
    PROVE  s = <<o>> /\ IsList(s) /\ DOMAIN s = 1..1 /\ s[1] = o /\ Head(s) = o /\ s # <<>>
  BY DEF IsList

LEMMA SendsOutbox ==
    ASSUME RouterInv, OwedStrictly, Sends(<<>>)
    PROVE  OutboxInv'
  <1>1. PICK o :
           /\ outbox' = <<o>> \o <<>>
           /\ o.type = "SendReliable" /\ IsRemote /\ o.target = session.target /\ o.frame.epoch = epoch
           /\ \/ o.frame.kind = "Press" /\ o.frame.control \in Controls
              \/ o.frame.kind = "Release" /\ o.frame.control \in Controls
              \/ o.frame.kind = "Other"
           /\ UNCHANGED <<session, epoch>>
    BY DEF Sends
  <1>2. session.target \in Peers /\ epoch # 0 /\ IsRemote' /\ Controlled(o.target)'
    BY <1>1 DEF RouterInv, SessionShape, OwedStrictly, IsRemote, Controlled
  <1>3. Sound(o)' /\ SoundReliable(o)'
    BY <1>1, <1>2 DEF Sound, SoundReliable, OutputTypes, FrameTypes
  <1> QED
    BY <1>1, <1>3, Single DEF OutboxInv

LEMMA EntersOutbox ==
    ASSUME RouterInv, RouterInv', Enters(<<>>), carriers'[epoch'] = {}, \A p \in Peers : binding'[p] = 0
    PROVE  OutboxInv' /\ Entering'
  <1>1. PICK o, a :
           /\ outbox' = <<o, a, SessionOut(session'), SuppressOut(TRUE)>> \o <<>>
           /\ o.type = "SendReliable" /\ o.target = session'.target
           /\ o.frame.epoch = epoch' /\ o.frame.kind = "Enter"
           /\ a.type = "SendRealtime" /\ a.target = session'.target /\ a.frame.epoch = epoch'
           /\ IsRemote' /\ epoch' = epoch + 1
    BY DEF Enters
  <1>2. epoch' # 0 /\ session'.target \in Peers /\ session' \in Sessions /\ Controlled(o.target)'
    BY <1>1, Counted DEF RouterInv, RouterTypeOK, SessionShape, Controlled
  <1>3. Sound(o)' /\ SoundReliable(o)' /\ Sound(a)'
    BY <1>1, <1>2 DEF Sound, SoundReliable, OutputTypes, FrameTypes
  <1>5. PICK b, c : /\ outbox' = <<o, a, b, c>> \o <<>>
                    /\ b = SessionOut(session') /\ c = SuppressOut(TRUE)
    BY <1>1
  <1>4. Sound(b)' /\ Sound(c)' /\ b.type # "SendReliable" /\ c.type # "SendReliable"
    <2>1. b.type = "LocalSessionChanged" /\ b.value = session'
          /\ c.type = "SuppressLocalShortcuts" /\ c.value = TRUE
      BY <1>5 DEF SessionOut, SuppressOut, Output
    <2> QED
      BY <1>2, <2>1 DEF Sound, OutputTypes, FrameTypes
  <1>6. /\ IsList(outbox') /\ DOMAIN outbox' = 1..4 /\ outbox'[1] = o /\ outbox'[2] = a /\ outbox'[3] = b
        /\ outbox'[4] = c /\ Head(outbox') = o /\ outbox' # <<>>
    BY <1>5 DEF IsList
  <1>7. ASSUME NEW i \in DOMAIN outbox'
        PROVE  Sound(outbox[i])' /\ (outbox'[i].type = "SendReliable" => i = 1 /\ SoundReliable(outbox[i])')
    <2>1. \/ (i = 1 /\ outbox'[i] = o)
          \/ (i = 2 /\ outbox'[i] = a)
          \/ (i = 3 /\ outbox'[i] = b)
          \/ (i = 4 /\ outbox'[i] = c)
      BY <1>6
    <2> QED
      BY <1>1, <1>3, <1>4, <2>1 DEF Sound, SoundReliable
  <1> QED
    BY <1>1, <1>6, <1>7 DEF OutboxInv, Entering, Quiet

-----------------------------------------------------------------------------
(* What an answer means for what is shown.                                 *)

LEMMA SilentSettles ==
    ASSUME NEW rest, Silent(rest), NEW type \in {"LocalSessionChanged", "SuppressLocalShortcuts"},
           NEW now, NEW good, now \in good
    PROVE  Settles(rest, type, now, good)
  BY DEF Silent, Settles

\* Outputs of which none is a frame, and what they settle.
LEMMA HandedSettles ==
    ASSUME NEW new, NEW rest, HandedBack(new), IsList(rest), Silent(rest), NEW p, NEW s,
           \A i \in DOMAIN new : Handback(new[i], s) \/ Release(new[i], p), NEW now, NEW good, s \in good
    PROVE  /\ Settles(new \o rest, "LocalSessionChanged", now, good)
           /\ Settles(new \o rest, "SuppressLocalShortcuts", now, {FALSE})
  <1>1. \A i \in DOMAIN new : /\ new[i].type = "LocalSessionChanged" => new[i].value = s
                              /\ new[i].type = "SuppressLocalShortcuts" => new[i].value = FALSE
    BY DEF Handback, Release
  <1>2. /\ \E i \in DOMAIN new : new[i].type = "LocalSessionChanged"
        /\ \E i \in DOMAIN new : new[i].type = "SuppressLocalShortcuts"
        /\ IsList(new)
    BY DEF HandedBack, Tells
  <1>3. /\ \A i \in DOMAIN rest : rest[i].type # "LocalSessionChanged"
        /\ \A i \in DOMAIN rest : rest[i].type # "SuppressLocalShortcuts"
    BY DEF Silent
  <1>4. Settles(new \o rest, "LocalSessionChanged", now, good)
    BY <1>1, <1>2, <1>3, SettledJoin
  <1>5. Settles(new \o rest, "SuppressLocalShortcuts", now, {FALSE})
    BY <1>1, <1>2, <1>3, SettledJoin
  <1> QED
    BY <1>4, <1>5

\* Between commands what is shown is what the invariant says of it.
LEMMA QuietView ==
    ASSUME IInv, Quiet, session # BackendDegradedState
    PROVE  /\ alive => suppressed = IsRemote /\ published \in Fitting
           /\ projected \subseteq HeldSet
           /\ IsRemote /\ nextToken # TokenMax => projected = HeldSet
  BY DEF IInv, ViewInv, Settles, Quiet, Projecting

\* The projection that a list leaves is the present one unless a reliable
\* frame waits at its head.
LEMMA Unprojected ==
    ASSUME OutboxInv', \A i \in DOMAIN outbox' : outbox'[i].type # "SendReliable"
    PROVE  Projecting' = projected'
  <1>1. CASE outbox' = <<>>
    BY <1>1 DEF Projecting, Quiet
  <1>2. CASE outbox' # <<>>
    <2>1. 1 \in DOMAIN outbox' /\ Head(outbox') = outbox'[1]
      BY <1>2, Tails DEF OutboxInv
    <2> QED
      BY <2>1 DEF Projecting
  <1> QED
    BY <1>1, <1>2

-----------------------------------------------------------------------------
(* The actor's own steps: a command, news of a peer, a fault, the end.     *)

NewsTyped == IsList(news) /\ \A i \in DOMAIN news : news[i] \in [peer : Peers, up : BOOLEAN]

Surroundings == <<actorVars, connVars, carriers>>

LEMMA TypesKept ==
    ASSUME RuntimeTypeOK, RouterInv', OutboxInv', NewsTyped', UNCHANGED Surroundings
    PROVE  RuntimeTypeOK' /\ IsList(news')
  <1>1. RouterTypeOK' /\ \A i \in DOMAIN outbox' : outbox'[i].type \in OutputTypes
    BY DEF RouterInv, OutboxInv, Sound
  <1> QED
    BY <1>1 DEF RuntimeTypeOK, NewsTyped, Surroundings, actorVars, connVars

LEMMA QuietLanes ==
    ASSUME IInv, Quiet
    PROVE  LanesFollowSession
  <1>1. ASSUME NEW p \in Peers PROVE binding[p] # 0 <=> Controlled(p)
    BY DEF IInv, BoundInv, Quiet, ReleaseDue, Entering
  <1>2. ASSUME NEW p \in Peers, NEW g \in Conns, lanes[p][g].active # 0
        PROVE  Controlled(p) /\ g = binding[p] /\ lanes[p][g].active = epoch
    <2>1. lanes[p][g].active = epoch /\ binding[p] = g /\ g # 0
      <3>1. LaneInv /\ g \in 1..ConnMax
        BY DEF IInv, Conns
      <3>2. lanes[p][g].active = epoch /\ binding[p] = g
        BY <1>2, <3>1 DEF LaneInv
      <3> QED
        BY <3>1, <3>2, ConnMaxAssumption
    <2> QED
      BY <1>1, <2>1
  <1> QED
    BY <1>1, <1>2 DEF LanesFollowSession

\* The parts that speak of the connections, when no session begins.
LEMMA BoundKept ==
    ASSUME IInv, Quiet, UNCHANGED <<epoch, Surroundings>>,
           \A p \in Peers : Controlled(p) => Controlled(p)' \/ ReleaseDue(p)',
           \A p \in Peers : Controlled(p)' => Controlled(p)
    PROVE  BoundInv' /\ LaneInv' /\ CarrierInv' /\ OneCarrierPerEpoch'
  <1>1. UNCHANGED <<binding, lanes, carriers, epoch>>
    BY DEF Surroundings, actorVars, connVars
  <1>2. LanesFollowSession
    BY QuietLanes
  <1>3. BoundInv'
    BY <1>1, <1>2 DEF IInv, BoundInv, LanesFollowSession
  <1>4. LaneInv' /\ CarrierInv' /\ OneCarrierPerEpoch'
    BY <1>1 DEF IInv, LaneInv, CarrierInv, OneCarrierPerEpoch
  <1> QED
    BY <1>3, <1>4

LEMMA StaysServed ==
    ASSUME IInv, RouterInv', Quiet, UNCHANGED Surroundings, NewsTyped', Stays(<<>>)
    PROVE  IInv'
  <1>1. OutboxInv' /\ OwedStrictly'
    BY NothingWaits, StaysOutbox, OwedAfter DEF IInv
  <1>2. UNCHANGED <<session, epoch, held, nextToken>> /\ (IsRemote' <=> IsRemote)
    BY DEF Stays, IsRemote
  <1>3. BoundInv' /\ LaneInv' /\ CarrierInv' /\ OneCarrierPerEpoch'
    BY <1>2, BoundKept DEF Controlled
  <1>4. \A i \in DOMAIN outbox' : outbox'[i].type \in {"Metric", "SendRealtime"}
    <2>1. PICK new : /\ IsList(new) /\ outbox' = new \o <<>>
                     /\ \A i \in DOMAIN new : new[i].type = "Metric" \/ Moving(new[i])
      BY DEF Stays
    <2>2. outbox' = new
      BY <2>1, ListsAreSequences
    <2> QED
      BY <2>1, <2>2 DEF Moving
  <1>5. ViewInv'
    <2>1. Projecting' = projected'
      <3>1. \A i \in DOMAIN outbox' : outbox'[i].type # "SendReliable"
        BY <1>4
      <3> QED
        BY <1>1, <3>1, Unprojected
    <2>2. Silent(outbox')
      BY <1>4 DEF Silent
    <2>3. HeldSet' = HeldSet /\ Fitting' = Fitting
      BY <1>2 DEF HeldSet, Fitting
    <2>4. UNCHANGED <<alive, suppressed, published, projected>>
      BY DEF Surroundings, actorVars
    <2>5. ASSUME session' # BackendDegradedState, alive'
          PROVE  /\ Settles(outbox', "SuppressLocalShortcuts", suppressed', {IsRemote'})
                 /\ Settles(outbox', "LocalSessionChanged", published', Fitting')
      <3>1. suppressed' \in {IsRemote'} /\ published' \in Fitting'
        BY <1>2, <2>3, <2>4, <2>5, QuietView
      <3> QED
        BY <2>2, <3>1, SilentSettles
    <2>6. ASSUME session' # BackendDegradedState
          PROVE  /\ Projecting' \subseteq HeldSet'
                 /\ IsRemote' /\ nextToken' # TokenMax => Projecting' = HeldSet'
      BY <1>2, <2>1, <2>3, <2>4, <2>6, QuietView
    <2> QED
      BY <2>5, <2>6 DEF ViewInv
  <1> QED
    BY <1>1, <1>3, <1>5, TypesKept DEF IInv

LEMMA SendsServed ==
    ASSUME IInv, RouterInv', Quiet, UNCHANGED Surroundings, NewsTyped', Sends(<<>>)
    PROVE  IInv'
  <1>1. OutboxInv' /\ OwedStrictly'
    BY SendsOutbox, OwedAfter DEF IInv
  <1>2. PICK o :
           /\ outbox' = <<o>> \o <<>> /\ o.type = "SendReliable" /\ IsRemote
           /\ \/ o.frame.kind = "Press" /\ o.frame.control \in Controls
                 /\ HeldSet' = HeldSet \cup {o.frame.control}
              \/ o.frame.kind = "Release" /\ o.frame.control \in Controls
                 /\ HeldSet' = HeldSet \ {o.frame.control}
              \/ o.frame.kind = "Other" /\ HeldSet' = HeldSet
           /\ UNCHANGED <<session, epoch, nextToken>>
    BY DEF Sends
  <1>3. BoundInv' /\ LaneInv' /\ CarrierInv' /\ OneCarrierPerEpoch'
    BY <1>2, BoundKept DEF Controlled, IsRemote
  <1>4. ViewInv'
    <2>1. IsList(outbox') /\ DOMAIN outbox' = 1..1 /\ outbox'[1] = o /\ Head(outbox') = o /\ outbox' # <<>>
      BY <1>2, Single
    <2>2. Silent(outbox')
      BY <1>2, <2>1 DEF Silent
    <2>3. UNCHANGED <<alive, suppressed, published, projected>>
      BY DEF Surroundings, actorVars
    <2>4. Fitting' = Fitting /\ (IsRemote' <=> IsRemote)
      BY <1>2 DEF Fitting, IsRemote
    <2>5. Projecting' = Project(o.frame)
      BY <1>2, <2>1, <2>3 DEF Projecting, Project, Quiet
    <2>6. ASSUME session' # BackendDegradedState, alive'
          PROVE  /\ Settles(outbox', "SuppressLocalShortcuts", suppressed', {IsRemote'})
                 /\ Settles(outbox', "LocalSessionChanged", published', Fitting')
      <3>1. suppressed' \in {IsRemote'} /\ published' \in Fitting'
        BY <1>2, <2>3, <2>4, <2>6, QuietView
      <3> QED
        BY <2>2, <3>1, SilentSettles
    <2>7. ASSUME session' # BackendDegradedState
          PROVE  /\ Projecting' \subseteq HeldSet'
                 /\ IsRemote' /\ nextToken' # TokenMax => Projecting' = HeldSet'
      <3>1. projected \subseteq HeldSet /\ (nextToken # TokenMax => projected = HeldSet)
        BY <1>2, <2>7, QuietView
      <3>2. \/ HeldSet' = HeldSet \cup {o.frame.control} /\ Project(o.frame) = projected \cup {o.frame.control}
            \/ HeldSet' = HeldSet \ {o.frame.control} /\ Project(o.frame) = projected \ {o.frame.control}
            \/ HeldSet' = HeldSet /\ Project(o.frame) = projected
        BY <1>2 DEF Project
      <3> QED
        BY <1>2, <2>5, <3>1, <3>2
    <2> QED
      BY <2>6, <2>7 DEF ViewInv
  <1> QED
    BY <1>1, <1>3, <1>4, TypesKept DEF IInv


LEMMA EntersServed ==
    ASSUME IInv, RouterInv', Quiet, UNCHANGED Surroundings, NewsTyped', Enters(<<>>)
    PROVE  IInv'
  <1>1. PICK o, a :
           /\ outbox' = <<o, a, SessionOut(session'), SuppressOut(TRUE)>> \o <<>>
           /\ o.type = "SendReliable" /\ o.frame.kind = "Enter" /\ a.type = "SendRealtime"
           /\ ~IsRemote /\ IsRemote' /\ pending = None /\ session = LocalReady
           /\ epoch' = epoch + 1 /\ UNCHANGED <<held, nextToken, pending>>
    BY DEF Enters
  <1>2. UNCHANGED <<binding, lanes, carriers, alive, suppressed, published, projected>>
    BY DEF Surroundings, actorVars, connVars
  <1>3. /\ \A p \in Peers : binding[p] = 0
        /\ \A p \in Peers, g \in Conns : lanes[p][g].active = 0
    BY <1>1, QuietLanes DEF LanesFollowSession, Controlled
  <1>4. epoch \in Nat /\ epoch' \in 1..EpochMax /\ EpochMax \in Nat
    BY <1>1, Counted, ConstantsAssumption DEF IInv, RouterInv, RouterTypeOK
  <1>5. carriers'[epoch'] = {}
    BY <1>1, <1>2, <1>4 DEF IInv, CarrierInv
  <1>6. OutboxInv' /\ Entering' /\ OwedStrictly'
    <2>1. OutboxInv' /\ Entering'
      BY <1>2, <1>3, <1>5, EntersOutbox DEF IInv
    <2> QED
      BY <2>1, OwedAfter DEF IInv
  <1>7. BoundInv' /\ LaneInv' /\ CarrierInv' /\ OneCarrierPerEpoch'
    <2>1. BoundInv' /\ LaneInv'
      BY <1>2, <1>3, <1>6 DEF BoundInv, LaneInv
    <2>2. CarrierInv'
      BY <1>1, <1>2, <1>3, <1>4 DEF IInv, CarrierInv
    <2> QED
      BY <1>2, <2>1, <2>2 DEF IInv, OneCarrierPerEpoch
  <1>8. ViewInv'
    <2>1. PICK b, c : /\ outbox' = <<o, a, b, c>> \o <<>>
                      /\ b = SessionOut(session') /\ c = SuppressOut(TRUE)
      BY <1>1
    <2>2. /\ DOMAIN outbox' = 1..4 /\ outbox'[1] = o /\ outbox'[2] = a /\ outbox'[3] = b
          /\ outbox'[4] = c /\ Head(outbox') = o /\ outbox' # <<>>
      BY <2>1
    <2>3. /\ b.type = "LocalSessionChanged" /\ b.value = session'
          /\ c.type = "SuppressLocalShortcuts" /\ c.value = TRUE
      BY <2>1 DEF SessionOut, SuppressOut, Output
    <2>4. session' \in Fitting' /\ session' # BackendDegradedState
      BY <1>1, SMTT(60), ZenonT(60) DEF RouterInv, RouterTypeOK, Fitting, IsRemote, BackendDegradedState, Idle
    <2> DEFINE u == outbox'
    <2>10. \A i \in DOMAIN u : u[i] = o \/ u[i] = a \/ u[i] = b \/ u[i] = c
      <3>1. \A i \in 1..4 : i = 1 \/ i = 2 \/ i = 3 \/ i = 4
        OBVIOUS
      <3> QED
        BY <2>2, <3>1
    <2>5. Settles(u, "SuppressLocalShortcuts", suppressed', {IsRemote'})
      <3>1. IsRemote' = TRUE
        BY <1>1 DEF IsRemote
      <3>2. \A i \in DOMAIN u : u[i].type = "SuppressLocalShortcuts" => u[i].value = TRUE
        BY <1>1, <2>3, <2>10
      <3>3. 4 \in DOMAIN u /\ u[4].type = "SuppressLocalShortcuts"
        BY <2>2, <2>3
      <3> HIDE DEF u
      <3> QED
        BY <3>1, <3>2, <3>3 DEF Settles
    <2>6. Settles(u, "LocalSessionChanged", published', Fitting')
      <3>1. \A i \in DOMAIN u : u[i].type = "LocalSessionChanged" => u[i].value \in Fitting'
        BY <1>1, <2>3, <2>4, <2>10
      <3>2. 3 \in DOMAIN u /\ u[3].type = "LocalSessionChanged"
        BY <2>2, <2>3
      <3> HIDE DEF u
      <3> QED
        BY <3>1, <3>2 DEF Settles
    <2>7. Projecting' = projected
      BY <1>1, <1>2, <2>2 DEF Projecting, Project, Quiet
    <2>8. HeldSet' = HeldSet /\ projected \subseteq HeldSet
      BY <1>1, QuietView DEF HeldSet, LocalReady, BackendDegradedState, Idle
    <2>9. nextToken' # TokenMax => HeldSet = {}
      BY <1>1 DEF IInv, OwedStrictly
    <2> QED
      BY <2>4, <2>5, <2>6, <2>7, <2>8, <2>9 DEF ViewInv
  <1> QED
    BY <1>6, <1>7, <1>8, TypesKept DEF IInv

\* Without a session no reliable frame waits.
LEMMA LocalOutbox ==
    ASSUME OutboxInv', ~IsRemote'
    PROVE  Projecting' = projected'
  BY Unprojected DEF OutboxInv, SoundReliable, Controlled

\* A peer that is left has its release waiting.
LEMMA LeavesDue ==
    ASSUME NEW rest, IsList(rest), Leaves(rest)
    PROVE  \A p \in Peers : Controlled(p) => ReleaseDue(p)'
  <1>1. PICK new : /\ IsList(new) /\ outbox' = new \o rest
                   /\ Tells(new, "EmergencyReleaseAll")
                   /\ \A i \in DOMAIN new : Handback(new[i], session') \/ Release(new[i], session.target)
    BY DEF Leaves, HandedBack
  <1>2. PICK i \in DOMAIN new : new[i].type = "EmergencyReleaseAll"
    BY <1>1 DEF Tells
  <1>3. new[i].target = session.target
    BY <1>1, <1>2 DEF Handback, Release
  <1>4. i \in DOMAIN outbox' /\ outbox'[i] = new[i]
    BY <1>1, Joins
  <1>5. ASSUME NEW p, p = session.target PROVE ReleaseDue(p)'
    BY <1>2, <1>3, <1>4, <1>5 DEF ReleaseDue
  <1> QED
    BY <1>5 DEF Controlled

LEMMA LeavesSettle ==
    ASSUME NEW rest, IsList(rest), Silent(rest), Leaves(rest), RouterInv'
    PROVE  /\ Settles(outbox', "SuppressLocalShortcuts", suppressed', {IsRemote'})
           /\ Settles(outbox', "LocalSessionChanged", published', Fitting')
  <1>1. PICK new : /\ HandedBack(new) /\ outbox' = new \o rest
                   /\ \A i \in DOMAIN new : Handback(new[i], session') \/ Release(new[i], session.target)
    BY DEF Leaves
  <1>2. session' \in Fitting' /\ IsRemote' = FALSE
    BY LeavesLocal DEF Leaves, Fitting, RouterInv, RouterTypeOK, IsRemote
  <1>3. /\ Settles(new \o rest, "LocalSessionChanged", published', Fitting')
        /\ Settles(new \o rest, "SuppressLocalShortcuts", suppressed', {FALSE})
    BY <1>1, <1>2, HandedSettles
  <1> QED
    BY <1>1, <1>2, <1>3


\* A list that has waited for an answer, and how it fits to it.
Behind(rest) ==
    Waits(rest) /\ Silent(rest) /\ \A i \in DOMAIN rest : Sound(rest[i])'

LEMMA LeavesServed ==
    ASSUME IInv, RouterInv', Quiet, UNCHANGED Surroundings, NewsTyped', NEW rest, Behind(rest), Leaves(rest)
    PROVE  IInv'
  <1>1. OutboxInv' /\ OwedStrictly'
    BY LeavesOutbox, OwedAfter DEF IInv, Behind
  <1>2. ~IsRemote' /\ epoch' = epoch /\ (session' # BackendDegradedState => held' = held)
    BY LeavesLocal DEF Leaves
  <1>3. BoundInv' /\ LaneInv' /\ CarrierInv' /\ OneCarrierPerEpoch'
    <2>1. \A p \in Peers : Controlled(p) => ReleaseDue(p)'
      BY LeavesDue DEF Behind, Waits
    <2>2. \A p \in Peers : ~Controlled(p)'
      BY <1>2 DEF Controlled
    <2> QED
      BY <1>2, <2>1, <2>2, BoundKept
  <1>4. ViewInv'
    <2>1. Projecting' = projected' /\ projected' = projected
      BY <1>1, <1>2, LocalOutbox DEF Surroundings, actorVars
    <2>2. ASSUME session' # BackendDegradedState PROVE Projecting' \subseteq HeldSet'
      <3>1. session # BackendDegradedState
        BY DEF Leaves, IsRemote, BackendDegradedState, Idle
      <3> QED
        BY <1>2, <2>1, <2>2, <3>1, QuietView DEF HeldSet
    <2> QED
      BY <1>2, <2>2, LeavesSettle DEF ViewInv, Behind, Waits
  <1> QED
    BY <1>1, <1>3, <1>4, TypesKept DEF IInv

LEMMA DegradesServed ==
    ASSUME IInv, RouterInv', Quiet, UNCHANGED Surroundings, NewsTyped', NEW rest, Behind(rest), Degrades(rest)
    PROVE  IInv'
  <1>1. OutboxInv' /\ OwedStrictly'
    BY LeavesOutbox, OwedAfter DEF IInv, Behind
  <1>2. session' = BackendDegradedState /\ epoch' = epoch /\ ~IsRemote
    BY DEF Degrades
  <1>3. BoundInv' /\ LaneInv' /\ CarrierInv' /\ OneCarrierPerEpoch'
    BY <1>2, LeavesLocal, BoundKept DEF Controlled
  <1>4. ViewInv'
    BY <1>2 DEF ViewInv
  <1> QED
    BY <1>1, <1>3, <1>4, TypesKept DEF IInv

LEMMA ResendsServed ==
    ASSUME IInv, RouterInv', Quiet, UNCHANGED Surroundings, NewsTyped', Resends(<<>>)
    PROVE  IInv'
  <1>1. OutboxInv' /\ OwedStrictly'
    BY NothingWaits, ResendsOutbox, OwedAfter DEF IInv
  <1>2. UNCHANGED <<session, epoch, held, nextToken>> /\ ~IsRemote /\ IsRemote' = FALSE /\ IsRemote = FALSE
    BY DEF Resends, IsRemote
  <1>3. BoundInv' /\ LaneInv' /\ CarrierInv' /\ OneCarrierPerEpoch'
    BY <1>2, BoundKept DEF Controlled
  <1>4. ViewInv'
    <2>1. Projecting' = projected' /\ UNCHANGED <<alive, suppressed, published, projected>>
      BY <1>1, <1>2, LocalOutbox DEF Surroundings, actorVars
    <2>2. HeldSet' = HeldSet /\ Fitting' = Fitting
      BY <1>2 DEF HeldSet, Fitting
    <2>3. Silent(outbox')
      <3>1. PICK new : /\ IsList(new) /\ outbox' = new \o <<>>
                       /\ \A i \in DOMAIN new : new[i].type = "Metric" \/ \E p \in Peers : Release(new[i], p)
        BY DEF Resends
      <3>2. outbox' = new
        BY <3>1, ListsAreSequences
      <3> QED
        BY <3>1, <3>2 DEF Silent, Release
    <2>4. ASSUME session' # BackendDegradedState, alive'
          PROVE  /\ Settles(outbox', "SuppressLocalShortcuts", suppressed', {IsRemote'})
                 /\ Settles(outbox', "LocalSessionChanged", published', Fitting')
      <3>1. suppressed' \in {IsRemote'} /\ published' \in Fitting'
        BY <1>2, <2>1, <2>2, <2>4, QuietView
      <3> QED
        BY <2>3, <3>1, SilentSettles
    <2>5. session' # BackendDegradedState => Projecting' \subseteq HeldSet'
      BY <1>2, <2>1, <2>2, QuietView
    <2> QED
      BY <1>2, <2>4, <2>5 DEF ViewInv
  <1> QED
    BY <1>1, <1>3, <1>4, TypesKept DEF IInv
LEMMA CompletesServed ==
    ASSUME IInv, RouterInv', Quiet, UNCHANGED Surroundings, NewsTyped', Completes(<<>>), held' = held
    PROVE  IInv'
  <1>1. OutboxInv' /\ OwedStrictly'
    BY NothingWaits, CompletesOutbox, OwedAfter DEF IInv
  <1>2. epoch' = epoch /\ IsRemote' = FALSE /\ IsRemote = FALSE
    BY CompletesLocal DEF Completes, IsRemote
  <1>3. BoundInv' /\ LaneInv' /\ CarrierInv' /\ OneCarrierPerEpoch'
    BY <1>2, BoundKept DEF Controlled
  <1>4. ViewInv'
    <2>1. Projecting' = projected' /\ UNCHANGED <<alive, suppressed, published, projected>>
      BY <1>1, <1>2, LocalOutbox DEF Surroundings, actorVars
    <2>2. HeldSet' = HeldSet /\ session' \in Fitting' /\ TargetUnavailable \in Sessions
      BY <1>2, SessionsTyped DEF HeldSet, Fitting, RouterInv, RouterTypeOK
    <2>3. PICK new : /\ IsList(new) /\ outbox' = new \o <<>>
                     /\ \A i \in DOMAIN new : Handback(new[i], session') /\ new[i].type # "SuppressLocalShortcuts"
                     /\ \/ session' = session /\ ~Tells(new, "LocalSessionChanged")
                        \/ session = TargetUnavailable /\ session' = LocalReady
                           /\ Tells(new, "LocalSessionChanged")
      BY DEF Completes
    <2>4. outbox' = new
      BY <2>3, ListsAreSequences
    <2>5. \A i \in DOMAIN new : new[i].type = "LocalSessionChanged" => new[i].value = session'
      BY <2>3 DEF Handback
    <2>6. ASSUME session' # BackendDegradedState, alive'
          PROVE  /\ Settles(outbox', "SuppressLocalShortcuts", suppressed', {IsRemote'})
                 /\ Settles(outbox', "LocalSessionChanged", published', Fitting')
      <3>1. session # BackendDegradedState
        BY <2>3, <2>6 DEF BackendDegradedState, TargetUnavailable, Idle
      <3>2. suppressed' \in {IsRemote'} /\ published \in Fitting
        BY <1>2, <2>1, <2>6, <3>1, QuietView
      <3>3. session' = session => published' \in Fitting'
        BY <1>2, <2>1, <3>2 DEF Fitting
      <3>4. Settles(new, "SuppressLocalShortcuts", suppressed', {IsRemote'})
        BY <2>3, <3>2 DEF Settles
      <3>5. Settles(new, "LocalSessionChanged", published', Fitting')
        BY <2>2, <2>3, <2>5, <3>3 DEF Settles, Tells
      <3> QED
        BY <2>4, <3>4, <3>5
    <2>7. session' # BackendDegradedState => Projecting' \subseteq HeldSet'
      <3>1. session' # BackendDegradedState => session # BackendDegradedState
        BY <2>3 DEF BackendDegradedState, TargetUnavailable, Idle
      <3> QED
        BY <2>1, <2>2, <3>1, QuietView
    <2> QED
      BY <1>2, <2>6, <2>7 DEF ViewInv
  <1> QED
    BY <1>1, <1>3, <1>4, TypesKept DEF IInv

LEMMA HandleCommandKeeps == ASSUME IInv, HandleCommand PROVE IInv'
  <1>1. Quiet /\ Command(<<>>) /\ UNCHANGED Surroundings /\ news' = news
    BY DEF HandleCommand, Surroundings, netVars
  <1>2. RouterInv' /\ NewsTyped'
    BY <1>1, CommandInv DEF IInv, NewsTyped, RuntimeTypeOK
  <1>3. Stays(<<>>) \/ Sends(<<>>) \/ Enters(<<>>) \/ Leaves(<<>>) \/ Degrades(<<>>)
    BY <1>1, CommandAnswers DEF IInv
  <1>4. Behind(<<>>)
    BY NothingWaits DEF Behind
  <1> QED
    BY <1>1, <1>2, <1>3, <1>4, StaysServed, SendsServed, EntersServed, LeavesServed, DegradesServed

LEMMA HandleConnectivityKeeps == ASSUME IInv, HandleConnectivity PROVE IInv'
  <1> DEFINE n == Head(news)
  <1>1. Quiet /\ UNCHANGED Surroundings /\ news # <<>> /\ news' = Tail(news)
    BY DEF HandleConnectivity, Surroundings, connVars
  <1>2. n \in [peer : Peers, up : BOOLEAN] /\ NewsTyped'
    BY <1>1, Tails DEF IInv, RuntimeTypeOK, NewsTyped
  <1>3. Behind(<<>>)
    BY NothingWaits DEF Behind
  <1> HIDE DEF n
  <1>4. \/ UNCHANGED vars
        \/ n.up /\ PeerConnected(n.peer, <<>>)
        \/ ~n.up /\ PeerDisconnected(n.peer, <<>>)
    BY DEF HandleConnectivity, n
  <1>5. CASE UNCHANGED vars
    <2>1. /\ UNCHANGED <<session, epoch, held, pending, nextToken, emergMax, outbox, alive, binding,
                         currentEpoch, projected, published, suppressed, made, registry, lanes,
                         announced, known, carriers>>
      BY <1>1, <1>5 DEF vars, routerVars, countVars, ledgerVars, Surroundings, actorVars, connVars
    <2>2. RouterInv'
      BY <1>5, RouterInvStep DEF IInv
    <2>3. OwedStrictly' /\ OutboxInv' /\ BoundInv' /\ LaneInv' /\ CarrierInv' /\ OneCarrierPerEpoch'
      BY <2>1 DEF IInv, OwedStrictly, OutboxInv, BoundInv, LaneInv, CarrierInv, OneCarrierPerEpoch,
         IsRemote, HeldSet, Sound, SoundReliable, Controlled, ReleaseDue, Entering, Quiet
    <2>4. ViewInv'
      BY <2>1 DEF IInv, ViewInv, Projecting, Project, Fitting, IsRemote, HeldSet, Quiet
    <2> QED
      BY <1>1, <1>2, <2>2, <2>3, <2>4, TypesKept DEF IInv
  <1>6. CASE PeerConnected(n.peer, <<>>)
    <2>1. RouterInv' /\ (Stays(<<>>) \/ Resends(<<>>) \/ (Completes(<<>>) /\ held' = held))
      BY <1>2, <1>6, PeerConnectedInv, ConnectedAnswers DEF IInv
    <2> QED
      BY <1>1, <1>2, <2>1, StaysServed, ResendsServed, CompletesServed
  <1>7. CASE PeerDisconnected(n.peer, <<>>)
    <2>1. RouterInv' /\ (Stays(<<>>) \/ Leaves(<<>>))
      BY <1>2, <1>7, PeerDisconnectedInv, DisconnectedAnswers DEF IInv
    <2> QED
      BY <1>1, <1>2, <1>3, <2>1, StaysServed, LeavesServed
  <1> QED
    BY <1>4, <1>5, <1>6, <1>7

\* An output of the actor's own that waits behind an answer.
LEMMA OwnOutput ==
    ASSUME NEW o, o = FaultOut \/ o = StopOut, o = FaultOut => session' = BackendDegradedState
    PROVE  Behind(<<o>>) /\ Sound(o)'
  <1>1. o.type \in {"AdvanceFaultEpoch", "Stop"} /\ (o.type = "AdvanceFaultEpoch" => o = FaultOut)
    BY DEF FaultOut, StopOut, Output
  <1>2. Sound(o)'
    BY <1>1 DEF Sound, OutputTypes, FrameTypes
  <1>3. IsList(<<o>>) /\ \A i \in DOMAIN <<o>> : <<o>>[i] = o
    BY DEF IsList
  <1> DEFINE s == <<o>>
  <1>4. IsList(s) /\ \A i \in DOMAIN s : s[i] = o
    BY <1>3
  <1> HIDE DEF s
  <1>5. Behind(s)
    BY <1>1, <1>2, <1>4 DEF Behind, Waits, Silent
  <1> QED
    BY <1>2, <1>5 DEF s

LEMMA IngressFaultKeeps == ASSUME IInv, IngressFault PROVE IInv'
  <1>1. Quiet /\ UNCHANGED Surroundings /\ news' = news /\ session' = BackendDegradedState
        /\ BackendDegraded(<<FaultOut>>)
    BY DEF IngressFault, BackendDegraded, Surroundings, netVars
  <1>2. RouterInv' /\ NewsTyped'
    BY <1>1, BackendDegradedInv DEF IInv, NewsTyped, RuntimeTypeOK
  <1>3. Behind(<<FaultOut>>)
    BY <1>1, OwnOutput
  <1> QED
    BY <1>1, <1>2, <1>3, BackendAnswers, LeavesServed, DegradesServed DEF IInv

LEMMA ChannelsClosedKeeps == ASSUME IInv, ChannelsClosed PROVE IInv'
  <1>1. Quiet /\ UNCHANGED Surroundings /\ news' = news
    BY DEF ChannelsClosed, Surroundings, netVars
  <1>2. NewsTyped'
    BY <1>1 DEF IInv, NewsTyped, RuntimeTypeOK
  <1>3. StopOut # FaultOut
    BY DEF StopOut, FaultOut, Output
  <1>4. CASE IsRemote
    <2>1. ReturnToLocal(<<StopOut>>)
      BY <1>4 DEF ChannelsClosed
    <2>2. RouterInv' /\ Leaves(<<StopOut>>) /\ Behind(<<StopOut>>)
      BY <1>3, <2>1, ReturnToLocalInv, CrossingAnswers, OwnOutput DEF IInv
    <2> QED
      BY <1>1, <1>2, <2>2, LeavesServed
  <1>5. CASE ~IsRemote
    <2>1. outbox' = <<StopOut>> /\ UNCHANGED routerVars
      BY <1>5 DEF ChannelsClosed
    <2>2. UNCHANGED <<session, epoch, held, pending, nextToken, emergMax>>
      BY <2>1 DEF routerVars, countVars, ledgerVars
    <2>3. RouterInv'
      BY <2>1
      DEF IInv, RouterInv, RouterTypeOK, SessionShape, SuspensionShape, ActiveOwesNothing,
          PendingCoversHeld, IsRemote, routerVars, routeVars, countVars, ledgerVars
    <2>4. OwedStrictly'
      BY <2>2 DEF IInv, OwedStrictly, IsRemote, HeldSet
    <2>5. Sound(StopOut)' /\ StopOut.type = "Stop"
      BY <1>3, OwnOutput DEF StopOut, Output
    <2>6. IsList(outbox') /\ \A i \in DOMAIN outbox' : outbox'[i] = StopOut
      BY <2>1 DEF IsList
    <2>7. OutboxInv'
      <3>1. ASSUME NEW o, o = StopOut PROVE Sound(o)'
        BY <2>5, <3>1
      <3>2. ASSUME NEW i \in DOMAIN outbox' PROVE Sound(outbox[i])' /\ outbox'[i].type # "SendReliable"
        BY <2>5, <2>6, <3>1, <3>2
      <3> QED
        BY <2>6, <3>2 DEF OutboxInv
    <2>8. BoundInv' /\ LaneInv' /\ CarrierInv' /\ OneCarrierPerEpoch'
      BY <1>1, <2>2, BoundKept DEF Controlled, IsRemote
    <2>9. IsRemote' = FALSE /\ IsRemote = FALSE
      BY <1>5, <2>2 DEF IsRemote
    <2>10. ViewInv'
      <3>1. Projecting' = projected' /\ UNCHANGED <<alive, suppressed, published, projected>>
        BY <1>1, <2>7, <2>9, LocalOutbox DEF Surroundings, actorVars
      <3>2. HeldSet' = HeldSet /\ Fitting' = Fitting
        BY <2>2, <2>9 DEF HeldSet, Fitting
      <3>3. Silent(outbox')
        BY <2>5, <2>6 DEF Silent
      <3>4. ASSUME session' # BackendDegradedState, alive'
            PROVE  /\ Settles(outbox', "SuppressLocalShortcuts", suppressed', {IsRemote'})
                   /\ Settles(outbox', "LocalSessionChanged", published', Fitting')
        <4>1. suppressed' \in {IsRemote'} /\ published' \in Fitting'
          BY <1>1, <2>2, <2>9, <3>1, <3>2, <3>4, QuietView
        <4> QED
          BY <3>3, <4>1, SilentSettles
      <3>5. session' # BackendDegradedState => Projecting' \subseteq HeldSet'
        BY <1>1, <2>2, <3>1, <3>2, QuietView
      <3> QED
        BY <2>9, <3>4, <3>5 DEF ViewInv
    <2> QED
      BY <1>1, <1>2, <2>3, <2>4, <2>7, <2>8, <2>10, TypesKept DEF IInv
  <1> QED
    BY <1>4, <1>5
-----------------------------------------------------------------------------
(* The lane of a connection: it holds one epoch at a time, takes the       *)
(* frames of that one only, and its ReleaseAll ends it.                    *)

Laned == LaneStates(0..EpochMax)

LEMMA EnqueuedLane ==
    ASSUME NEW lane \in Laned
    PROVE  /\ EnqueueEmergency(lane).lane \in Laned
           /\ EnqueueEmergency(lane).lane.active = lane.active
  BY DEF EnqueueEmergency, Outcome, Laned, LaneStates

LEMMA RetiredLane ==
    ASSUME NEW lane \in Laned, NEW e \in 0..EpochMax
    PROVE  Retire(lane, e) \in Laned /\ Retire(lane, e).active = (IF lane.active = e THEN 0 ELSE lane.active)
  <1> DEFINE r == IF e > lane.retired THEN e ELSE lane.retired
             a == IF lane.active = e THEN 0 ELSE lane.active
  <1>1. r \in 0..EpochMax /\ a \in 0..EpochMax
    BY ConstantsAssumption DEF Laned, LaneStates
  <1>2. Retire(lane, e) = [lane EXCEPT !.retired = r, !.active = a]
    BY DEF Retire
  <1> HIDE DEF r
  <1>3. Retire(lane, e) \in Laned /\ Retire(lane, e).active = a
    <2> HIDE DEF a
    <2> QED
      BY <1>1, <1>2 DEF Laned, LaneStates
  <1> QED
    BY <1>3

LEMMA GivenUpLane ==
    ASSUME NEW lane \in Laned, NEW e \in 0..EpochMax
    PROVE  GiveUp(lane, e) \in Laned /\ GiveUp(lane, e).active = (IF lane.active = e THEN 0 ELSE lane.active)
  BY EnqueuedLane, RetiredLane DEF GiveUp

LEMMA QueuedLane ==
    ASSUME NEW lane \in Laned, NEW e \in 1..EpochMax, lane.active = e, NEW out \in QueueOutcomes(lane, e)
    PROVE  out.lane \in Laned /\ out.ok \in BOOLEAN /\ out.lane.active = (IF out.ok THEN e ELSE 0)
  <1>1. CASE out = Outcome([lane EXCEPT !.waiting = TRUE], TRUE)
    BY <1>1 DEF Outcome, Laned, LaneStates
  <1>2. CASE out = Outcome(GiveUp(lane, e), FALSE)
    <2>1. GiveUp(lane, e) \in Laned /\ GiveUp(lane, e).active = 0
      BY GivenUpLane
    <2> QED
      BY <1>2, <2>1 DEF Outcome
  <1> QED
    BY <1>1, <1>2 DEF QueueOutcomes

LEMMA ReliableLane ==
    ASSUME NEW lane \in Laned, NEW frame, frame.epoch \in 1..EpochMax, NEW out \in ReliableOutcomes(lane, frame)
    PROVE  /\ out.lane \in Laned
           /\ out.lane.active \in {0, lane.active} \/ (out.ok /\ out.lane.active = frame.epoch)
           /\ out.ok /\ frame.kind # "Enter" => lane.active = frame.epoch
           /\ frame.kind = "ReleaseAll" => out.lane.active \in {0, lane.active} \ {frame.epoch}
  <1> DEFINE e == frame.epoch
             entered == [lane EXCEPT !.active = e]
  <1>1. CASE ~Admits(lane, frame)
    <2>1. out.lane = lane /\ out.ok = FALSE
      BY <1>1 DEF ReliableOutcomes, Outcome
    <2> QED
      BY <1>1, <2>1 DEF Admits
  <1>2. CASE Admits(lane, frame) /\ frame.kind = "ReleaseAll"
    <2>1. lane.active = e /\ out = EnqueueEmergency(Retire(lane, e))
      BY <1>2 DEF Admits, ReliableOutcomes
    <2>2. e \in 0..EpochMax /\ e # 0
      OBVIOUS
    <2>3. Retire(lane, e) \in Laned /\ Retire(lane, e).active = 0
      BY <2>1, <2>2, RetiredLane
    <2>4. out.lane \in Laned /\ out.lane.active = 0
      BY <2>1, <2>3, EnqueuedLane
    <2> QED
      BY <1>2, <2>1, <2>2, <2>4
  <1>3. CASE Admits(lane, frame) /\ frame.kind # "ReleaseAll"
    <2>1. out \in QueueOutcomes(entered, e)
      BY <1>3 DEF ReliableOutcomes
    <2>2. entered \in Laned /\ entered.active = e
      BY DEF Laned, LaneStates
    <2>3. out.lane \in Laned /\ out.ok \in BOOLEAN /\ out.lane.active = (IF out.ok THEN e ELSE 0)
      BY <2>1, <2>2, QueuedLane
    <2>4. frame.kind # "Enter" => lane.active = e
      BY <1>3 DEF Admits
    <2> HIDE DEF entered
    <2> QED
      BY <1>3, <2>3, <2>4
  <1> QED
    BY <1>1, <1>2, <1>3

LEMMA WrittenLane ==
    ASSUME NEW lane \in Laned, NEW after \in WriterOutcomes(lane) \cup EmergencyWritten(lane)
    PROVE  after \in Laned /\ after.active \in {0, lane.active}
  <1>1. CASE after = [lane EXCEPT !.waiting = FALSE] \/ after = [lane EXCEPT !.slot = FALSE]
    BY <1>1 DEF Laned, LaneStates
  <1>2. CASE after = [(IF lane.active # 0 THEN GiveUp(lane, lane.active) ELSE lane) EXCEPT !.open = FALSE]
    <2>1. lane.active \in 0..EpochMax
      BY DEF Laned, LaneStates
    <2>2. GiveUp(lane, lane.active) \in Laned /\ GiveUp(lane, lane.active).active = 0
      BY <2>1, GivenUpLane
    <2>3. PICK b \in Laned : b.active \in {0, lane.active} /\ after = [b EXCEPT !.open = FALSE]
      BY <1>2, <2>2
    <2> QED
      BY <2>3 DEF Laned, LaneStates
  <1> QED
    BY <1>1, <1>2 DEF WriterOutcomes, EmergencyWritten
\* A frame tried on connection g of p: only that lane changes, and what took
\* the frame is recorded.
TriedOn(p, g, frame, ok) ==
    /\ lanes' \in [Peers -> [Conns -> Laned]]
    /\ carriers' \in [1..EpochMax -> SUBSET (Peers \X Conns)]
    /\ ok => g \in Conns
    /\ carriers' = IF ok THEN [carriers EXCEPT ![frame.epoch] = @ \cup {<<p, g>>}] ELSE carriers
    /\ \A q \in Peers, h \in Conns : q # p \/ h # g => lanes'[q][h] = lanes[q][h]
    /\ g \in Conns =>
          /\ lanes'[p][g].active \in {0, lanes[p][g].active} \/ (ok /\ lanes'[p][g].active = frame.epoch)
          /\ ok /\ frame.kind # "Enter" => lanes[p][g].active = frame.epoch
          /\ frame.kind = "ReleaseAll" => lanes'[p][g].active \in {0, lanes[p][g].active} \ {frame.epoch}

LEMMA Tried ==
    ASSUME RuntimeTypeOK, NEW p \in Peers, NEW g \in 0..ConnMax, NEW frame, frame.epoch \in 1..EpochMax,
           NEW ok \in BOOLEAN, TrySend(p, g, frame, ok)
    PROVE  TriedOn(p, g, frame, ok)
  <1>1. /\ lanes \in [Peers -> [Conns -> Laned]] /\ carriers \in [1..EpochMax -> SUBSET (Peers \X Conns)]
        /\ 0 \notin Conns /\ (g # 0 => g \in Conns)
    BY ConnMaxAssumption DEF RuntimeTypeOK, Laned, Conns
  <1>2. CASE g = 0
    <2>1. ok = FALSE /\ UNCHANGED <<lanes, carriers>> /\ g \notin Conns
      BY <1>1, <1>2 DEF TrySend
    <2> QED
      BY <1>1, <2>1 DEF TriedOn
  <1>3. CASE g # 0
    <2>1. g \in Conns /\ lanes[p][g] \in Laned
      BY <1>1, <1>3
    <2>2. PICK out \in ReliableOutcomes(lanes[p][g], frame) :
             /\ out.ok = ok
             /\ lanes' = [lanes EXCEPT ![p][g] = out.lane]
             /\ carriers' = IF ok THEN [carriers EXCEPT ![frame.epoch] = @ \cup {<<p, g>>}] ELSE carriers
      BY <1>3 DEF TrySend, Carry
    <2>3. /\ out.lane \in Laned
          /\ out.lane.active \in {0, lanes[p][g].active} \/ (ok /\ out.lane.active = frame.epoch)
          /\ ok /\ frame.kind # "Enter" => lanes[p][g].active = frame.epoch
          /\ frame.kind = "ReleaseAll" => out.lane.active \in {0, lanes[p][g].active} \ {frame.epoch}
      BY <2>1, <2>2, ReliableLane
    <2>4. /\ lanes' \in [Peers -> [Conns -> Laned]] /\ lanes'[p][g] = out.lane
          /\ \A q \in Peers, h \in Conns : q # p \/ h # g => lanes'[q][h] = lanes[q][h]
      BY <1>1, <2>1, <2>2, <2>3
    <2>5. carriers' \in [1..EpochMax -> SUBSET (Peers \X Conns)]
      BY <1>1, <2>1, <2>2
    <2> QED
      BY <2>1, <2>2, <2>3, <2>4, <2>5 DEF TriedOn
  <1> QED
    BY <1>2, <1>3

-----------------------------------------------------------------------------
(* The dispatch of one output.                                             *)

\* What waits behind the head.
LEMMA BehindHead ==
    ASSUME OutboxInv, ~Quiet
    PROVE  /\ Waits(Tail(outbox)) /\ \A i \in DOMAIN Tail(outbox) : Sound(Tail(outbox)[i])
           /\ Sound(Head(outbox)) /\ (Head(outbox).type = "SendReliable" => SoundReliable(Head(outbox)))
           /\ \A p : ReleaseDue(p) =>
                 \/ Head(outbox).type = "EmergencyReleaseAll" /\ Head(outbox).target = p
                 \/ \E i \in DOMAIN Tail(outbox) :
                       Tail(outbox)[i].type = "EmergencyReleaseAll" /\ Tail(outbox)[i].target = p
  <1> DEFINE t == Tail(outbox)
             o == Head(outbox)
             Due(p) == \E i \in DOMAIN t : t[i].type = "EmergencyReleaseAll" /\ t[i].target = p
  <1>1. /\ IsList(t) /\ DOMAIN t = 1..Len(outbox) - 1 /\ DOMAIN outbox = 1..Len(outbox)
        /\ Len(outbox) \in Nat /\ 1 \in DOMAIN outbox /\ o = outbox[1]
        /\ \A i \in DOMAIN t : i + 1 \in DOMAIN outbox /\ t[i] = outbox[i + 1]
    BY Tails DEF OutboxInv, Quiet
  <1> HIDE DEF t, o
  <1>2. ASSUME NEW i \in DOMAIN t PROVE Sound(t[i]) /\ t[i].type # "SendReliable"
    <2>1. i + 1 \in DOMAIN outbox /\ t[i] = outbox[i + 1] /\ i + 1 # 1
      BY <1>1, <1>2
    <2> QED
      BY <2>1 DEF OutboxInv
  <1>3. Sound(o) /\ (o.type = "SendReliable" => SoundReliable(o))
    BY <1>1 DEF OutboxInv
  <1>4. ASSUME NEW p, ReleaseDue(p) PROVE (o.type = "EmergencyReleaseAll" /\ o.target = p) \/ Due(p)
    <2>1. PICK i \in DOMAIN outbox : outbox[i].type = "EmergencyReleaseAll" /\ outbox[i].target = p
      BY <1>4 DEF ReleaseDue
    <2>2. CASE i = 1
      BY <1>1, <2>1, <2>2
    <2>3. CASE i # 1
      <3>1. i \in Int /\ i - 1 \in DOMAIN t /\ (i - 1) + 1 = i
        BY <1>1, <2>3
      <3>2. t[i - 1] = outbox[i]
        BY <1>1, <3>1
      <3> QED
        BY <2>1, <3>1, <3>2
    <2> QED
      BY <2>2, <2>3
  <1> QED
    BY <1>1, <1>2, <1>3, <1>4 DEF Waits, t, o

\* The head is taken and the router not asked.
LEMMA HeadTaken ==
    ASSUME OutboxInv, ~Quiet, outbox' = Tail(outbox), UNCHANGED <<session, epoch>>
    PROVE  /\ OutboxInv' /\ Projecting' = projected'
           /\ \A p : ReleaseDue(p) =>
                 ReleaseDue(p)' \/ (Head(outbox).type = "EmergencyReleaseAll" /\ Head(outbox).target = p)
  <1>1. /\ Waits(outbox') /\ \A i \in DOMAIN outbox' : Sound(outbox'[i])
    BY BehindHead
  <1>2. \A o : Sound(o) => Sound(o)'
    BY SoundStays DEF IsRemote
  <1>3. OutboxInv'
    <2>1. ASSUME NEW i \in DOMAIN outbox' PROVE Sound(outbox[i])' /\ outbox'[i].type # "SendReliable"
      <3>1. PICK o : o = outbox'[i]
        OBVIOUS
      <3>2. Sound(o)' /\ o.type # "SendReliable"
        BY <1>1, <1>2, <3>1 DEF Waits
      <3> QED
        BY <3>1, <3>2
    <2> QED
      BY <1>1, <2>1 DEF OutboxInv, Waits
  <1>4. Projecting' = projected'
    BY <1>1, <1>3, Unprojected DEF Waits
  <1>5. \A p : ReleaseDue(p) =>
                 ReleaseDue(p)' \/ (Head(outbox).type = "EmergencyReleaseAll" /\ Head(outbox).target = p)
    BY BehindHead DEF ReleaseDue
  <1> QED
    BY <1>3, <1>4, <1>5

\* What is shown once the head is shown.
LEMMA HeadShown ==
    ASSUME IInv, ~Quiet, outbox' = Tail(outbox), UNCHANGED <<session, epoch, held, nextToken>>,
           alive' => /\ alive
                     /\ suppressed' = IF Head(outbox).type = "SuppressLocalShortcuts"
                                      THEN Head(outbox).value ELSE suppressed
                     /\ published' = IF Head(outbox).type = "LocalSessionChanged"
                                     THEN Head(outbox).value ELSE published,
           session # BackendDegradedState => projected' = Projecting
    PROVE  ViewInv'
  <1> SUFFICES ASSUME session' # BackendDegradedState
               PROVE  /\ alive' => /\ Settles(outbox', "SuppressLocalShortcuts", suppressed', {IsRemote'})
                                   /\ Settles(outbox', "LocalSessionChanged", published', Fitting')
                      /\ Projecting' \subseteq HeldSet'
                      /\ IsRemote' /\ nextToken' # TokenMax => Projecting' = HeldSet'
    BY DEF ViewInv
  <1>1. Projecting' = Projecting /\ HeldSet' = HeldSet /\ (IsRemote' <=> IsRemote) /\ Fitting' = Fitting
    BY HeadTaken DEF IInv, HeldSet, IsRemote, Fitting
  <1>2. ASSUME alive' PROVE /\ Settles(outbox', "SuppressLocalShortcuts", suppressed', {IsRemote'})
                            /\ Settles(outbox', "LocalSessionChanged", published', Fitting')
    <2>1. /\ Settles(outbox, "SuppressLocalShortcuts", suppressed, {IsRemote})
          /\ Settles(outbox, "LocalSessionChanged", published, Fitting)
      BY <1>2 DEF IInv, ViewInv
    <2>2. IsList(outbox) /\ outbox # <<>>
      BY DEF IInv, OutboxInv, Quiet
    <2>3. /\ Settles(outbox', "SuppressLocalShortcuts", suppressed', {IsRemote})
          /\ Settles(outbox', "LocalSessionChanged", published', Fitting)
      BY <1>2, <2>1, <2>2, SettledTail
    <2>4. IsRemote' = IsRemote
      BY DEF IsRemote
    <2> QED
      BY <1>1, <2>3, <2>4
  <1>3. Projecting' \subseteq HeldSet' /\ (IsRemote' /\ nextToken' # TokenMax => Projecting' = HeldSet')
    BY <1>1 DEF IInv, ViewInv
  <1> QED
    BY <1>2, <1>3

LEMMA RouterKept ==
    ASSUME RouterInv, OwedStrictly, UNCHANGED routerVars
    PROVE  RouterInv' /\ OwedStrictly' /\ UNCHANGED <<session, epoch, held, nextToken>>
  BY DEF RouterInv, RouterTypeOK, SessionShape, SuspensionShape, ActiveOwesNothing, PendingCoversHeld,
         OwedStrictly, HeldSet, IsRemote, routerVars, routeVars, countVars, ledgerVars
SurroundingsTyped ==
    /\ alive \in BOOLEAN /\ suppressed \in BOOLEAN
    /\ binding \in [Peers -> 0..ConnMax] /\ registry \in [Peers -> 0..ConnMax]
    /\ made \in [Peers -> 0..ConnMax]
    /\ announced \in [Peers -> 0..ConnMax] /\ known \in [Peers -> 0..ConnMax]
    /\ currentEpoch \in 0..EpochMax
    /\ projected \subseteq Controls
    /\ published \in Sessions
    /\ lanes \in [Peers -> [Conns -> Laned]]
    /\ carriers \in [1..EpochMax -> SUBSET (Peers \X Conns)]

LEMMA TypesJoined ==
    /\ IInv => SurroundingsTyped /\ NewsTyped
    /\ RouterInv' /\ OutboxInv' /\ SurroundingsTyped' /\ NewsTyped' => RuntimeTypeOK' /\ IsList(news')
  BY DEF RuntimeTypeOK, IInv, RouterInv, OutboxInv, Sound, SurroundingsTyped, NewsTyped, Laned

\* The connections are as they were and the head was no release.
LEMMA ConnectionsKept ==
    ASSUME IInv, ~Quiet, outbox' = Tail(outbox), UNCHANGED <<session, epoch, binding, lanes, carriers>>,
           Head(outbox).type \notin {"SendReliable", "EmergencyReleaseAll"}
    PROVE  BoundInv' /\ LaneInv' /\ CarrierInv' /\ OneCarrierPerEpoch'
  <1>1. ~Entering /\ \A p : ReleaseDue(p) => ReleaseDue(p)'
    BY HeadTaken DEF IInv, Entering
  <1>2. \A p : Controlled(p)' <=> Controlled(p)
    BY DEF Controlled, IsRemote
  <1>3. BoundInv'
    BY <1>1, <1>2 DEF IInv, BoundInv
  <1> QED
    BY <1>3 DEF IInv, LaneInv, CarrierInv, OneCarrierPerEpoch

\* A step that takes the head and asks neither the router nor a connection.
LEMMA OwnOutputKeeps ==
    ASSUME IInv, ~Quiet, outbox' = Tail(outbox), SurroundingsTyped',
           UNCHANGED <<routerVars, binding, lanes, carriers, news>>,
           Head(outbox).type \notin {"SendReliable", "EmergencyReleaseAll"},
           alive' => /\ alive
                     /\ suppressed' = IF Head(outbox).type = "SuppressLocalShortcuts"
                                      THEN Head(outbox).value ELSE suppressed
                     /\ published' = IF Head(outbox).type = "LocalSessionChanged"
                                     THEN Head(outbox).value ELSE published,
           session # BackendDegradedState => projected' = projected
    PROVE  IInv'
  <1>1. RouterInv' /\ OwedStrictly' /\ UNCHANGED <<session, epoch, held, nextToken>>
    BY RouterKept DEF IInv
  <1>2. OutboxInv' /\ Projecting = projected
    BY <1>1, HeadTaken DEF IInv, Projecting
  <1>3. BoundInv' /\ LaneInv' /\ CarrierInv' /\ OneCarrierPerEpoch'
    BY <1>1, ConnectionsKept
  <1>4. ViewInv'
    BY <1>1, <1>2, HeadShown
  <1>5. NewsTyped'
    BY TypesJoined DEF NewsTyped
  <1> QED
    BY <1>1, <1>2, <1>3, <1>4, <1>5, TypesJoined DEF IInv

LEMMA DispatchOwnKeeps ==
    ASSUME IInv, DispatchSession \/ DispatchSuppress \/ DispatchMetric \/ AdvanceFaultEpoch \/ Stop
    PROVE  IInv'
  <1> DEFINE o == Head(outbox)
  <1>1. SurroundingsTyped
    BY TypesJoined
  <1>2. ~Quiet => Sound(o)
    BY BehindHead DEF IInv
  <1>3. CASE DispatchSession
    <2>1. /\ ~Quiet /\ outbox' = Tail(outbox) /\ o.type = "LocalSessionChanged" /\ published' = o.value
          /\ UNCHANGED <<routerVars, alive, binding, currentEpoch, projected, suppressed, made, registry,
                         lanes, announced, known, news, carriers>>
      BY <1>3 DEF DispatchSession, NextOutIs, netVars, connVars
    <2>2. published' \in Sessions
      BY <1>2, <2>1 DEF Sound
    <2> HIDE DEF o
    <2>3. SurroundingsTyped'
      BY <1>1, <2>1, <2>2 DEF SurroundingsTyped
    <2> QED
      BY <2>1, <2>3, OwnOutputKeeps DEF o
  <1>4. CASE DispatchSuppress
    <2>1. /\ ~Quiet /\ outbox' = Tail(outbox) /\ o.type = "SuppressLocalShortcuts" /\ suppressed' = o.value
          /\ UNCHANGED <<routerVars, alive, binding, currentEpoch, projected, published, made, registry,
                         lanes, announced, known, news, carriers>>
      BY <1>4 DEF DispatchSuppress, NextOutIs, netVars, connVars
    <2>2. suppressed' \in BOOLEAN
      BY <1>2, <2>1 DEF Sound
    <2> HIDE DEF o
    <2>3. SurroundingsTyped'
      BY <1>1, <2>1, <2>2 DEF SurroundingsTyped
    <2> QED
      BY <2>1, <2>3, OwnOutputKeeps DEF o
  <1>5. CASE DispatchMetric
    <2>1. /\ ~Quiet /\ outbox' = Tail(outbox) /\ o.type = "Metric"
          /\ UNCHANGED <<routerVars, alive, binding, currentEpoch, projected, published, suppressed, made,
                         registry, lanes, announced, known, news, carriers>>
      BY <1>5 DEF DispatchMetric, NextOutIs, actorVars, netVars, connVars
    <2> HIDE DEF o
    <2>2. SurroundingsTyped'
      BY <1>1, <2>1 DEF SurroundingsTyped
    <2> QED
      BY <2>1, <2>2, OwnOutputKeeps DEF o
  <1>6. CASE AdvanceFaultEpoch
    <2>1. /\ ~Quiet /\ outbox' = Tail(outbox) /\ o.type = "AdvanceFaultEpoch"
          /\ UNCHANGED <<routerVars, alive, binding, published, suppressed, made,
                         registry, lanes, announced, known, news, carriers>>
      BY <1>6 DEF AdvanceFaultEpoch, NextOutIs, netVars, connVars
    <2>2. session = BackendDegradedState
      BY <1>2, <2>1 DEF Sound
    <2>3. currentEpoch' \in 0..EpochMax /\ projected' \subseteq Controls
      BY <1>1, <1>6, ConstantsAssumption DEF AdvanceFaultEpoch, SurroundingsTyped
    <2> HIDE DEF o
    <2>4. SurroundingsTyped'
      BY <1>1, <2>1, <2>3 DEF SurroundingsTyped
    <2> QED
      BY <2>1, <2>2, <2>4, OwnOutputKeeps DEF o
  <1>7. CASE Stop
    <2>1. /\ ~Quiet /\ outbox' = Tail(outbox) /\ o.type = "Stop" /\ alive' = FALSE /\ suppressed' = FALSE
          /\ UNCHANGED <<routerVars, binding, currentEpoch, projected, published, made,
                         registry, lanes, announced, known, news, carriers>>
      BY <1>7 DEF Stop, NextOutIs, netVars, connVars
    <2> HIDE DEF o
    <2>2. SurroundingsTyped'
      BY <1>1, <2>1 DEF SurroundingsTyped
    <2> QED
      BY <2>1, <2>2, OwnOutputKeeps DEF o
  <1> QED
    BY <1>3, <1>4, <1>5, <1>6, <1>7

LEMMA DispatchRealtimeKeeps == ASSUME IInv, DispatchRealtime PROVE IInv'
  <1> DEFINE o == Head(outbox)
             g == binding[o.target]
  <1>1. /\ ~Quiet /\ outbox' = Tail(outbox) /\ o.type = "SendRealtime" /\ currentEpoch' = o.frame.epoch
        /\ carriers' \in {carriers, [carriers EXCEPT ![o.frame.epoch] = @ \cup {<<o.target, g>>}]}
        /\ g = 0 => carriers' = carriers
        /\ UNCHANGED <<routerVars, alive, binding, projected, published, suppressed, made, registry,
                       lanes, announced, known, news>>
    BY DEF DispatchRealtime, NextOutIs, Carry, netVars, connVars
  <1>2. o.target \in Peers /\ o.frame.epoch = epoch /\ epoch \in 1..EpochMax
    <2>1. Sound(o)
      BY <1>1, BehindHead DEF IInv
    <2>2. o.target \in Peers /\ o.frame.epoch = epoch /\ epoch # 0
      BY <1>1, <2>1 DEF Sound, FrameTypes
    <2> QED
      BY <2>2, Counted DEF IInv
  <1>3. PICK p \in Peers : o.target = p
    BY <1>2
  <1> DEFINE h == binding[p]
  <1>4. SurroundingsTyped /\ g = h /\ (h # 0 => h \in Conns)
    BY <1>3, TypesJoined, SMTT(60), ZenonT(60) DEF SurroundingsTyped, Conns
  <1>5. \/ carriers' = carriers
        \/ h # 0 /\ h \in Conns /\ carriers' = [carriers EXCEPT ![epoch] = @ \cup {<<p, h>>}]
    BY <1>1, <1>2, <1>3, <1>4
  <1> HIDE DEF o, g, h
  <1>6. RouterInv' /\ OwedStrictly' /\ UNCHANGED <<session, epoch, held, nextToken>>
    BY <1>1, RouterKept DEF IInv
  <1>7. OutboxInv' /\ Projecting = projected /\ \A q : ReleaseDue(q) => ReleaseDue(q)'
    BY <1>1, <1>6, HeadTaken DEF IInv, Projecting, o
  <1>8. SurroundingsTyped'
    <2>1. currentEpoch' \in 0..EpochMax
      BY <1>1, <1>2
    <2>2. carriers' \in [1..EpochMax -> SUBSET (Peers \X Conns)]
      <3>1. carriers \in [1..EpochMax -> SUBSET (Peers \X Conns)]
        BY <1>4 DEF SurroundingsTyped
      <3> QED
        BY <1>2, <1>5, <3>1
    <2> QED
      BY <1>1, <1>4, <2>1, <2>2 DEF SurroundingsTyped
  <1>9. BoundInv'
    <2>1. ~Entering /\ \A q : Controlled(q)' <=> Controlled(q)
      BY <1>1, <1>6 DEF Entering, Controlled, IsRemote, o
    <2> QED
      BY <1>1, <1>7, <2>1 DEF IInv, BoundInv
  <1>10. /\ \A e \in 1..EpochMax : carriers[e] \subseteq carriers'[e]
         /\ \A e \in 1..EpochMax : e # epoch => carriers'[e] = carriers[e]
         /\ carriers'[epoch] \subseteq carriers[epoch] \cup {<<p, h>>}
         /\ carriers'[epoch] # carriers[epoch] => h # 0
    BY <1>2, <1>4, <1>5 DEF SurroundingsTyped
  <1>11. LaneInv'
    BY <1>1, <1>2, <1>6, <1>10 DEF IInv, LaneInv
  <1>12. h # 0 => carriers[epoch] \subseteq {<<p, h>>}
    BY <1>2 DEF IInv, CarrierInv, h
  <1>13. CarrierInv'
    <2>1. \A e \in 1..EpochMax : e > epoch => carriers'[e] = {}
      BY <1>2, <1>10 DEF IInv, CarrierInv
    <2>2. ASSUME NEW q \in Peers, binding[q] # 0 PROVE carriers'[epoch] \subseteq {<<q, binding[q]>>}
      <3>1. carriers[epoch] \subseteq {<<q, binding[q]>>}
        BY <1>2, <2>2 DEF IInv, CarrierInv
      <3>2. h # 0 => p = q
        BY <2>2 DEF IInv, BoundInv, h
      <3> QED
        BY <1>10, <3>1, <3>2 DEF h
    <2> QED
      BY <1>1, <1>6, <2>1, <2>2 DEF CarrierInv
  <1>14. OneCarrierPerEpoch'
    <2>1. \A e \in 1..EpochMax : e # epoch => \A c1, c2 \in carriers'[e] : c1 = c2
      BY <1>10 DEF IInv, OneCarrierPerEpoch
    <2>2. \A c1, c2 \in carriers'[epoch] : c1 = c2
      <3>1. CASE h # 0
        BY <1>10, <1>12, <3>1
      <3>2. CASE h = 0
        BY <1>2, <1>10, <3>2 DEF IInv, OneCarrierPerEpoch
      <3> QED
        BY <3>1, <3>2
    <2> QED
      BY <2>1, <2>2 DEF OneCarrierPerEpoch
  <1>15. ViewInv'
    BY <1>1, <1>6, <1>7, HeadShown DEF o
  <1>16. NewsTyped'
    BY <1>1, TypesJoined DEF NewsTyped
  <1> QED
    BY <1>6, <1>7, <1>8, <1>9, <1>11, <1>13, <1>14, <1>15, <1>16, TypesJoined DEF IInv
\* A reliable frame of the session is tried on the connection of its peer, the
\* first one on the peer's current connection.
LEMMA ReliableTried ==
    ASSUME IInv, ~Quiet, NEW p \in Peers, NEW frame, NEW ok, NEW g, g = EnterBinding(p, frame),
           Head(outbox).type = "SendReliable", Head(outbox).target = p, Head(outbox).frame = frame,
           binding' = [binding EXCEPT ![p] = g], TrySend(p, g, frame, ok), ok = TRUE \/ ok = FALSE, epoch' = epoch
    PROVE  /\ Controlled(p) /\ IsRemote /\ frame.epoch \in 1..EpochMax /\ frame.kind # "ReleaseAll"
           /\ frame.kind \in {"Press", "Release"} => frame.control \in Controls
           /\ binding' \in [Peers -> 0..ConnMax] /\ lanes' \in [Peers -> [Conns -> Laned]]
           /\ carriers' \in [1..EpochMax -> SUBSET (Peers \X Conns)]
           /\ ok = TRUE => binding'[p] # 0
           /\ \A q \in Peers : binding'[q] # 0 => q = p
           /\ LaneInv' /\ CarrierInv' /\ OneCarrierPerEpoch'
  <1>1. Sound(Head(outbox)) /\ SoundReliable(Head(outbox))
    BY BehindHead DEF IInv
  <1>2. /\ Controlled(p) /\ IsRemote /\ frame.epoch = epoch /\ epoch \in 1..EpochMax
        /\ frame.kind # "ReleaseAll"
        /\ frame.kind \in {"Press", "Release"} => frame.control \in Controls
    <2>1. Controlled(p) /\ frame.epoch = epoch /\ epoch # 0
      BY <1>1 DEF Sound, SoundReliable, FrameTypes
    <2> QED
      BY <1>1, <2>1, Counted DEF IInv, Controlled, SoundReliable
  <1>3. SurroundingsTyped /\ RuntimeTypeOK /\ g \in 0..ConnMax
    BY TypesJoined DEF SurroundingsTyped, EnterBinding, IInv
  <1>4. binding' \in [Peers -> 0..ConnMax] /\ binding'[p] = g
        /\ \A q \in Peers : q # p => binding'[q] = binding[q]
    BY <1>3 DEF SurroundingsTyped
  <1>5. /\ lanes' \in [Peers -> [Conns -> Laned]]
        /\ carriers' \in [1..EpochMax -> SUBSET (Peers \X Conns)]
        /\ ok = TRUE => g \in Conns
        /\ carriers' = IF ok = TRUE THEN [carriers EXCEPT ![epoch] = @ \cup {<<p, g>>}] ELSE carriers
        /\ \A q \in Peers, h \in Conns : q # p \/ h # g => lanes'[q][h] = lanes[q][h]
        /\ g \in Conns =>
              lanes'[p][g].active \in {0, lanes[p][g].active} \/ (ok = TRUE /\ lanes'[p][g].active = epoch)
    <2>1. TriedOn(p, g, frame, ok)
      BY <1>2, <1>3, Tried
    <2> QED
      BY <1>2, <2>1 DEF TriedOn
  <1>6. 0 \notin Conns
    BY ConnMaxAssumption DEF Conns
  <1>7. /\ \A q \in Peers : q # p => binding[q] = 0
        /\ \A q \in Peers, h \in Conns : lanes[q][h].active # 0 =>
              q = p /\ h = g /\ lanes[q][h].active = epoch /\ <<p, g>> \in carriers[epoch]
        /\ carriers[epoch] \subseteq {<<p, g>>}
    <2>1. CASE frame.kind = "Enter"
      <3>1. carriers[epoch] = {} /\ \A q \in Peers : binding[q] = 0
        BY <1>1, <2>1 DEF SoundReliable
      <3>2. \A q \in Peers, h \in Conns : lanes[q][h].active = 0
        BY <1>6, <3>1 DEF IInv, LaneInv
      <3> QED
        BY <3>1, <3>2
    <2>2. CASE frame.kind # "Enter"
      <3>1. g = binding[p] /\ binding[p] # 0
        BY <1>2, <2>2 DEF EnterBinding, Entering, IInv, BoundInv
      <3>2. \A q \in Peers : q # p => binding[q] = 0
        BY <3>1 DEF IInv, BoundInv
      <3>3. carriers[epoch] \subseteq {<<p, g>>}
        BY <1>2, <3>1 DEF IInv, CarrierInv
      <3>4. ASSUME NEW q \in Peers, NEW h \in Conns, lanes[q][h].active # 0
            PROVE  q = p /\ h = g /\ lanes[q][h].active = epoch /\ <<p, g>> \in carriers[epoch]
        <4>1. binding[q] = h /\ lanes[q][h].active = epoch /\ <<q, h>> \in carriers[epoch]
          BY <3>4 DEF IInv, LaneInv
        <4> QED
          BY <1>6, <3>1, <3>2, <4>1
      <3> QED
        BY <3>2, <3>3, <3>4
    <2> QED
      BY <2>1, <2>2
  <1>8. /\ \A e \in 1..EpochMax : carriers[e] \subseteq carriers'[e]
        /\ \A e \in 1..EpochMax : e # epoch => carriers'[e] = carriers[e]
        /\ carriers'[epoch] \subseteq {<<p, g>>} /\ (ok = TRUE => <<p, g>> \in carriers'[epoch])
    BY <1>2, <1>3, <1>5, <1>7 DEF SurroundingsTyped
  <1>9. \A q \in Peers : binding'[q] # 0 => q = p
    BY <1>4, <1>7
  <1>10. LaneInv'
    <2>1. ASSUME NEW q \in Peers, NEW h \in Conns, lanes'[q][h].active # 0
          PROVE  lanes'[q][h].active = epoch /\ binding'[q] = h /\ <<q, h>> \in carriers'[epoch]
      <3>1. q = p /\ h = g
        BY <1>5, <1>7, <2>1
      <3>2. lanes'[p][g].active = lanes[p][g].active \/ (ok = TRUE /\ lanes'[p][g].active = epoch)
        BY <1>5, <2>1, <3>1
      <3> QED
        BY <1>2, <1>4, <1>7, <1>8, <2>1, <3>1, <3>2
    <2> QED
      BY <2>1 DEF LaneInv
  <1>11. CarrierInv'
    <2>1. \A e \in 1..EpochMax : e > epoch => carriers'[e] = {}
      BY <1>2, <1>8 DEF IInv, CarrierInv
    <2> QED
      BY <1>4, <1>8, <1>9, <2>1 DEF CarrierInv
  <1>12. OneCarrierPerEpoch'
    BY <1>8 DEF IInv, OneCarrierPerEpoch
  <1> QED
    BY <1>2, <1>4, <1>5, <1>6, <1>9, <1>10, <1>11, <1>12

LEMMA DispatchReliableKeeps == ASSUME IInv, DispatchReliable PROVE IInv'
  <1> DEFINE o == Head(outbox)
  <1>1. PICK p, frame, g, ok, t :
           /\ ok \in BOOLEAN /\ t = Tail(outbox)
           /\ ~Quiet /\ o.type = "SendReliable" /\ o.target = p /\ o.frame = frame
           /\ g = EnterBinding(p, frame) /\ currentEpoch' = frame.epoch
           /\ binding' = [binding EXCEPT ![p] = g] /\ TrySend(p, g, frame, ok)
           /\ IF ok THEN projected' = Project(frame) /\ outbox' = t /\ UNCHANGED routerVars
                    ELSE BackendDegraded(t) /\ projected' = projected
           /\ UNCHANGED <<alive, published, suppressed, made, registry, announced, known, news>>
    <2>1. PICK ok \in BOOLEAN :
             /\ TrySend(o.target, EnterBinding(o.target, o.frame), o.frame, ok)
             /\ IF ok THEN projected' = Project(o.frame) /\ outbox' = Tail(outbox) /\ UNCHANGED routerVars
                      ELSE BackendDegraded(Tail(outbox)) /\ projected' = projected
      BY DEF DispatchReliable
    <2> QED
      BY <2>1 DEF DispatchReliable, NextOutIs
  <1>2. p \in Peers
    <2>1. Sound(o)
      BY <1>1, BehindHead DEF IInv
    <2> QED
      BY <1>1, <2>1 DEF Sound, FrameTypes
  <1>3. epoch' = epoch
    BY <1>1 DEF BackendDegraded, routerVars
  <1>4. /\ Controlled(p) /\ IsRemote /\ frame.epoch \in 1..EpochMax /\ frame.kind # "ReleaseAll"
        /\ frame.kind \in {"Press", "Release"} => frame.control \in Controls
        /\ binding' \in [Peers -> 0..ConnMax] /\ lanes' \in [Peers -> [Conns -> Laned]]
        /\ carriers' \in [1..EpochMax -> SUBSET (Peers \X Conns)]
        /\ ok = TRUE => binding'[p] # 0
        /\ \A q \in Peers : binding'[q] # 0 => q = p
        /\ LaneInv' /\ CarrierInv' /\ OneCarrierPerEpoch'
    <2>1. /\ (ok = TRUE \/ ok = FALSE) /\ ~Quiet /\ Head(outbox).type = "SendReliable" /\ Head(outbox).target = p
          /\ Head(outbox).frame = frame /\ g = EnterBinding(p, frame)
          /\ binding' = [binding EXCEPT ![p] = g] /\ TrySend(p, g, frame, ok)
      BY <1>1
    <2> HIDE DEF o
    <2> QED
      BY <1>2, <1>3, <2>1, ReliableTried, ZenonT(60), SMTT(60)
  <1>5. SurroundingsTyped' /\ NewsTyped'
    <2>1. SurroundingsTyped /\ NewsTyped
      BY TypesJoined
    <2>2. currentEpoch' \in 0..EpochMax
      BY <1>1, <1>4
    <2>3. projected' \subseteq Controls
      BY <1>1, <1>4, <2>1 DEF Project, SurroundingsTyped
    <2> QED
      BY <1>1, <1>4, <2>1, <2>2, <2>3 DEF SurroundingsTyped, NewsTyped
  <1>6. CASE ok
    <2>1. outbox' = t /\ projected' = Project(frame) /\ UNCHANGED routerVars
      BY <1>1, <1>6
    <2>2. RouterInv' /\ OwedStrictly' /\ UNCHANGED <<session, epoch, held, nextToken>>
      BY <2>1, RouterKept DEF IInv
    <2>3. OutboxInv'
      BY <1>1, <2>1, <2>2, HeadTaken DEF IInv
    <2>4. BoundInv'
      <3>1. \A q : Controlled(q)' <=> Controlled(q)
        BY <2>2 DEF Controlled, IsRemote
      <3>2. \A q : Controlled(q) => q = p
        BY <1>4 DEF Controlled
      <3> QED
        BY <1>4, <1>6, <3>1, <3>2 DEF BoundInv
    <2>5. ViewInv'
      <3>1. Projecting = Project(frame)
        BY <1>1 DEF Projecting
      <3> QED
        BY <1>1, <2>1, <2>2, <3>1, HeadShown
    <2> QED
      BY <1>4, <1>5, <2>2, <2>3, <2>4, <2>5, TypesJoined DEF IInv
  <1>7. CASE ~ok
    <2>1. BackendDegraded(t)
      BY <1>1, <1>7
    <2>2. Waits(t) /\ \A i \in DOMAIN t : Sound(t[i])
      BY <1>1, BehindHead DEF IInv
    <2> HIDE DEF o
    <2>3. RouterInv' /\ session' = BackendDegradedState
      BY <2>1, BackendDegradedInv DEF IInv, BackendDegraded
    <2>4. Leaves(t)
      BY <1>4, <2>1, BackendAnswers DEF IInv, Degrades
    <2>5. OwedStrictly'
      BY <2>4, OwedAfter DEF IInv
    <2>6. OutboxInv'
      <3>1. ~IsRemote'
        BY <2>3, LeavesLocal
      <3>2. \A i \in DOMAIN t : Sound(t[i])'
        BY <1>3, <2>2, <2>3, <3>1, SoundStays
      <3> QED
        BY <2>2, <2>3, <2>4, <3>2, LeavesOutbox DEF IInv
    <2>7. BoundInv'
      <3>1. ReleaseDue(p)'
        BY <1>2, <1>4, <2>2, <2>4, LeavesDue DEF Waits
      <3>2. \A q : ~Controlled(q)'
        BY <2>3, LeavesLocal DEF Controlled
      <3> QED
        BY <1>4, <3>1, <3>2 DEF BoundInv
    <2>8. ViewInv'
      BY <2>3 DEF ViewInv
    <2> QED
      BY <1>4, <1>5, <2>3, <2>5, <2>6, <2>7, <2>8, TypesJoined DEF IInv
  <1> QED
    BY <1>6, <1>7
\* The release of a peer is tried on the connection its session used, or else
\* on the current one, which has never heard of the session.
LEMMA ReleaseTried ==
    ASSUME IInv, NEW p \in Peers, NEW frame, frame.epoch = epoch, epoch # 0, frame.kind = "ReleaseAll",
           NEW ok, TrySend(p, ReleaseBinding(p), frame, ok), ok = TRUE \/ ok = FALSE,
           binding' = Unbound(p), epoch' = epoch
    PROVE  /\ binding' \in [Peers -> 0..ConnMax] /\ lanes' \in [Peers -> [Conns -> Laned]]
           /\ carriers' \in [1..EpochMax -> SUBSET (Peers \X Conns)]
           /\ binding'[p] = 0 /\ \A q \in Peers : q # p => binding'[q] = binding[q]
           /\ LaneInv' /\ CarrierInv' /\ OneCarrierPerEpoch'
  <1> DEFINE g == ReleaseBinding(p)
  <1>1. SurroundingsTyped /\ RuntimeTypeOK /\ g \in 0..ConnMax /\ frame.epoch \in 1..EpochMax
        /\ epoch \in 1..EpochMax
    BY TypesJoined, Counted, SMTT(60), ZenonT(60) DEF SurroundingsTyped, ReleaseBinding, IInv
  <1>2. binding' \in [Peers -> 0..ConnMax] /\ binding'[p] = 0
        /\ \A q \in Peers : q # p => binding'[q] = binding[q]
    BY <1>1, ConnMaxAssumption DEF SurroundingsTyped, Unbound
  <1>3. TriedOn(p, g, frame, ok)
    BY <1>1, Tried
  <1>4. 0 \notin Conns /\ (binding[p] # 0 => g = binding[p])
    BY ConnMaxAssumption DEF Conns, ReleaseBinding
  <1> HIDE DEF g
  <1>5. ASSUME NEW h \in Conns PROVE lanes'[p][h].active = 0
    <2>1. lanes[p][h].active # 0 => lanes[p][h].active = epoch /\ binding[p] = h
      BY <1>5 DEF IInv, LaneInv
    <2>2. CASE h = g
      BY <1>3, <1>5, <2>1, <2>2 DEF TriedOn
    <2>3. CASE h # g
      BY <1>3, <1>4, <1>5, <2>1, <2>3 DEF TriedOn
    <2> QED
      BY <2>2, <2>3
  <1>6. carriers' = carriers
    <2>1. CASE ok = TRUE
      <3>1. g \in Conns /\ lanes[p][g].active = epoch
            /\ carriers' = [carriers EXCEPT ![epoch] = @ \cup {<<p, g>>}]
        BY <1>3, <2>1 DEF TriedOn
      <3>2. <<p, g>> \in carriers[epoch]
        BY <3>1 DEF IInv, LaneInv
      <3> QED
        BY <1>1, <3>1, <3>2 DEF SurroundingsTyped
    <2>2. CASE ok = FALSE
      BY <1>3, <2>2 DEF TriedOn
    <2> QED
      BY <2>1, <2>2
  <1>7. \A q \in Peers, h \in Conns : q # p => lanes'[q][h] = lanes[q][h]
    BY <1>3 DEF TriedOn
  <1>8. LaneInv'
    <2>1. ASSUME NEW q \in Peers, NEW h \in Conns, lanes'[q][h].active # 0
          PROVE  lanes'[q][h].active = epoch /\ binding'[q] = h /\ <<q, h>> \in carriers'[epoch]
      <3>1. q # p
        BY <1>5, <2>1
      <3> QED
        BY <1>2, <1>6, <1>7, <2>1, <3>1 DEF IInv, LaneInv
    <2> QED
      BY <2>1 DEF LaneInv
  <1>9. CarrierInv' /\ OneCarrierPerEpoch'
    BY <1>2, <1>6 DEF IInv, CarrierInv, OneCarrierPerEpoch
  <1> QED
    BY <1>2, <1>3, <1>8, <1>9 DEF TriedOn

\* What remains to be shown when the head is a release, and what its
\* confirmation adds.
LEMMA CompletesShown ==
    ASSUME IInv, ~Quiet, Head(outbox).type = "EmergencyReleaseAll", Completes(Tail(outbox)), OutboxInv',
           RouterInv', UNCHANGED <<alive, suppressed, published>>,
           projected' = {} \/ (projected' = projected /\ held' = held)
    PROVE  ViewInv'
  <1>1. ~IsRemote /\ IsRemote' = FALSE /\ IsRemote = FALSE
    BY CompletesLocal DEF Completes, IsRemote
  <1>2. PICK new : /\ IsList(new) /\ outbox' = new \o Tail(outbox)
                   /\ \A i \in DOMAIN new : Handback(new[i], session') /\ new[i].type # "SuppressLocalShortcuts"
                   /\ \/ session' = session /\ ~Tells(new, "LocalSessionChanged")
                      \/ session = TargetUnavailable /\ session' = LocalReady
                         /\ Tells(new, "LocalSessionChanged")
    BY DEF Completes
  <1>3. session' # BackendDegradedState => session # BackendDegradedState
    BY <1>2 DEF BackendDegradedState, TargetUnavailable, Idle
  <1>4. IsList(outbox) /\ outbox # <<>> /\ IsList(Tail(outbox))
    BY Tails DEF IInv, OutboxInv, Quiet
  <1>5. ASSUME session' # BackendDegradedState, alive'
        PROVE  /\ Settles(outbox', "SuppressLocalShortcuts", suppressed', {IsRemote'})
               /\ Settles(outbox', "LocalSessionChanged", published', Fitting')
    <2> DEFINE t == Tail(outbox)
    <2>1. /\ Settles(outbox, "SuppressLocalShortcuts", suppressed, {IsRemote})
          /\ Settles(outbox, "LocalSessionChanged", published, Fitting)
      BY <1>3, <1>5 DEF IInv, ViewInv
    <2>2. /\ Settles(t, "SuppressLocalShortcuts", suppressed, {IsRemote})
          /\ Settles(t, "LocalSessionChanged", published, Fitting)
      BY <1>4, <2>1, SettledTail
    <2> HIDE DEF t
    <2>3. Settles(new \o t, "SuppressLocalShortcuts", suppressed, {IsRemote})
      BY <1>2, <1>4, <2>2, SettledJoin DEF t
    <2>4. Fitting \subseteq Fitting' /\ session' \in Fitting'
      <3>1. session' = session \/ session = TargetUnavailable
        BY <1>2
      <3>2. \A s \in Sessions : s = session \/ s = TargetUnavailable => s = session' \/ s = TargetUnavailable
        BY <3>1
      <3>3. session' \in Sessions
        BY DEF RouterInv, RouterTypeOK
      <3> QED
        BY <1>1, <3>2, <3>3 DEF Fitting
    <2>5. Settles(t, "LocalSessionChanged", published, Fitting')
      BY <2>2, <2>4, SettledAgain
    <2>6. \A i \in DOMAIN new : new[i].type = "LocalSessionChanged" => new[i].value = session'
      BY <1>2 DEF Handback
    <2>7. Settles(new \o t, "LocalSessionChanged", published, Fitting')
      BY <1>2, <1>4, <2>4, <2>5, <2>6, SettledJoin DEF t
    <2> QED
      BY <1>1, <1>2, <2>3, <2>7 DEF t
  <1>6. ASSUME session' # BackendDegradedState PROVE Projecting' \subseteq HeldSet'
    <2>1. Projecting' = projected' /\ Projecting = projected
      BY <1>1, LocalOutbox DEF Projecting
    <2>2. projected \subseteq HeldSet
      BY <1>3, <1>6, <2>1 DEF IInv, ViewInv
    <2> QED
      BY <2>1, <2>2 DEF HeldSet
  <1> QED
    BY <1>1, <1>5, <1>6 DEF ViewInv

LEMMA DispatchEmergencyKeeps == ASSUME IInv, DispatchEmergency PROVE IInv'
  <1> DEFINE o == Head(outbox)
  <1>1. PICK p, frame, ok, t :
           /\ (ok = TRUE \/ ok = FALSE) /\ t = Tail(outbox)
           /\ ~Quiet /\ o.type = "EmergencyReleaseAll" /\ o.target = p /\ o.frame = frame
           /\ currentEpoch' = frame.epoch /\ binding' = Unbound(p)
           /\ TrySend(p, ReleaseBinding(p), frame, ok)
           /\ projected' = IF ok = TRUE THEN Project(frame) ELSE projected
           /\ \/ ReleaseAllCompleted(o.value, ok, t)
              \/ outbox' = t /\ UNCHANGED routerVars
           /\ UNCHANGED <<alive, published, suppressed, made, registry, announced, known, news>>
    <2>1. PICK ok \in BOOLEAN :
             /\ TrySend(o.target, ReleaseBinding(o.target), o.frame, ok)
             /\ projected' = IF ok THEN Project(o.frame) ELSE projected
             /\ \/ ReleaseAllCompleted(o.value, ok, Tail(outbox))
                \/ outbox' = Tail(outbox) /\ UNCHANGED routerVars
      BY DEF DispatchEmergency
    <2> QED
      BY <2>1 DEF DispatchEmergency, NextOutIs
  <1>2. Waits(t) /\ (\A i \in DOMAIN t : Sound(t[i])) /\ Sound(o)
        /\ \A q : ReleaseDue(q) =>
              q = p \/ \E i \in DOMAIN t : t[i].type = "EmergencyReleaseAll" /\ t[i].target = q
    BY <1>1, BehindHead DEF IInv
  <1>3. p \in Peers /\ frame.epoch = epoch /\ epoch # 0 /\ ~IsRemote /\ frame.kind = "ReleaseAll"
    BY <1>1, <1>2 DEF Sound, FrameTypes
  <1>4. RouterInv' /\ Completes(t) /\ (ok = FALSE => held' = held)
    <2>1. CASE ReleaseAllCompleted(o.value, ok, t)
      <3>1. ok = FALSE => held' = held
        BY <2>1 DEF ReleaseAllCompleted, Confirms, routerVars, ledgerVars
      <3> QED
        BY <1>2, <1>3, <2>1, <3>1, ReleaseAllCompletedInv, CompletedAnswers DEF IInv, Waits
    <2>2. CASE outbox' = t /\ UNCHANGED routerVars
      <3>1. ReleaseAllCompleted(None, FALSE, t) /\ held' = held
        BY <2>2 DEF ReleaseAllCompleted, Confirms, routerVars, ledgerVars
      <3> QED
        BY <1>2, <1>3, <3>1, ReleaseAllCompletedInv, CompletedAnswers DEF IInv, Waits
    <2> QED
      BY <1>1, <2>1, <2>2
  <1>5. epoch' = epoch /\ ~IsRemote'
    BY <1>4, CompletesLocal DEF Completes
  <1>6. /\ binding' \in [Peers -> 0..ConnMax] /\ lanes' \in [Peers -> [Conns -> Laned]]
        /\ carriers' \in [1..EpochMax -> SUBSET (Peers \X Conns)]
        /\ binding'[p] = 0 /\ \A q \in Peers : q # p => binding'[q] = binding[q]
        /\ LaneInv' /\ CarrierInv' /\ OneCarrierPerEpoch'
    BY <1>1, <1>3, <1>5, ReleaseTried
  <1>7. OutboxInv' /\ OwedStrictly'
    BY <1>2, <1>4, CompletesOutbox, OwedAfter DEF IInv
  <1>8. BoundInv'
    <2>1. PICK new : IsList(new) /\ outbox' = new \o t
      BY <1>4 DEF Completes
    <2>2. ASSUME NEW q \in Peers, binding'[q] # 0
          PROVE  ReleaseDue(q)' /\ binding[q] # 0
      <3>1. q # p /\ binding[q] # 0
        BY <1>6, <2>2
      <3>2. PICK i \in DOMAIN t : t[i].type = "EmergencyReleaseAll" /\ t[i].target = q
        BY <1>2, <1>3, <3>1 DEF IInv, BoundInv, Controlled
      <3>3. i + Len(new) \in DOMAIN outbox' /\ outbox'[i + Len(new)] = t[i]
        BY <1>2, <2>1, Joins DEF Waits
      <3> QED
        BY <3>1, <3>2, <3>3 DEF ReleaseDue
    <2>3. \A q : ~Controlled(q)'
      BY <1>5 DEF Controlled
    <2> QED
      BY <2>2, <2>3 DEF IInv, BoundInv
  <1>9. ViewInv'
    <2>1. projected' = {} \/ (projected' = projected /\ held' = held)
      BY <1>1, <1>3, <1>4 DEF Project
    <2> QED
      BY <1>1, <1>4, <1>7, <2>1, CompletesShown
  <1>10. SurroundingsTyped' /\ NewsTyped'
    <2>1. SurroundingsTyped /\ NewsTyped
      BY TypesJoined
    <2>2. currentEpoch' \in 0..EpochMax
      BY <1>1, <1>3, Counted DEF IInv
    <2>3. projected' \subseteq Controls
      BY <1>1, <1>3, <2>1 DEF Project, SurroundingsTyped
    <2> QED
      BY <1>1, <1>6, <2>1, <2>2, <2>3 DEF SurroundingsTyped, NewsTyped
  <1> QED
    BY <1>4, <1>6, <1>7, <1>8, <1>9, <1>10, TypesJoined DEF IInv
LEMMA DispatchKeeps == ASSUME IInv, Dispatch PROVE IInv'
  BY DispatchRealtimeKeeps, DispatchReliableKeeps, DispatchEmergencyKeeps, DispatchOwnKeeps DEF Dispatch

-----------------------------------------------------------------------------
(* The connections, and every step.                                        *)

LEMMA TypedList ==
    ASSUME NEW s, IsList(s), NEW S, \A i \in DOMAIN s : s[i] \in S
    PROVE  s \in Seq(S)
  <1>1. Len(s) \in Nat /\ s = [i \in 1..Len(s) |-> s[i]] /\ DOMAIN s = 1..Len(s)
    BY DEF IsList
  <1>2. s \in [1..Len(s) -> S]
    BY <1>1
  <1> QED
    BY <1>1, <1>2

\* A step of the network: the actor does not see it, and no lane takes up a
\* session by itself.
LEMMA NetworkKeeps ==
    ASSUME IInv, UNCHANGED <<vars, actorVars, carriers>>, SurroundingsTyped', NewsTyped',
           \A p \in Peers, g \in Conns : lanes'[p][g].active \in {0, lanes[p][g].active}
    PROVE  IInv'
  <1>1. UNCHANGED <<routerVars, session, epoch, outbox, held, nextToken, alive, binding, projected,
                    published, suppressed, carriers>>
    BY DEF vars, routerVars, ledgerVars, actorVars
  <1>2. RouterInv' /\ OwedStrictly'
    BY <1>1, RouterKept DEF IInv
  <1>3. OutboxInv' /\ BoundInv' /\ CarrierInv' /\ OneCarrierPerEpoch'
    BY <1>1 DEF IInv, OutboxInv, BoundInv, CarrierInv, OneCarrierPerEpoch, Sound, SoundReliable,
       IsRemote, Controlled, ReleaseDue, Entering, Quiet
  <1>4. LaneInv'
    BY <1>1 DEF IInv, LaneInv
  <1>5. ViewInv'
    BY <1>1 DEF IInv, ViewInv, Projecting, Project, Fitting, IsRemote, HeldSet, Quiet
  <1> QED
    BY <1>2, <1>3, <1>4, <1>5, TypesJoined DEF IInv

LEMMA PeerStepKeeps ==
    ASSUME IInv, NEW p \in Peers,
           PeerUp(p) \/ PeerDown(p) \/ ConnectedPublished(p) \/ DisconnectedPublished(p) \/ ProtocolError(p)
    PROVE  IInv'
  <1>1. SurroundingsTyped /\ NewsTyped /\ 0 \in 0..ConnMax
    BY TypesJoined, ConnMaxAssumption
  <1>2. UNCHANGED <<vars, actorVars, lanes, carriers>>
    BY DEF PeerUp, PeerDown, ConnectedPublished, DisconnectedPublished, ProtocolError, Tell
  <1>3. SurroundingsTyped'
    <2>1. made' \in [Peers -> 0..ConnMax]
      <3>1. made \in [Peers -> 0..ConnMax] /\ ConnMax \in Nat
        BY <1>1, ConnMaxAssumption DEF SurroundingsTyped
      <3>2. CASE PeerUp(p)
        <4>1. made[p] + 1 \in 0..ConnMax /\ made' = [made EXCEPT ![p] = made[p] + 1]
          BY <3>1, <3>2 DEF PeerUp
        <4> QED
          BY <3>1, <4>1
      <3>3. CASE ~PeerUp(p)
        BY <3>1, <3>3 DEF PeerDown, ConnectedPublished, DisconnectedPublished, ProtocolError, Tell
      <3> QED
        BY <3>2, <3>3
    <2>2. registry' \in [Peers -> 0..ConnMax]
      BY <1>1, <2>1
      DEF PeerUp, PeerDown, ConnectedPublished, DisconnectedPublished, ProtocolError, Tell, SurroundingsTyped
    <2>3. announced' \in [Peers -> 0..ConnMax] /\ known' \in [Peers -> 0..ConnMax]
      BY <1>1
      DEF PeerUp, PeerDown, ConnectedPublished, DisconnectedPublished, ProtocolError, Tell, SurroundingsTyped
    <2> QED
      BY <1>1, <1>2, <2>1, <2>2, <2>3 DEF SurroundingsTyped, actorVars
  <1>4. NewsTyped'
    <2>1. news' = news \/ \E up \in BOOLEAN : news' = Append(news, [peer |-> p, up |-> up])
      BY DEF PeerUp, PeerDown, ConnectedPublished, DisconnectedPublished, ProtocolError, Tell
    <2> DEFINE S == [peer : Peers, up : BOOLEAN]
    <2>2. news \in Seq(S)
      BY <1>1, TypedList DEF NewsTyped
    <2>3. news' = news \/ \E n \in S : news' = Append(news, n)
      BY <2>1
    <2> HIDE DEF S
    <2>4. news' \in Seq(S)
      BY <2>2, <2>3
    <2> QED
      BY <2>4, ListsAreSequences DEF NewsTyped, S
  <1> QED
    BY <1>2, <1>3, <1>4, NetworkKeeps

LEMMA LaneStepKeeps ==
    ASSUME IInv, NEW p \in Peers, NEW g \in Conns, ConnectionLost(p, g) \/ LaneWrites(p, g)
    PROVE  IInv'
  <1>1. SurroundingsTyped /\ NewsTyped /\ lanes \in [Peers -> [Conns -> Laned]] /\ lanes[p][g] \in Laned
    BY TypesJoined DEF SurroundingsTyped
  <1>2. UNCHANGED <<vars, actorVars, made, registry, announced, known, news, carriers>>
    BY DEF ConnectionLost, LaneWrites
  <1>3. PICK lane \in Laned : lanes' = [lanes EXCEPT ![p][g] = lane] /\ lane.active \in {0, lanes[p][g].active}
    <2>1. CASE ConnectionLost(p, g)
      <3> DEFINE lane == [lanes[p][g] EXCEPT !.lost = TRUE]
      <3>1. lane \in Laned /\ lane.active = lanes[p][g].active
        BY <1>1 DEF Laned, LaneStates
      <3>2. lanes' = [lanes EXCEPT ![p][g] = lane]
        BY <2>1 DEF ConnectionLost
      <3> QED
        BY <3>1, <3>2
    <2>2. CASE LaneWrites(p, g)
      BY <1>1, <2>2, WrittenLane DEF LaneWrites
    <2> QED
      BY <2>1, <2>2
  <1>4. lanes' \in [Peers -> [Conns -> Laned]]
        /\ \A q \in Peers, h \in Conns : lanes'[q][h].active \in {0, lanes[q][h].active}
    BY <1>1, <1>3
  <1>5. SurroundingsTyped' /\ NewsTyped'
    BY <1>1, <1>2, <1>4 DEF SurroundingsTyped, NewsTyped, actorVars
  <1> QED
    BY <1>2, <1>4, <1>5, NetworkKeeps

LEMMA IInvStep == IInv /\ [RuntimeNext]_runtimeVars => IInv'
  <1> SUFFICES ASSUME IInv, [RuntimeNext]_runtimeVars PROVE IInv'
    OBVIOUS
  <1>1. CASE Actor
    BY <1>1, HandleCommandKeeps, HandleConnectivityKeeps, IngressFaultKeeps, ChannelsClosedKeeps DEF Actor
  <1>2. CASE Dispatch
    BY <1>2, DispatchKeeps
  <1>3. CASE Network
    BY <1>3, PeerStepKeeps, LaneStepKeeps DEF Network
  <1>4. CASE UNCHANGED runtimeVars
    <2>1. UNCHANGED <<vars, actorVars, made, registry, lanes, announced, known, news, carriers>>
      BY <1>4 DEF runtimeVars, netVars, connVars
    <2>2. SurroundingsTyped' /\ NewsTyped'
      BY <2>1, TypesJoined DEF SurroundingsTyped, NewsTyped, actorVars
    <2> QED
      BY <2>1, <2>2, NetworkKeeps
  <1> QED
    BY <1>1, <1>2, <1>3, <1>4 DEF RuntimeNext

LEMMA IInvInit == RuntimeInit => IInv
  <1> SUFFICES ASSUME RuntimeInit PROVE IInv
    OBVIOUS
  <1>1. RouterInv /\ outbox = <<>> /\ session = LocalReady /\ epoch = 0 /\ pending = None /\ HeldSet = {}
    BY RouterInvInit DEF RuntimeInit, RouterInit, HeldSet
  <1>2. ~IsRemote /\ IsRemote = FALSE
    BY <1>1 DEF IsRemote, LocalReady, Idle
  <1>3. /\ alive = TRUE /\ binding = [p \in Peers |-> 0] /\ currentEpoch = 0 /\ projected = {}
        /\ published = LocalReady /\ suppressed = FALSE /\ news = <<>>
        /\ made = [p \in Peers |-> 0] /\ registry = [p \in Peers |-> 0]
        /\ announced = [p \in Peers |-> 0] /\ known = [p \in Peers |-> 0]
        /\ lanes = [p \in Peers |-> [g \in Conns |-> FreshLane]]
        /\ carriers = [e \in 1..EpochMax |-> {}]
    BY DEF RuntimeInit
  <1>4. IsList(<<>>) /\ \A i \in DOMAIN <<>> : FALSE
    BY NothingWaits DEF Waits
  <1>5. OutboxInv /\ Quiet
    BY <1>1, <1>4 DEF OutboxInv, Quiet
  <1>6. FreshLane \in Laned /\ FreshLane.active = 0 /\ 0 \in 0..ConnMax /\ 0 \in 0..EpochMax
    BY ConstantsAssumption, ConnMaxAssumption DEF FreshLane, Laned, LaneStates
  <1>7. RuntimeTypeOK /\ IsList(news)
    <2>1. published \in Sessions
      BY <1>1, <1>3 DEF RouterInv, RouterTypeOK
    <2> QED
      BY <1>1, <1>3, <1>4, <1>6, <2>1 DEF RuntimeTypeOK, RouterInv, Laned
  <1>8. OwedStrictly
    BY <1>1, <1>2 DEF OwedStrictly
  <1>9. BoundInv /\ LaneInv /\ CarrierInv /\ OneCarrierPerEpoch
    BY <1>2, <1>3, <1>6 DEF BoundInv, LaneInv, CarrierInv, OneCarrierPerEpoch, Controlled
  <1>10. ViewInv
    <2>1. published \in Fitting /\ Projecting = {}
      BY <1>1, <1>3, <1>5 DEF Fitting, RouterInv, RouterTypeOK, Projecting
    <2>2. Silent(outbox)
      BY <1>1, <1>4 DEF Silent
    <2>3. /\ Settles(outbox, "SuppressLocalShortcuts", suppressed, {IsRemote})
          /\ Settles(outbox, "LocalSessionChanged", published, Fitting)
      BY <1>2, <1>3, <2>1, <2>2, SilentSettles
    <2> QED
      BY <1>2, <2>1, <2>3 DEF ViewInv
  <1> QED
    BY <1>1, <1>5, <1>7, <1>8, <1>9, <1>10 DEF IInv

-----------------------------------------------------------------------------
(* The invariant of the actor, its outputs and its connections holds of    *)
(* every behaviour, whatever breaks and comes back in whatever order.      *)
THEOREM RuntimeInvariant == RuntimeSpec => []IInv
  BY IInvInit, IInvStep, PTL DEF RuntimeSpec

(* Every variable of the actor and of its connections keeps to its range:  *)
(* no epoch, connection number or output leaves what its type can hold.    *)
THEOREM RuntimeTypeCorrect == RuntimeSpec => []RuntimeTypeOK
  <1>1. IInv => RuntimeTypeOK
    BY DEF IInv
  <1> QED
    BY <1>1, RuntimeInvariant, PTL

(* dispatch_outputs binds a peer's connection when it enters the peer and  *)
(* lets it go with its release: when all outputs are executed, only the    *)
(* peer in control has a connection bound, and only that connection's lane *)
(* is open, to the frames of the running session.                          *)
THEOREM LanesFollow == RuntimeSpec => []LanesFollowSession
  <1>1. IInv => LanesFollowSession
    BY QuietLanes DEF LanesFollowSession
  <1> QED
    BY <1>1, RuntimeInvariant, PTL

(* try_send_reliable and try_send_realtime send the frames of a session    *)
(* over the one connection its Enter went over, never over a later one.    *)
THEOREM OneCarrier == RuntimeSpec => []OneCarrierPerEpoch
  <1>1. IInv => OneCarrierPerEpoch
    BY DEF IInv
  <1> QED
    BY <1>1, RuntimeInvariant, PTL

(* What the actor publishes agrees with the router when all outputs are    *)
(* executed, though a failed output's own outputs overtake those waiting:  *)
(* shortcuts, session state and the controls shown as held.                *)
THEOREM LocalViewFollows == RuntimeSpec => []LocalViewFollowsSession
  <1>1. IInv => LocalViewFollowsSession
    <2> SUFFICES ASSUME IInv, Quiet, session # BackendDegradedState PROVE ShortcutsFollow /\ ProjectionFollows
      BY DEF LocalViewFollowsSession
    <2>1. /\ alive => suppressed = IsRemote /\ published \in Fitting
          /\ projected \subseteq HeldSet
          /\ IsRemote /\ nextToken # TokenMax => projected = HeldSet
      BY QuietView
    <2>2. suppressed = IsRemote => (suppressed <=> IsRemote)
      OBVIOUS
    <2> QED
      BY <2>1, <2>2 DEF ShortcutsFollow, ProjectionFollows, Fitting
  <1> QED
    BY <1>1, RuntimeInvariant, PTL
-----------------------------------------------------------------------------
(* The router inside the actor.  Its handlers are called from the middle   *)
(* of a dispatch too, with outputs still waiting; what was proved of the   *)
(* router alone holds of it there.                                         *)

RouterMoves ==
    \/ \E rest :
          /\ IsList(rest)
          /\ \/ Command(rest)
             \/ \E p \in Peers : PeerConnected(p, rest) \/ PeerDisconnected(p, rest)
             \/ \E token, success : ReleaseAllCompleted(token, success, rest)
    \/ UNCHANGED routerVars

LEMMA StepMovesRouter == ASSUME IInv, [RuntimeNext]_runtimeVars PROVE RouterMoves
  <1>a. IsList(<<>>) /\ \A o : IsList(<<o>>)
    BY DEF IsList
  <1>b. ASSUME ~Quiet PROVE IsList(Tail(outbox))
    BY <1>b, Tails DEF IInv, OutboxInv, Quiet
  <1>1. CASE HandleCommand
    BY <1>a, <1>1 DEF HandleCommand, RouterMoves
  <1>2. CASE HandleConnectivity
    <2>1. Head(news).peer \in Peers
      BY <1>2, Tails DEF HandleConnectivity, IInv, RuntimeTypeOK
    <2> QED
      BY <1>a, <1>2, <2>1 DEF HandleConnectivity, RouterMoves, vars
  <1>3. CASE IngressFault
    BY <1>a, <1>3 DEF IngressFault, RouterMoves, Command
  <1>4. CASE ChannelsClosed
    BY <1>a, <1>4 DEF ChannelsClosed, RouterMoves, Command
  <1>5. CASE DispatchReliable
    BY <1>b, <1>5 DEF NextOutIs, DispatchReliable, RouterMoves, Command
  <1>6. CASE DispatchEmergency
    BY <1>b, <1>6 DEF NextOutIs, DispatchEmergency, RouterMoves
  <1>7. CASE DispatchRealtime \/ DispatchSession \/ DispatchSuppress \/ DispatchMetric
             \/ AdvanceFaultEpoch \/ Stop
    BY <1>7 DEF DispatchRealtime, DispatchSession, DispatchSuppress, DispatchMetric, AdvanceFaultEpoch,
       Stop, RouterMoves
  <1>8. CASE Network
    BY <1>8 DEF Network, PeerUp, PeerDown, ConnectedPublished, DisconnectedPublished, ProtocolError,
       ConnectionLost, LaneWrites, Tell, RouterMoves, vars
  <1>9. CASE UNCHANGED runtimeVars
    BY <1>9 DEF runtimeVars, vars, RouterMoves
  <1> QED
    BY <1>1, <1>2, <1>3, <1>4, <1>5, <1>6, <1>7, <1>8, <1>9 DEF RuntimeNext, Actor, Dispatch

LEMMA RuntimeAbstractStep == IInv /\ [RuntimeNext]_runtimeVars => [Abstract!Next]_Abstract!vars
  <1> SUFFICES ASSUME IInv, [RuntimeNext]_runtimeVars PROVE AbstractStep
    BY DEF AbstractStep
  <1>1. RouterInv /\ RouterMoves
    BY StepMovesRouter DEF IInv
  <1>2. CASE UNCHANGED routerVars
    BY <1>2, Stutter DEF AbstractStep, routerVars, countVars, ledgerVars
  <1> QED
    BY <1>1, <1>2, CommandStep, PeerConnectedStep, PeerDisconnectedStep, ReleaseAllCompletedStep
    DEF RouterMoves

(* The actor as a whole implements the abstract session: no failure of an  *)
(* output, handled while others wait, takes the session where it may not   *)
(* go or drops what is owed to a peer.                                     *)
THEOREM RuntimeImplementsSession == RuntimeSpec => ImplementsControlSession
  <1>1. RuntimeInit => Abstract!Init
    BY RefinementInit DEF RuntimeInit
  <1> QED
    BY <1>1, RuntimeInvariant, RuntimeAbstractStep, PTL
    DEF RuntimeSpec, ImplementsControlSession, Abstract!Spec

LEMMA RuntimeOwedStep == IInv /\ IInv' /\ OwedInv /\ [RuntimeNext]_runtimeVars => OwedInv'
  <1> SUFFICES ASSUME IInv, IInv', OwedInv, [RuntimeNext]_runtimeVars PROVE OwedInv'
    OBVIOUS
  <1>1. RouterInv /\ RouterInv' /\ RouterMoves
    BY StepMovesRouter DEF IInv
  <1>2. CASE UNCHANGED routerVars
    BY <1>2 DEF OwedInv, HeldIsOwed, RecoveryIsDriven, ReleaseFaulted, IsRemote, routerVars,
                routeVars, countVars, ledgerVars
  <1> QED
    BY <1>1, <1>2, CommandOwed, PeerConnectedOwed, PeerDisconnectedOwed, ReleaseAllCompletedOwed
    DEF RouterMoves

(* Nothing stays held at a peer that control left unless its release is    *)
(* owed or the release counters have run out, when the releases go over    *)
(* connections that break, are replaced and refuse them.                   *)
THEOREM RuntimeOwesHeld == RuntimeSpec => []HeldIsOwed
  <1>1. RuntimeInit => OwedInv
    BY DEF RuntimeInit, RouterInit, OwedInv, HeldIsOwed, RecoveryIsDriven, LocalReady, TargetUnavailable, Idle
  <1>2. OwedInv => HeldIsOwed
    BY DEF OwedInv
  <1> QED
    BY <1>1, <1>2, RuntimeInvariant, IInvStep, RuntimeOwedStep, PTL DEF RuntimeSpec

(* The actor sends input only to a peer that can be reached (the same, for *)
(* handlers that run in the middle of a dispatch).                         *)
THEOREM RuntimeReachesActive == RuntimeSpec => []ActiveTargetReachable
  <1>1. RuntimeInit => ReachInv
    BY BuildRoutesReachable
    DEF RuntimeInit, RouterInit, ReachInv, RoutesReachable, ActiveTargetReachable, IsRemote, LocalReady, Idle
  <1>2. IInv /\ ReachInv /\ [RuntimeNext]_runtimeVars => ReachInv'
    <2> SUFFICES ASSUME IInv, ReachInv, [RuntimeNext]_runtimeVars PROVE ReachInv'
      OBVIOUS
    <2>1. RouterInv /\ RouterMoves
      BY StepMovesRouter DEF IInv
    <2> QED
      BY <2>1, MovesReach DEF RouterMoves
  <1> QED
    BY <1>1, <1>2, RuntimeInvariant, PTL DEF RuntimeSpec, ReachInv

(* Also when a send fails while other outputs wait, the release of the     *)
(* peer that control leaves comes before the news that hand the desktop    *)
(* back (dispatch_outputs and the handlers it calls).                      *)
THEOREM RuntimeReleasesFirst == RuntimeSpec => ReleaseBeforeHandback
  <1>1. IInv /\ [RuntimeNext]_runtimeVars => [IsRemote /\ ~IsRemote' => ReleasedFirst]_vars
    <2> SUFFICES ASSUME IInv, [RuntimeNext]_runtimeVars, IsRemote, ~IsRemote' PROVE ReleasedFirst
      OBVIOUS
    <2>1. RouterMoves
      BY StepMovesRouter
    <2>2. ~UNCHANGED routerVars
      BY DEF IsRemote, routerVars
    <2>3. PICK rest : /\ IsList(rest)
                      /\ \/ Command(rest)
                         \/ \E p \in Peers : PeerConnected(p, rest) \/ PeerDisconnected(p, rest)
                         \/ \E token, success : ReleaseAllCompleted(token, success, rest)
      BY <2>1, <2>2 DEF RouterMoves
    <2>4. PICK T : rest \in Seq(T)
      BY <2>3, ListsAreSequences
    <2> QED
      BY <2>3, <2>4, MovesRelease
  <1>2. RuntimeSpec => [][IsRemote /\ ~IsRemote' => ReleasedFirst]_vars
    BY <1>1, RuntimeInvariant, PTL DEF RuntimeSpec
  <1> QED
    BY <1>2 DEF ReleaseBeforeHandback, ReleasedFirst
=============================================================================
