----------------------- MODULE ConnectionManagerProofs -----------------------
(***************************************************************************)
(* Proofs about ConnectionManager, for every capacity of its two channels  *)
(* and every number of generations and approvals.                          *)
(*                                                                         *)
(* The tables agree (TablesAgree) by TableInv, which adds that generations *)
(* only grow, that a generation which is being removed is not the current  *)
(* one, and that one which is not installed has done nothing; a channel    *)
(* keeps its capacity by RoomInv, which counts the places promised in it.  *)
(*                                                                         *)
(* The order of the events (EventsInOrder) and what the daemon knows at    *)
(* rest (DaemonAgrees) are two sides of one invariant, LifeAndKnown: at    *)
(* any time at most one party has the end of a generation to announce      *)
(* (Exclusive), and it has not been announced before (LifeInv); of a       *)
(* generation that was current, either it still is, or its end is to be    *)
(* announced, or it was (KnownInv).  The two channels and the forwarder's  *)
(* hand are one sequence, Path, which only grows at one end and shrinks at *)
(* the other.                                                              *)
(***************************************************************************)
EXTENDS ConnectionManager, FiniteSetTheorems, TLAPS

Sent == {Other} \cup [type : {"Connected", "Disconnected", "Frame"}, gen : Gens]
Told(t) == {Nothing, Other} \cup (IF t = "ipc" THEN {Disconnected(g) : g \in Gens} ELSE {})
TaskSteps == {"idle", "connect", "disconnect", "dial", "complete", "install", "send"}
TaskRecords == [at : TaskSteps, approval : 0 .. ApprovalMax, event : Events]
PublisherRecords ==
    {p \in [at : {"stale", "reserve", "permit", "end"}, stale : Ids] : p.at = "stale" => p.stale # 0}

TableTypes ==
    /\ canonical \in Ids /\ pool \in Ids /\ registry \in Ids
    /\ next \in 1 .. GenMax + 1 /\ live \subseteq Gens

TaskTypes ==
    /\ publication \in [Gens -> {"pending", "connected", "cancelled"}]
    /\ publisher \in [Gens -> PublisherRecords]
    /\ frames \in [Gens -> {"read", "permit", "end"}]
    /\ reader \in [Gens -> {"read", "remove", "announce", "end"}]

ChannelTypes ==
    /\ events \in Seq(Sent) /\ network \in Seq(Sent) /\ hand \in Sent \cup {Nothing}
    /\ Len(network) <= NetworkCapacity

DaemonTypes ==
    /\ known \in Ids /\ heard \in Ids /\ ended \subseteq Gens
    /\ loop \in {"recv", "lock"} /\ overwritten \in BOOLEAN

CallerTypes ==
    /\ task \in [Callers -> TaskRecords]
    /\ \A t \in Callers : /\ task[t].event \in Told(t)
                          /\ task[t].at = "send" => task[t].event # Nothing
    /\ approval \in [Approvals -> {"none", "asked", "approved", "used", "gone"}]
    /\ trusted \in BOOLEAN

Types == TableTypes /\ TaskTypes /\ ChannelTypes /\ DaemonTypes /\ CallerTypes

-----------------------------------------------------------------------------
LEMMA Bounds ==
    /\ EventCapacity \in Nat /\ NetworkCapacity \in Nat /\ GenMax \in Nat /\ ApprovalMax \in Nat
    /\ EventCapacity > 0 /\ NetworkCapacity > 0 /\ GenMax > 0 /\ ApprovalMax > 0
  BY ManagerAssumption

LEMMA TypesInit == Init => Types
  <1>1. Idle \in TaskRecords /\ Idle.event = Nothing /\ Idle.at = "idle"
    BY Bounds DEF Idle, TaskRecords, TaskSteps, Nothing, Events, Ids
  <1>2. NoPublisher \in PublisherRecords
    BY Bounds DEF NoPublisher, PublisherRecords, Ids
  <1>3. Init => TableTypes /\ TaskTypes /\ ChannelTypes
    BY Bounds, <1>2 DEF Init, TableTypes, TaskTypes, ChannelTypes, Ids
  <1>4. Init => DaemonTypes /\ CallerTypes
    <2>1. Init => DaemonTypes
      <3>1. 0 \in Ids
        BY Bounds DEF Ids
      <3> QED
        BY <3>1, ZenonT(60), SMTT(60) DEF Init, DaemonTypes
    <2>2. Init => task = [t \in Callers |-> Idle] /\ trusted \in BOOLEAN
                  /\ approval = [a \in Approvals |-> "none"]
      BY DEF Init
    <2>3. Init => CallerTypes
      BY <1>1, <2>2 DEF CallerTypes, Told
    <2> QED
      BY <2>1, <2>3
  <1> QED
    BY <1>3, <1>4 DEF Types

LEMMA TableTypesStep == Types /\ [Next]_vars => TableTypes'
  <1> SUFFICES ASSUME Types, [Next]_vars PROVE TableTypes'
    OBVIOUS
  <1> USE Bounds DEF Types, TableTypes, Ids, Gens
  <1>1. CASE UNCHANGED tables
    BY <1>1 DEF tables
  <1>2. ASSUME NEW t, Install(t) PROVE TableTypes'
    <2>1. CASE UNCHANGED tables
      BY <1>1, <2>1
    <2>2. ASSUME NEW stale, NewGeneration(stale) PROVE TableTypes'
      <3>1. next \in Gens /\ next + 1 \in 1 .. GenMax + 1
        BY <2>2 DEF NewGeneration
      <3> QED
        BY <2>2, <3>1 DEF NewGeneration
    <2> QED
      BY <1>2, <2>1, <2>2 DEF Install
  <1>3. ASSUME Disconnect PROVE TableTypes'
    <2>1. 0 \in Ids
      OBVIOUS
    <2> QED
      BY <1>3, <2>1 DEF Disconnect
  <1>4. ASSUME NEW g \in Gens, Lose(g) \/ Retire(g) \/ Remove(g) PROVE TableTypes'
    <2>1. 0 \in Ids
      OBVIOUS
    <2>2. Lose(g) => TableTypes'
      BY DEF Lose
    <2>3. Retire(g) => TableTypes'
      BY <2>1 DEF Retire
    <2>4. Remove(g) => TableTypes'
      BY <2>1 DEF Remove
    <2> QED
      BY <1>4, <2>2, <2>3, <2>4
  <1>5. ASSUME NEW t, BeginConnect(t) \/ Dial(t) \/ Commit(t) \/ Report(t) PROVE UNCHANGED tables
    BY <1>5 DEF BeginConnect, Dial, Commit, Report
  <1>6. ASSUME NEW g, PublisherTask(g) \/ FramesTask(g) \/ Announce(g) PROVE UNCHANGED tables
    BY <1>6 DEF PublisherTask, SendStale, ReservePlace, Publish, FramesTask, TakeFrame, SendFrame,
                Announce
  <1>7. ASSUME NEW a, Decide(a, "approved") \/ Decide(a, "gone") \/ Expire(a) PROVE UNCHANGED tables
    BY <1>7 DEF Decide, Expire
  <1>8. ASSUME NEW what, Ask(what) PROVE UNCHANGED tables
    BY <1>8 DEF Ask
  <1>9. Incoming \/ CompleteFails \/ OtherPeers \/ Forward \/ Handle \/ TakeOuter \/ UNCHANGED vars
        => UNCHANGED tables
    BY DEF Incoming, CompleteFails, OtherPeers, Forward, Handle, TakeOuter, vars
  <1> QED
    BY <1>1, <1>2, <1>3, <1>4, <1>5, <1>6, <1>7, <1>8, <1>9 DEF Next, Caller, ReaderTask

LEMMA TaskTypesStep == Types /\ [Next]_vars => TaskTypes'
  <1> SUFFICES ASSUME Types, [Next]_vars PROVE TaskTypes'
    OBVIOUS
  <1> USE Bounds DEF Types, TaskTypes
  <1>1. CASE UNCHANGED tasks
    BY <1>1 DEF tasks
  <1>2. ASSUME NEW t, Install(t) PROVE TaskTypes'
    <2>1. CASE UNCHANGED tasks
      BY <1>1, <2>1
    <2>2. ASSUME NEW stale \in Ids, NewGeneration(stale), publication' \in {publication, Cancel(canonical)}
          PROVE  TaskTypes'
      <3>1. next \in Gens
        BY <2>2 DEF NewGeneration, TableTypes, Gens
      <3>2. publication' \in [Gens -> {"pending", "connected", "cancelled"}]
        BY <2>2 DEF Cancel
      <3>3. [at |-> IF stale = 0 THEN "reserve" ELSE "stale", stale |-> stale] \in PublisherRecords
        BY <2>2 DEF PublisherRecords
      <3> QED
        BY <2>2, <3>1, <3>2, <3>3 DEF NewGeneration
    <2>3. canonical \in Ids /\ 0 \in Ids
      BY DEF TableTypes, Ids
    <2> QED
      BY <1>2, <2>1, <2>2, <2>3 DEF Install
  <1>3. ASSUME Disconnect PROVE TaskTypes'
    BY <1>3 DEF Disconnect, Cancel
  <1>4. ASSUME NEW g \in Gens, PublisherTask(g) PROVE TaskTypes'
    <2>1. \A at \in {"reserve", "permit", "end"} : [publisher EXCEPT ![g].at = at] \in [Gens -> PublisherRecords]
      <3> SUFFICES ASSUME NEW at \in {"reserve", "permit", "end"}
                   PROVE  [publisher EXCEPT ![g].at = at] \in [Gens -> PublisherRecords]
        OBVIOUS
      <3>1. [publisher[g] EXCEPT !.at = at] \in PublisherRecords
        BY DEF PublisherRecords
      <3> QED
        BY <3>1
    <2> QED
      BY <1>4, <2>1 DEF PublisherTask, PublisherAt, SendStale, ReservePlace, Publish
  <1>5. ASSUME NEW g \in Gens, FramesTask(g) \/ ReaderTask(g) PROVE TaskTypes'
    BY <1>5 DEF FramesTask, TakeFrame, SendFrame, ReaderTask, Retire, Remove, Announce, Cancel
  <1>6. ASSUME NEW t, BeginConnect(t) \/ Dial(t) \/ Commit(t) \/ Report(t) PROVE UNCHANGED tasks
    BY <1>6 DEF BeginConnect, Dial, Commit, Report
  <1>7. ASSUME NEW a, Decide(a, "approved") \/ Decide(a, "gone") \/ Expire(a) PROVE UNCHANGED tasks
    BY <1>7 DEF Decide, Expire
  <1>8. ASSUME NEW what, Ask(what) PROVE UNCHANGED tasks
    BY <1>8 DEF Ask
  <1>9. ASSUME NEW g, Lose(g) PROVE UNCHANGED tasks
    BY <1>9 DEF Lose
  <1>10. Incoming \/ CompleteFails \/ OtherPeers \/ Forward \/ Handle \/ TakeOuter \/ UNCHANGED vars
         => UNCHANGED tasks
    BY DEF Incoming, CompleteFails, OtherPeers, Forward, Handle, TakeOuter, vars
  <1> QED
    BY <1>1, <1>2, <1>3, <1>4, <1>5, <1>6, <1>7, <1>8, <1>9, <1>10 DEF Next, Caller

\* Steps that leave the channels alone, and those of callers and tasks that do not.
LEMMA QuietChannels ==
    ASSUME \/ \E t \in Callers : BeginConnect(t) \/ Dial(t) \/ Commit(t) \/ Install(t)
           \/ \E what \in {"connect", "disconnect"} : Ask(what)
           \/ Incoming \/ CompleteFails \/ Disconnect \/ TakeOuter
           \/ \E a \in Approvals : Decide(a, "approved") \/ Decide(a, "gone") \/ Expire(a)
           \/ \E g \in Gens : Lose(g) \/ ReservePlace(g) \/ TakeFrame(g) \/ Retire(g) \/ Remove(g)
    PROVE  UNCHANGED channels
  BY DEF BeginConnect, Dial, Commit, Install, Ask, Incoming, CompleteFails, Disconnect, TakeOuter,
         Decide, Expire, Lose, ReservePlace, TakeFrame, Retire, Remove

LEMMA ToldSent ==
    ASSUME Types, NEW t \in Callers, task[t].at = "send"
    PROVE  task[t].event \in Sent
  <1>1. Other \in Sent /\ \A g \in Gens : Disconnected(g) \in Sent
    BY DEF Disconnected, Sent
  <1> QED
    BY <1>1 DEF Types, CallerTypes, Told

LEMMA ChannelTypesStep == Types /\ [Next]_vars => ChannelTypes'
  <1> SUFFICES ASSUME Types, [Next]_vars PROVE ChannelTypes'
    OBVIOUS
  <1> USE Bounds DEF Types, ChannelTypes
  <1>1. CASE UNCHANGED channels
    BY <1>1 DEF channels
  <1>2. ASSUME NEW e \in Sent, events' = Append(events, e), UNCHANGED <<hand, network>>
        PROVE  ChannelTypes'
    BY <1>2
  <1>3. ASSUME NEW t \in Callers, Report(t) PROVE ChannelTypes'
    BY <1>2, <1>3, ToldSent DEF Report, Send
  <1>4. ASSUME OtherPeers PROVE ChannelTypes'
    <2>1. Other \in Sent
      BY DEF Sent
    <2> QED
      BY <1>2, <1>4, <2>1 DEF OtherPeers, Send
  <1>5. \A g \in Gens : Connected(g) \in Sent /\ Disconnected(g) \in Sent /\ Frame(g) \in Sent
    BY DEF Connected, Disconnected, Frame, Sent
  <1>6. ASSUME NEW g \in Gens, SendStale(g) \/ Publish(g) \/ SendFrame(g) \/ Announce(g)
        PROVE  ChannelTypes'
    <2>1. publisher[g].at = "stale" => publisher[g].stale \in Gens
      BY DEF TaskTypes, PublisherRecords, Ids, Gens
    <2>2. /\ publisher[g].at = "stale" => Disconnected(publisher[g].stale) \in Sent
          /\ Connected(g) \in Sent /\ Frame(g) \in Sent /\ Disconnected(g) \in Sent
      BY <1>5, <2>1
    <2>3. UNCHANGED <<hand, network>>
      BY <1>6 DEF SendStale, Publish, SendFrame, Announce
    <2>4. \/ UNCHANGED events
          \/ \E e \in {Connected(g), Frame(g), Disconnected(g)} : events' = Append(events, e)
          \/ publisher[g].at = "stale" /\ events' = Append(events, Disconnected(publisher[g].stale))
      BY <1>6 DEF SendStale, Publish, SendFrame, Announce, Send
    <2> QED
      BY <1>1, <1>2, <2>2, <2>3, <2>4 DEF channels
  <1>7. ASSUME Forward PROVE ChannelTypes'
    <2>1. CASE hand = Nothing /\ events # <<>> /\ hand' = Head(events) /\ events' = Tail(events)
               /\ UNCHANGED network
      BY <2>1
    <2>2. CASE hand # Nothing /\ Len(network) < NetworkCapacity
               /\ network' = Append(network, hand) /\ hand' = Nothing /\ UNCHANGED events
      BY <2>2
    <2> QED
      BY <1>7, <2>1, <2>2 DEF Forward
  <1>8. ASSUME Handle PROVE ChannelTypes'
    BY <1>8 DEF Handle
  <1> QED
    BY <1>1, <1>3, <1>4, <1>6, <1>7, <1>8, QuietChannels
    DEF Next, Caller, PublisherTask, FramesTask, ReaderTask, vars

LEMMA DaemonTypesStep == Types /\ [Next]_vars => DaemonTypes'
  <1> SUFFICES ASSUME Types, [Next]_vars PROVE DaemonTypes'
    OBVIOUS
  <1> USE DEF Types, DaemonTypes
  <1>1. ASSUME UNCHANGED <<known, heard, ended>>, loop' \in {"recv", "lock"}, overwritten' \in BOOLEAN
        PROVE  DaemonTypes'
    BY <1>1
  <1>2. ASSUME Handle PROVE DaemonTypes'
    <2>1. Head(network) \in Sent
      BY <1>2 DEF Handle, ChannelTypes
    <2>2. /\ Head(network).gen \in Ids /\ 0 \in Ids
          /\ Head(network).type = "Disconnected" => Head(network).gen \in Gens
      BY <2>1, Bounds DEF Sent, Ids, Gens, Other
    <2>3. known' \in {Head(network).gen, 0, known}
      BY <1>2, <2>1 DEF Handle, Sent, Other
    <2>4. /\ heard' \in {Head(network).gen, heard}
          /\ ended' = IF Head(network).type = "Disconnected" THEN ended \cup {Head(network).gen} ELSE ended
      BY <1>2 DEF Handle
    <2>5. loop' \in {"recv", "lock"}
      BY <1>2, <2>1 DEF Handle, Sent, Other
    <2>6. UNCHANGED overwritten
      BY <1>2 DEF Handle
    <2> QED
      BY <2>2, <2>3, <2>4, <2>5, <2>6
  <1>3. ASSUME NEW t, Install(t) PROVE DaemonTypes'
    <2>1. UNCHANGED daemon /\ overwritten' \in BOOLEAN
      BY <1>3 DEF Install
    <2> QED
      BY <1>1, <2>1 DEF daemon
  <1>4. ASSUME TakeOuter PROVE DaemonTypes'
    BY <1>4 DEF TakeOuter
  <1>5. \/ \E t \in Callers : BeginConnect(t) \/ Dial(t) \/ Commit(t) \/ Report(t)
        \/ \E what \in {"connect", "disconnect"} : Ask(what)
        \/ Incoming \/ CompleteFails \/ Disconnect \/ OtherPeers \/ Forward \/ UNCHANGED vars
        \/ \E a \in Approvals : Decide(a, "approved") \/ Decide(a, "gone") \/ Expire(a)
        \/ \E g \in Gens : Lose(g) \/ PublisherTask(g) \/ FramesTask(g) \/ ReaderTask(g)
        => UNCHANGED <<daemon, overwritten>>
    BY DEF BeginConnect, Dial, Commit, Report, Ask, Incoming, CompleteFails, Disconnect, OtherPeers,
           Forward, Decide, Expire, Lose, PublisherTask, SendStale, ReservePlace, Publish, FramesTask,
           TakeFrame, SendFrame, ReaderTask, Retire, Remove, Announce, vars
  <1> QED
    BY <1>1, <1>2, <1>3, <1>4, <1>5 DEF Next, Caller, daemon

\* What a caller may become.
CallerRecord(t, r) == r \in TaskRecords /\ r.event \in Told(t) /\ (r.at = "send" => r.event # Nothing)

LEMMA CallerRecords ==
    ASSUME Types, NEW t \in Callers
    PROVE  /\ CallerRecord(t, task[t]) /\ CallerRecord(t, Idle) /\ CallerRecord(t, Sending(Other))
           /\ \A at \in TaskSteps \ {"send"} : CallerRecord(t, Step(t, at))
           /\ \A at \in TaskSteps \ {"send"}, a \in 0 .. ApprovalMax :
                 CallerRecord(t, [Step(t, at) EXCEPT !.approval = a])
           /\ \A g \in Gens : CallerRecord("ipc", Sending(Disconnected(g)))
  <1> USE Bounds
  <1>1. Nothing \in Events /\ Other \in Events /\ \A g \in Gens : Disconnected(g) \in Events
    BY DEF Nothing, Other, Disconnected, Events, Ids, Gens
  <1>2. Other # Nothing /\ \A g \in Gens : Disconnected(g) # Nothing
    BY DEF Nothing, Other, Disconnected
  <1>3. task[t] \in TaskRecords /\ task[t].event \in Told(t)
    BY DEF Types, CallerTypes
  <1>4. CallerRecord(t, task[t])
    BY DEF Types, CallerTypes, CallerRecord
  <1>5. Idle \in TaskRecords /\ Idle.event = Nothing /\ Idle.at = "idle"
    BY <1>1 DEF Idle, TaskRecords, TaskSteps
  <1>6. CallerRecord(t, Idle)
    BY <1>5 DEF CallerRecord, Told
  <1>7. \A e \in Events : /\ Sending(e) \in TaskRecords /\ Sending(e).event = e
                          /\ Sending(e).at = "send"
    BY <1>5 DEF Sending, TaskRecords, TaskSteps
  <1>8. CallerRecord(t, Sending(Other)) /\ \A g \in Gens : CallerRecord("ipc", Sending(Disconnected(g)))
    BY <1>1, <1>2, <1>7 DEF CallerRecord, Told
  <1>9. \A at \in TaskSteps \ {"send"} : /\ Step(t, at) \in TaskRecords /\ Step(t, at).at = at
                                         /\ Step(t, at).event = task[t].event
    BY <1>3 DEF Step, TaskRecords
  <1>10. \A at \in TaskSteps \ {"send"}, a \in 0 .. ApprovalMax :
            LET r == [Step(t, at) EXCEPT !.approval = a]
            IN  r \in TaskRecords /\ r.at = at /\ r.event = task[t].event
    BY <1>9 DEF TaskRecords
  <1> QED
    BY <1>3, <1>4, <1>6, <1>8, <1>9, <1>10 DEF CallerRecord

LEMMA CallerTypesStep == Types /\ [Next]_vars => CallerTypes'
  <1> SUFFICES ASSUME Types, [Next]_vars PROVE CallerTypes'
    OBVIOUS
  <1> DEFINE Trust == /\ approval' \in [Approvals -> {"none", "asked", "approved", "used", "gone"}]
                      /\ trusted' \in BOOLEAN
  <1>1. ASSUME NEW t \in Callers, NEW r, CallerRecord(t, r), Become(t, r), Trust PROVE CallerTypes'
    <2>1. task' = [task EXCEPT ![t] = r] /\ task \in [Callers -> TaskRecords]
      BY <1>1 DEF Become, Types, CallerTypes
    <2>2. \A u \in Callers : CallerRecord(u, task'[u])
      BY <1>1, <2>1, CallerRecords DEF CallerRecord
    <2> QED
      BY <1>1, <2>1, <2>2 DEF CallerTypes, CallerRecord
  <1>2. ASSUME UNCHANGED task, Trust PROVE CallerTypes'
    BY <1>2 DEF Types, CallerTypes
  <1>3. UNCHANGED <<approval, trusted>> => Trust
    BY DEF Types, CallerTypes
  <1>4. Observe /\ UNCHANGED trusted => Trust
    BY DEF Observe, Fate, Types, CallerTypes
  <1>5. ASSUME NEW a \in Approvals, NEW fate \in {"used", "approved", "gone"}, Fate(a, fate),
               UNCHANGED trusted \/ trusted' = TRUE
        PROVE  Trust
    BY <1>5 DEF Fate, Types, CallerTypes
  <1> HIDE DEF Trust
  <1>6. ASSUME NEW t \in Callers, Caller(t) PROVE CallerTypes'
    <2>1. CASE BeginConnect(t)
      <3>1. UNCHANGED <<approval, trusted>>
        BY <2>1 DEF BeginConnect, trust
      <3>2. 0 \in 0 .. ApprovalMax /\ \A a \in Standing : a \in 0 .. ApprovalMax
        BY Bounds DEF Standing, Approvals
      <3>3. \/ Become(t, Idle)
            \/ \E a \in 0 .. ApprovalMax : Become(t, [Step(t, "dial") EXCEPT !.approval = a])
        BY <2>1, <3>2 DEF BeginConnect
      <3>4. "dial" \in TaskSteps \ {"send"}
        BY DEF TaskSteps
      <3> QED
        BY <1>1, <1>3, <3>1, <3>3, <3>4, CallerRecords
    <2>2. CASE Dial(t)
      <3>1. Trust
        BY <1>3, <1>4, <2>2 DEF Dial
      <3>2. Become(t, Sending(Other)) \/ Become(t, Idle) \/ Become(t, Step(t, "complete"))
        BY <2>2 DEF Dial
      <3> QED
        BY <1>1, <3>1, <3>2, CallerRecords DEF TaskSteps
    <2>3. CASE Commit(t)
      <3>1. Trust
        BY <1>3, <1>5, <2>3 DEF Commit, trust, Standing
      <3>2. Become(t, Sending(Other)) \/ Become(t, Idle) \/ Become(t, Step(t, "install"))
        BY <2>3 DEF Commit, Refused
      <3> QED
        BY <1>1, <3>1, <3>2, CallerRecords DEF TaskSteps
    <2>4. CASE Install(t) \/ Report(t)
      <3>1. UNCHANGED <<approval, trusted>> /\ Become(t, Idle)
        BY <2>4 DEF Install, Report, trust
      <3> QED
        BY <1>1, <1>3, <3>1, CallerRecords
    <2> QED
      BY <1>6, <2>1, <2>2, <2>3, <2>4 DEF Caller
  <1>7. ASSUME NEW what \in {"connect", "disconnect"}, Ask(what) PROVE CallerTypes'
    <2>1. UNCHANGED <<approval, trusted>> /\ Become("ipc", Step("ipc", what)) /\ "ipc" \in Callers
      BY <1>7 DEF Ask, trust, Callers
    <2> QED
      BY <1>1, <1>3, <2>1, CallerRecords DEF TaskSteps
  <1>8. ASSUME Incoming PROVE CallerTypes'
    <2>1. "accept" \in Callers /\ "complete" \in TaskSteps \ {"send"}
      BY DEF Callers, TaskSteps
    <2>2. CASE trusted \/ Standing # {}
      <3>1. 0 \in 0 .. ApprovalMax /\ \A a \in Standing : a \in 0 .. ApprovalMax
        BY Bounds DEF Standing, Approvals
      <3>2. /\ \E a \in 0 .. ApprovalMax :
                   Become("accept", [Step("accept", "complete") EXCEPT !.approval = a])
            /\ UNCHANGED <<approval, trusted>>
        BY <1>8, <2>2, <3>1 DEF Incoming
      <3> QED
        BY <1>1, <1>3, <2>1, <3>2, CallerRecords
    <2>3. CASE ~(trusted \/ Standing # {})
      BY <1>2, <1>4, <1>8, <2>3 DEF Incoming
    <2> QED
      BY <2>2, <2>3
  <1>9. ASSUME CompleteFails PROVE CallerTypes'
    <2>1. UNCHANGED <<approval, trusted>> /\ Become("accept", Idle) /\ "accept" \in Callers
      BY <1>9 DEF CompleteFails, trust, Callers
    <2> QED
      BY <1>1, <1>3, <2>1, CallerRecords
  <1>10. ASSUME Disconnect PROVE CallerTypes'
    <2>1. UNCHANGED <<approval, trusted>> /\ "ipc" \in Callers
      BY <1>10 DEF Disconnect, trust, Callers
    <2>2. Become("ipc", IF canonical = 0 THEN Idle ELSE Sending(Disconnected(canonical)))
      BY <1>10 DEF Disconnect
    <2>3. canonical # 0 => canonical \in Gens
      BY Bounds DEF Types, TableTypes, Ids, Gens
    <2> QED
      BY <1>1, <1>3, <2>1, <2>2, <2>3, CallerRecords
  <1>11. ASSUME NEW a \in Approvals, Decide(a, "approved") \/ Decide(a, "gone") \/ Expire(a)
         PROVE  CallerTypes'
    BY <1>2, <1>5, <1>11 DEF Decide, Expire
  <1>12. \/ OtherPeers \/ Forward \/ Handle \/ TakeOuter \/ UNCHANGED vars
         \/ \E g \in Gens : Lose(g) \/ PublisherTask(g) \/ FramesTask(g) \/ ReaderTask(g)
         => UNCHANGED <<task, approval, trusted>>
    BY DEF OtherPeers, Forward, Handle, TakeOuter, Lose, PublisherTask, SendStale, ReservePlace, Publish,
           FramesTask, TakeFrame, SendFrame, ReaderTask, Retire, Remove, Announce, vars, trust
  <1> QED
    BY <1>2, <1>3, <1>6, <1>7, <1>8, <1>9, <1>10, <1>11, <1>12 DEF Next

LEMMA TypesStep == Types /\ [Next]_vars => Types'
  BY TableTypesStep, TaskTypesStep, ChannelTypesStep, DaemonTypesStep, CallerTypesStep DEF Types

-----------------------------------------------------------------------------
(* The tables.                                                             *)

Fresh(g) == /\ publication[g] = "pending" /\ publisher[g] = NoPublisher
            /\ frames[g] = "end" /\ reader[g] = "end"

\* Generations grow, a retired one is not current, and one that is not
\* installed has done nothing.
TableInv ==
    /\ canonical \in {0, next - 1} /\ pool < next /\ registry < next
    /\ \A g \in live : g < next
    /\ canonical # 0 => registry = canonical /\ pool = canonical
    /\ PoolUp => canonical = pool
    /\ \A g \in Gens : next <= g => Fresh(g)
    /\ \A g \in Gens : reader[g] \in {"remove", "announce"} => canonical # g

LEMMA InstallTables ==
    ASSUME Types, TableInv, NEW stale, NewGeneration(stale), ~PoolUp,
           publication' \in {publication, Cancel(canonical)}
    PROVE  TableInv'
  <1> USE Bounds DEF Types, TableTypes, TaskTypes, TableInv
  <1>1. /\ next \in Gens /\ next' = next + 1 /\ next \in Nat
        /\ canonical' = next /\ pool' = next /\ registry' = next
        /\ live' = live \cup {next}
    BY DEF NewGeneration, Gens
  <1>2. \A g \in Gens : g # next => /\ publisher'[g] = publisher[g] /\ frames'[g] = frames[g]
                                    /\ reader'[g] = reader[g]
    BY DEF NewGeneration
  <1>3. reader'[next] = "read"
    BY <1>1 DEF NewGeneration
  <1>4. \A g \in Gens : g # canonical => publication'[g] = publication[g]
    BY DEF Cancel
  <1>5. \A g \in Gens : next' <= g => g # next /\ g # canonical /\ next <= g
    BY <1>1 DEF Gens
  <1>6. \A g \in Gens : next' <= g => Fresh(g)'
    BY <1>2, <1>4, <1>5 DEF Fresh
  <1>7. \A g \in Gens : reader'[g] \in {"remove", "announce"} => canonical' # g
    BY <1>1, <1>3
  <1>8. \A g \in live' : g < next'
    BY <1>1 DEF Gens
  <1> QED
    BY <1>1, <1>6, <1>7, <1>8 DEF PoolUp

LEMMA TableInvStep == Types /\ TableInv /\ [Next]_vars => TableInv'
  <1> SUFFICES ASSUME Types, TableInv, [Next]_vars PROVE TableInv'
    OBVIOUS
  <1> USE Bounds DEF Types, TableTypes, TaskTypes
  <1>1. ASSUME UNCHANGED <<tables, tasks>> PROVE TableInv'
    BY <1>1 DEF TableInv, PoolUp, Fresh, tables, tasks
  <1>2. ASSUME NEW t, Install(t) PROVE TableInv'
    BY <1>1, <1>2, InstallTables DEF Install
  <1>3. ASSUME Disconnect PROVE TableInv'
    <2>1. /\ canonical' = 0 /\ pool' = 0 /\ live' = live \ {pool}
          /\ registry' \in {registry, 0} /\ UNCHANGED <<next, publisher, frames, reader>>
          /\ publication' = Cancel(canonical)
      BY <1>3 DEF Disconnect
    <2>2. \A g \in Gens : g # canonical => publication'[g] = publication[g]
      BY <2>1 DEF Cancel
    <2>3. \A g \in Gens : next <= g => g # canonical
      BY DEF TableInv, Gens
    <2>4. \A g \in Gens : next' <= g => Fresh(g)'
      BY <2>1, <2>2, <2>3 DEF TableInv, Fresh
    <2> QED
      BY <2>1, <2>4 DEF TableInv, PoolUp, Gens
  <1>4. ASSUME NEW g \in Gens, Lose(g) PROVE TableInv'
    BY <1>4 DEF Lose, TableInv, PoolUp, Fresh, tasks
  <1>5. ASSUME NEW g \in Gens, PublisherTask(g) PROVE TableInv'
    <2>1. g < next
      <3>1. publisher[g].at # "end"
        BY <1>5 DEF PublisherTask, SendStale, ReservePlace, Publish
      <3> QED
        BY <3>1 DEF TableInv, Fresh, NoPublisher, Gens
    <2>2. /\ UNCHANGED <<tables, frames, reader>>
          /\ \A h \in Gens : h # g => publisher'[h] = publisher[h] /\ publication'[h] = publication[h]
      BY <1>5 DEF PublisherTask, SendStale, ReservePlace, Publish, PublisherAt
    <2>3. \A h \in Gens : next' <= h => Fresh(h)'
      BY <2>1, <2>2 DEF TableInv, Fresh, tables, Gens
    <2> QED
      BY <2>2, <2>3 DEF TableInv, PoolUp, tables
  <1>6. ASSUME NEW g \in Gens, FramesTask(g) PROVE TableInv'
    <2>1. g < next
      <3>1. frames[g] # "end"
        BY <1>6 DEF FramesTask, TakeFrame, SendFrame
      <3> QED
        BY <3>1 DEF TableInv, Fresh, Gens
    <2>2. /\ UNCHANGED <<tables, publisher, publication, reader>>
          /\ \A h \in Gens : h # g => frames'[h] = frames[h]
      BY <1>6 DEF FramesTask, TakeFrame, SendFrame
    <2>3. \A h \in Gens : next' <= h => Fresh(h)'
      BY <2>1, <2>2 DEF TableInv, Fresh, tables, Gens
    <2> QED
      BY <2>2, <2>3 DEF TableInv, PoolUp, tables
  <1>7. ASSUME NEW g \in Gens, ReaderTask(g) PROVE TableInv'
    <2>1. g < next
      <3>1. reader[g] # "end"
        BY <1>7 DEF ReaderTask, Retire, Remove, Announce
      <3> QED
        BY <3>1 DEF TableInv, Fresh, Gens
    <2>2. /\ UNCHANGED <<next, live, publisher, frames>>
          /\ \A h \in Gens : h # g => reader'[h] = reader[h] /\ publication'[h] = publication[h]
      BY <1>7 DEF ReaderTask, Retire, Remove, Announce, Cancel, tables
    <2>3. \A h \in Gens : next' <= h => Fresh(h)'
      BY <2>1, <2>2 DEF TableInv, Fresh, Gens
    <2>4. CASE Retire(g)
      BY <2>2, <2>3, <2>4 DEF Retire, TableInv, PoolUp, Gens
    <2>5. CASE Remove(g)
      BY <2>2, <2>3, <2>5 DEF Remove, TableInv, PoolUp, Gens
    <2>6. CASE Announce(g)
      BY <2>2, <2>3, <2>6 DEF Announce, TableInv, PoolUp, tables
    <2> QED
      BY <1>7, <2>4, <2>5, <2>6 DEF ReaderTask
  <1>8. \/ \E t \in Callers : BeginConnect(t) \/ Dial(t) \/ Commit(t) \/ Report(t)
        \/ \E what \in {"connect", "disconnect"} : Ask(what)
        \/ Incoming \/ CompleteFails \/ OtherPeers \/ Forward \/ Handle \/ TakeOuter \/ UNCHANGED vars
        \/ \E a \in Approvals : Decide(a, "approved") \/ Decide(a, "gone") \/ Expire(a)
        => UNCHANGED <<tables, tasks>>
    BY DEF BeginConnect, Dial, Commit, Report, Ask, Incoming, CompleteFails, OtherPeers, Forward, Handle,
           TakeOuter, Decide, Expire, vars
  <1> QED
    BY <1>1, <1>2, <1>3, <1>4, <1>5, <1>6, <1>7, <1>8 DEF Next, Caller

-----------------------------------------------------------------------------
(* The channel has room for what was promised a place in it.               *)

RoomInv == Len(events) + Cardinality(Permits) <= EventCapacity

LEMMA PermitsFinite == IsFiniteSet(Permits) /\ Cardinality(Permits) \in Nat
  <1> DEFINE A == {g \in Gens : publisher[g].at = "permit"} \X {"publisher"}
             B == {g \in Gens : frames[g] = "permit"} \X {"frames"}
  <1>1. IsFiniteSet(Gens \X {"publisher"}) /\ IsFiniteSet(Gens \X {"frames"})
    <2>1. IsFiniteSet(Gens)
      BY Bounds, FS_Interval DEF Gens
    <2> QED
      BY <2>1, FS_Singleton, FS_Product
  <1>2. A \in SUBSET (Gens \X {"publisher"}) /\ B \in SUBSET (Gens \X {"frames"})
    OBVIOUS
  <1>3. IsFiniteSet(A) /\ IsFiniteSet(B)
    BY <1>1, <1>2, FS_Subset
  <1>4. Permits = A \cup B
    BY DEF Permits
  <1> QED
    BY <1>3, <1>4, FS_Union, FS_CardinalityType

\* A place is promised, given back or filled.
LEMMA RoomSame ==
    ASSUME Types, RoomInv, Permits' = Permits, Len(events') <= Len(events), Len(events') \in Nat
    PROVE  RoomInv'
  BY PermitsFinite, Bounds DEF RoomInv, Types, ChannelTypes

LEMMA RoomSent ==
    ASSUME Types, Permits' = Permits, HasRoom, NEW e, events' = Append(events, e)
    PROVE  RoomInv'
  BY PermitsFinite, Bounds DEF RoomInv, HasRoom, Types, ChannelTypes

LEMMA RoomPromised ==
    ASSUME Types, NEW p, Permits' = Permits \cup {p}, HasRoom, UNCHANGED events
    PROVE  RoomInv'
  <1>1. Cardinality(Permits') <= Cardinality(Permits) + 1 /\ Cardinality(Permits') \in Nat
    BY PermitsFinite, FS_AddElement
  <1> QED
    BY <1>1, PermitsFinite, Bounds DEF RoomInv, HasRoom, Types, ChannelTypes

LEMMA RoomUsed ==
    ASSUME Types, RoomInv, NEW p \in Permits, Permits' = Permits \ {p}, Len(events') <= Len(events) + 1,
           Len(events') \in Nat
    PROVE  RoomInv'
  <1>1. Cardinality(Permits \ {p}) = Cardinality(Permits) - 1 /\ IsFiniteSet(Permits \ {p})
    BY PermitsFinite, FS_RemoveElement
  <1>2. Cardinality(Permits \ {p}) \in Nat
    BY <1>1, FS_CardinalityType
  <1> QED
    BY <1>1, <1>2, PermitsFinite, Bounds DEF RoomInv, Types, ChannelTypes

LEMMA PermitsSame ==
    ASSUME \A g \in Gens : /\ publisher'[g].at = "permit" <=> publisher[g].at = "permit"
                           /\ frames'[g] = "permit" <=> frames[g] = "permit"
    PROVE  Permits' = Permits
  BY DEF Permits

LEMMA RoomInvStep == Types /\ Types' /\ TableInv /\ RoomInv /\ [Next]_vars => RoomInv'
  <1> SUFFICES ASSUME Types, Types', TableInv, RoomInv, [Next]_vars PROVE RoomInv'
    OBVIOUS
  <1>1. events \in Seq(Sent) /\ events' \in Seq(Sent) /\ Len(events) \in Nat /\ Len(events') \in Nat
    BY DEF Types, ChannelTypes
  <1>2. ASSUME UNCHANGED events, Permits' = Permits PROVE RoomInv'
    BY <1>1, <1>2, RoomSame
  <1>3. UNCHANGED <<publisher, frames>> => Permits' = Permits
    BY DEF Permits
  <1>4. ASSUME NEW t \in Callers, Report(t) PROVE RoomInv'
    BY <1>3, <1>4, RoomSent DEF Report, Send, tasks
  <1>5. ASSUME NEW t \in Callers, Install(t) PROVE RoomInv'
    <2>1. CASE UNCHANGED tasks
      BY <1>2, <1>3, <1>5, <2>1 DEF Install, tasks, channels
    <2>2. ASSUME NEW stale, NewGeneration(stale) PROVE RoomInv'
      <3>1. next \in Gens /\ Fresh(next)
        BY <2>2 DEF NewGeneration, Types, TableTypes, TableInv, Gens
      <3>2. /\ publisher[next].at # "permit" /\ publisher'[next].at # "permit"
            /\ frames[next] # "permit" /\ frames'[next] # "permit"
        BY <2>2, <3>1 DEF NewGeneration, Fresh, NoPublisher, Types, TaskTypes
      <3>3. \A g \in Gens : g # next => publisher'[g] = publisher[g] /\ frames'[g] = frames[g]
        BY <2>2 DEF NewGeneration, Types, TaskTypes
      <3> QED
        BY <1>2, <1>5, <3>2, <3>3, PermitsSame DEF Install, channels
    <2> QED
      BY <1>5, <2>1, <2>2 DEF Install
  <1>6. ASSUME NEW g \in Gens, SendStale(g) PROVE RoomInv'
    <2>1. publisher' = [publisher EXCEPT ![g].at = "reserve"] /\ publisher[g].at = "stale"
          /\ UNCHANGED frames
      BY <1>6 DEF SendStale, PublisherAt
    <2>2. \A h \in Gens : publisher'[h].at = "permit" <=> publisher[h].at = "permit"
      BY <2>1 DEF Types, TaskTypes, PublisherRecords
    <2> QED
      BY <1>6, <2>1, <2>2, PermitsSame, RoomSent DEF SendStale, Send
  <1>7. ASSUME NEW g \in Gens, ReservePlace(g) PROVE RoomInv'
    <2>1. UNCHANGED <<frames, events>> /\ publisher[g].at = "reserve"
      BY <1>7 DEF ReservePlace, channels
    <2>2. CASE publisher' = [publisher EXCEPT ![g].at = "end"]
      <3>1. \A h \in Gens : publisher'[h].at = "permit" <=> publisher[h].at = "permit"
        BY <2>1, <2>2 DEF Types, TaskTypes, PublisherRecords
      <3> QED
        BY <1>2, <2>1, <3>1, PermitsSame
    <2>3. CASE HasRoom /\ publisher' = [publisher EXCEPT ![g].at = "permit"]
      <3>1. \A h \in Gens : publisher'[h].at = "permit" <=> h = g \/ publisher[h].at = "permit"
        BY <2>1, <2>3 DEF Types, TaskTypes, PublisherRecords
      <3>2. Permits' = Permits \cup {<<g, "publisher">>}
        BY <2>1, <3>1 DEF Permits
      <3> QED
        BY <2>1, <2>3, <3>2, RoomPromised
    <2> QED
      BY <1>7, <2>2, <2>3 DEF ReservePlace, PublisherAt
  <1>8. ASSUME NEW g \in Gens, Publish(g) PROVE RoomInv'
    <2>1. /\ publisher' = [publisher EXCEPT ![g].at = "end"] /\ publisher[g].at = "permit"
          /\ UNCHANGED frames /\ (events' = events \/ events' = Append(events, Connected(g)))
      BY <1>8 DEF Publish, PublisherAt
    <2>2. \A h \in Gens : publisher'[h].at = "permit" <=> h # g /\ publisher[h].at = "permit"
      BY <2>1 DEF Types, TaskTypes, PublisherRecords
    <2>3. Permits' = Permits \ {<<g, "publisher">>} /\ <<g, "publisher">> \in Permits
      BY <2>1, <2>2 DEF Permits
    <2>4. Len(events') <= Len(events) + 1
      BY <1>1, <2>1
    <2> QED
      BY <1>1, <2>3, <2>4, RoomUsed
  <1>9. ASSUME NEW g \in Gens, TakeFrame(g) PROVE RoomInv'
    <2>1. UNCHANGED <<publisher, events>> /\ HasRoom /\ frames' = [frames EXCEPT ![g] = "permit"]
      BY <1>9 DEF TakeFrame, channels
    <2>2. \A h \in Gens : frames'[h] = "permit" <=> h = g \/ frames[h] = "permit"
      BY <2>1 DEF Types, TaskTypes
    <2>3. Permits' = Permits \cup {<<g, "frames">>}
      BY <2>1, <2>2 DEF Permits
    <2> QED
      BY <2>1, <2>3, RoomPromised
  <1>10. ASSUME NEW g \in Gens, SendFrame(g) PROVE RoomInv'
    <2>1. /\ UNCHANGED publisher /\ frames[g] = "permit"
          /\ \E at \in {"read", "end"} : frames' = [frames EXCEPT ![g] = at]
          /\ (events' = events \/ events' = Append(events, Frame(g)))
      BY <1>10 DEF SendFrame
    <2>2. \A h \in Gens : frames'[h] = "permit" <=> h # g /\ frames[h] = "permit"
      BY <2>1 DEF Types, TaskTypes
    <2>3. Permits' = Permits \ {<<g, "frames">>} /\ <<g, "frames">> \in Permits
      BY <2>1, <2>2 DEF Permits
    <2>4. Len(events') <= Len(events) + 1
      BY <1>1, <2>1
    <2> QED
      BY <1>1, <2>3, <2>4, RoomUsed
  <1>11. ASSUME NEW g \in Gens, Announce(g) PROVE RoomInv'
    BY <1>3, <1>11, RoomSent DEF Announce, Send
  <1>12. ASSUME OtherPeers PROVE RoomInv'
    BY <1>3, <1>12, RoomSent DEF OtherPeers, Send, tasks
  <1>13. ASSUME Forward PROVE RoomInv'
    <2>1. Len(events') <= Len(events)
      BY <1>1, <1>13 DEF Forward
    <2> QED
      BY <1>1, <1>3, <1>13, <2>1, RoomSame DEF Forward, tasks
  <1>14. \/ \E t \in Callers : BeginConnect(t) \/ Dial(t) \/ Commit(t)
         \/ \E what \in {"connect", "disconnect"} : Ask(what)
         \/ Incoming \/ CompleteFails \/ Disconnect \/ Handle \/ TakeOuter \/ UNCHANGED vars
         \/ \E a \in Approvals : Decide(a, "approved") \/ Decide(a, "gone") \/ Expire(a)
         \/ \E g \in Gens : Lose(g) \/ Retire(g) \/ Remove(g)
         => UNCHANGED <<publisher, frames, events>>
    BY DEF BeginConnect, Dial, Commit, Ask, Incoming, CompleteFails, Disconnect, Handle, TakeOuter,
           Decide, Expire, Lose, Retire, Remove, vars, tasks, channels
  <1> QED
    BY <1>2, <1>3, <1>4, <1>5, <1>6, <1>7, <1>8, <1>9, <1>10, <1>11, <1>12, <1>13, <1>14
    DEF Next, Caller, PublisherTask, FramesTask, ReaderTask

LEMMA TableInvInit == Init => TableInv
  <1> SUFFICES ASSUME Init PROVE TableInv
    OBVIOUS
  <1>1. \A g \in Gens : Fresh(g)
    BY DEF Init, Fresh
  <1> QED
    BY <1>1 DEF Init, TableInv, PoolUp

LEMMA RoomInvInit == Init => RoomInv
  <1> SUFFICES ASSUME Init PROVE RoomInv
    OBVIOUS
  <1>1. Permits = {}
    BY DEF Init, Permits, NoPublisher
  <1>2. events = <<>>
    BY DEF Init
  <1> QED
    BY <1>1, <1>2, Bounds, FS_EmptySet DEF RoomInv

LEMMA AgreeInvariant == Spec => [](Types /\ TableInv /\ RoomInv)
  <1>1. Types /\ TableInv /\ RoomInv /\ [Next]_vars => (Types /\ TableInv /\ RoomInv)'
    BY TypesStep, TableInvStep, RoomInvStep
  <1> QED
    BY <1>1, TypesInit, TableInvInit, RoomInvInit, PTL DEF Spec

(* The tables of the manager agree and its channels keep their capacity,   *)
(* for every capacity and every number of generations: install_connection, *)
(* disconnect and retire_generation change them at different moments, and  *)
(* a late removal touches only what is of its own generation.              *)
THEOREM TablesAlwaysAgree == Spec => []TablesAgree
  <1>1. Types /\ TableInv /\ RoomInv => TablesAgree
    <2> SUFFICES ASSUME Types, TableInv, RoomInv PROVE TablesAgree
      OBVIOUS
    <2>1. Sent \subseteq Events /\ Nothing \in Events
      BY Bounds DEF Sent, Events, Other, Nothing, Ids, Gens
    <2>2. events \in Seq(Sent) /\ network \in Seq(Sent) /\ hand \in Sent \cup {Nothing}
      BY DEF Types, ChannelTypes
    <2>3. events \in Seq(Events) /\ network \in Seq(Events) /\ hand \in Events
      BY <2>1, <2>2
    <2>4. Len(events) <= EventCapacity
      BY <2>2, PermitsFinite, Bounds DEF RoomInv
    <2>5. publisher \in [Gens -> [at : {"stale", "reserve", "permit", "end"}, stale : Ids]]
      BY DEF Types, TaskTypes, PublisherRecords
    <2>6. task \in [Callers -> TaskRecords]
      BY DEF Types, CallerTypes
    <2>7. ManagerTypeOK
      BY <2>3, <2>4, <2>5, <2>6
      DEF ManagerTypeOK, Types, TableTypes, TaskTypes, ChannelTypes, DaemonTypes, CallerTypes, TaskRecords,
          TaskSteps
    <2> QED
      BY <2>7 DEF TablesAgree, TableInv
  <1> QED
    BY <1>1, AgreeInvariant, PTL

-----------------------------------------------------------------------------
(* Approvals.                                                              *)

LEMMA CommitUsesApproval ==
    ASSUME Types, NEW t \in Callers, Commit(t), task[t].approval # 0, task'[t].at = "install"
    PROVE  \E a \in Standing : approval'[a] = "used"
  <1>1. task' = [task EXCEPT ![t] = Refused(t)] => task'[t].at # "install"
    BY DEF Types, CallerTypes, Refused, Sending, Idle
  <1>2. Standing # {} /\ \E a \in Standing : Fate(a, "used")
    BY <1>1 DEF Commit, Become
  <1> QED
    BY <1>2 DEF Fate, Standing, Types, CallerTypes

LEMMA OnlyCommitInstalls ==
    ASSUME Types, [Next]_vars, NEW t \in Callers, task[t].at = "complete", task'[t].at = "install"
    PROVE  Commit(t)
  <1> USE DEF Types, CallerTypes
  <1>1. ASSUME NEW u \in Callers, NEW r, Become(u, r), r.at # "install" PROVE FALSE
    <2>1. task'[t] = IF t = u THEN r ELSE task[t]
      BY <1>1 DEF Become
    <2> QED
      BY <1>1, <2>1
  <1>2. ASSUME NEW u \in Callers, Commit(u) PROVE t = u
    BY <1>2 DEF Commit, Become
  <1>3. Idle.at # "install" /\ \A e : Sending(e).at # "install"
    BY DEF Idle, Sending
  <1>4. \A u \in Callers : \A at : Step(u, at).at = at
    BY DEF Step, TaskRecords
  <1>5. \A u \in Callers : \A at, a : [Step(u, at) EXCEPT !.approval = a].at = at
    BY DEF Step, TaskRecords
  <1>6. ASSUME NEW u \in Callers, BeginConnect(u) PROVE FALSE
    <2>1. CASE Become(u, Idle)
      BY <1>1, <1>3, <2>1
    <2>2. ASSUME NEW a, Become(u, [Step(u, "dial") EXCEPT !.approval = a]) PROVE FALSE
      <3>1. [Step(u, "dial") EXCEPT !.approval = a].at = "dial"
        BY <1>5
      <3> QED
        BY <1>1, <2>2, <3>1
    <2>3. IF PoolUp THEN u = "ipc" /\ Become(u, Idle)
          ELSE \E a \in IF trusted \/ Standing = {} THEN {0} ELSE Standing :
                  Become(u, [Step(u, "dial") EXCEPT !.approval = a])
      BY <1>6 DEF BeginConnect
    <2> QED
      BY <2>1, <2>2, <2>3
  <1>7. ASSUME NEW u \in Callers, Dial(u) PROVE FALSE
    <2>1. \/ Become(u, Sending(Other)) \/ Become(u, Idle) \/ Become(u, Step(u, "complete"))
      BY <1>7 DEF Dial
    <2> QED
      BY <1>1, <1>3, <1>4, <2>1
  <1>8. ASSUME NEW u \in Callers, Install(u) \/ Report(u) PROVE FALSE
    BY <1>1, <1>3, <1>8 DEF Install, Report
  <1>9. ASSUME NEW what \in {"connect", "disconnect"}, Ask(what) PROVE FALSE
    BY <1>1, <1>4, <1>9 DEF Ask, Callers
  <1>10. ASSUME Incoming PROVE FALSE
    <2>1. CASE UNCHANGED task
      BY <2>1
    <2>2. ASSUME NEW a, Become("accept", [Step("accept", "complete") EXCEPT !.approval = a]) PROVE FALSE
      <3>1. "accept" \in Callers /\ [Step("accept", "complete") EXCEPT !.approval = a].at = "complete"
        BY <1>5 DEF Callers
      <3> QED
        BY <1>1, <2>2, <3>1
    <2> QED
      BY <1>10, <2>1, <2>2 DEF Incoming
  <1>11. ASSUME CompleteFails \/ Disconnect PROVE FALSE
    <2>1. Become("accept", Idle) \/ Become("ipc", Idle) \/ Become("ipc", Sending(Disconnected(canonical)))
      BY <1>11 DEF CompleteFails, Disconnect
    <2> QED
      BY <1>1, <1>3, <2>1 DEF Callers
  <1>12. \/ OtherPeers \/ Forward \/ Handle \/ TakeOuter \/ UNCHANGED vars
         \/ \E a \in Approvals : Decide(a, "approved") \/ Decide(a, "gone") \/ Expire(a)
         \/ \E g \in Gens : Lose(g) \/ PublisherTask(g) \/ FramesTask(g) \/ ReaderTask(g)
         => UNCHANGED task
    BY DEF OtherPeers, Forward, Handle, TakeOuter, vars, Decide, Expire, Lose, PublisherTask, SendStale,
           ReservePlace, Publish, FramesTask, TakeFrame, SendFrame, ReaderTask, Retire, Remove, Announce
  <1> QED
    BY <1>2, <1>6, <1>7, <1>8, <1>9, <1>10, <1>11, <1>12 DEF Next, Caller

(* A peer that the trust store does not know is let through only by an     *)
(* approval that stands at that moment, and it is used up by it: what      *)
(* complete_outbound and the accept loop found standing when they began    *)
(* may have been withdrawn, have run out or have been used in between.     *)
THEOREM OnlyStandingApprovals == Spec => ApprovalStands
  <1> DEFINE Stands == \A t \in Callers :
                          /\ task[t].at = "complete" /\ task[t].approval # 0
                          /\ task'[t].at = "install"
                          => \E a \in Standing : approval'[a] = "used"
  <1>1. Types /\ [Next]_vars => [Stands]_vars
    BY CommitUsesApproval, OnlyCommitInstalls
  <1> QED
    BY <1>1, AgreeInvariant, PTL DEF Spec, ApprovalStands

-----------------------------------------------------------------------------
(* The way to the event loop, as one sequence.                             *)

InPath(e) == \E i \in DOMAIN Path : Path[i] = e

LEMMA PathType == Types => Path \in Seq(Sent)
  <1> SUFFICES ASSUME Types PROVE Path \in Seq(Sent)
    OBVIOUS
  <1>1. events \in Seq(Sent) /\ network \in Seq(Sent) /\ hand \in Sent \cup {Nothing}
    BY DEF Types, ChannelTypes
  <1>2. (IF hand = Nothing THEN <<>> ELSE <<hand>>) \in Seq(Sent)
    BY <1>1
  <1> QED
    BY <1>1, <1>2 DEF Path

LEMMA PathSame == UNCHANGED channels => Path' = Path
  BY DEF channels, Path

LEMMA PathGrows ==
    ASSUME Types, NEW e \in Sent, events' = Append(events, e), UNCHANGED <<hand, network>>
    PROVE  Path' = Append(Path, e)
  <1> DEFINE H == IF hand = Nothing THEN <<>> ELSE <<hand>>
  <1>1. events \in Seq(Sent) /\ network \in Seq(Sent) /\ H \in Seq(Sent)
    BY DEF Types, ChannelTypes
  <1>2. Path = network \o H \o events /\ Path' = network \o H \o Append(events, e)
    BY DEF Path
  <1>3. network \o H \in Seq(Sent)
    BY <1>1
  <1>4. PICK n : n = network \o H
    OBVIOUS
  <1> HIDE DEF H
  <1>5. n \o Append(events, e) = Append(n \o events, e)
    BY <1>1, <1>3, <1>4, SMTT(60), ZenonT(60)
  <1> QED
    BY <1>2, <1>4, <1>5

LEMMA PathForwarded == Types /\ Forward => Path' = Path
  <1> SUFFICES ASSUME Types, Forward PROVE Path' = Path
    OBVIOUS
  <1>1. events \in Seq(Sent) /\ network \in Seq(Sent)
    BY DEF Types, ChannelTypes
  <1>2. Nothing \notin Sent
    BY DEF Nothing, Sent, Other
  <1>3. CASE hand = Nothing /\ events # <<>> /\ hand' = Head(events) /\ events' = Tail(events)
             /\ UNCHANGED network
    <2>1. hand' # Nothing /\ hand' \in Sent
      BY <1>1, <1>2, <1>3
    <2>2. Path = network \o <<>> \o events /\ Path' = network \o <<Head(events)>> \o Tail(events)
      BY <1>3, <2>1 DEF Path
    <2>3. network \o <<>> \o events = network \o <<Head(events)>> \o Tail(events)
      BY <1>1, <1>3
    <2> QED
      BY <2>2, <2>3
  <1>4. CASE hand # Nothing /\ network' = Append(network, hand) /\ hand' = Nothing /\ UNCHANGED events
    <2>1. hand \in Sent
      BY <1>4 DEF Types, ChannelTypes
    <2>2. Path = network \o <<hand>> \o events /\ Path' = Append(network, hand) \o <<>> \o events
      BY <1>4 DEF Path
    <2>3. network \o <<hand>> \o events = Append(network, hand) \o <<>> \o events
      BY <1>1, <2>1
    <2> QED
      BY <2>2, <2>3
  <1> QED
    BY <1>3, <1>4 DEF Forward

LEMMA PathShrinks == Types /\ Handle => Path # <<>> /\ Path' = Tail(Path) /\ Head(Path) = Head(network)
  <1> SUFFICES ASSUME Types, Handle
               PROVE  Path # <<>> /\ Path' = Tail(Path) /\ Head(Path) = Head(network)
    OBVIOUS
  <1> DEFINE H == IF hand = Nothing THEN <<>> ELSE <<hand>>
  <1>1. events \in Seq(Sent) /\ network \in Seq(Sent) /\ H \in Seq(Sent)
    BY DEF Types, ChannelTypes
  <1>2. network # <<>> /\ Path = network \o H \o events /\ Path' = Tail(network) \o H \o events
    BY DEF Path, Handle
  <1> HIDE DEF H
  <1>3. PICK h : h = H
    OBVIOUS
  <1>4. /\ network \o h \o events # <<>> /\ Head(network \o h \o events) = Head(network)
        /\ Tail(network \o h \o events) = Tail(network) \o h \o events
    BY <1>1, <1>2, <1>3
  <1> QED
    BY <1>2, <1>3, <1>4

\* The entries of a sequence that grows, and of one that shrinks.
LEMMA Appended ==
    ASSUME NEW S, NEW s \in Seq(S), NEW e \in S, NEW r, r = Append(s, e)
    PROVE  /\ Len(r) = Len(s) + 1 /\ Len(s) \in Nat
           /\ DOMAIN s = 1 .. Len(s) /\ DOMAIN r = DOMAIN s \cup {Len(s) + 1}
           /\ \A i \in DOMAIN s : r[i] = s[i]
           /\ r[Len(s) + 1] = e
  OBVIOUS

LEMMA Tailed ==
    ASSUME NEW S, NEW s \in Seq(S), s # <<>>, NEW r, r = Tail(s)
    PROVE  /\ Len(r) = Len(s) - 1 /\ Len(s) \in Nat /\ Len(s) > 0
           /\ DOMAIN s = 1 .. Len(s) /\ DOMAIN r = 1 .. Len(s) - 1
           /\ \A i \in DOMAIN r : i + 1 \in DOMAIN s /\ r[i] = s[i + 1]
           /\ 1 \in DOMAIN s /\ Head(s) = s[1]
  OBVIOUS

-----------------------------------------------------------------------------
(* The life of a generation.                                               *)

\* Who has its end to announce: the generation that replaced it, its own
\* reader, or the request that disconnected it.
EndsStale(n, g) == publisher[n].at = "stale" /\ publisher[n].stale = g
EndsReader(g) == reader[g] \in {"remove", "announce"}
EndsTask(g) == task["ipc"].at = "send" /\ task["ipc"].event = Disconnected(g)
Ending(g) == EndsReader(g) \/ EndsTask(g) \/ \E n \in Gens : EndsStale(n, g)
Ended(g) == g \in ended \/ InPath(Disconnected(g))

\* One of them, once.
Exclusive ==
    /\ \A g \in Gens : EndsReader(g) => ~EndsTask(g)
    /\ \A n, g \in Gens : EndsStale(n, g) => ~EndsReader(g) /\ ~EndsTask(g)
    /\ \A m, n, g \in Gens : EndsStale(m, g) /\ EndsStale(n, g) => m = n

\* Nothing is ahead of the generations.
GenInv ==
    /\ heard < next /\ \A g \in ended : g < next
    /\ \A g \in Gens : Ending(g) => g < next
    /\ \A i \in DOMAIN Path : Path[i].gen < next

\* The current generation is neither ended nor ending, one is ended once, and
\* nothing is said of a generation before it is announced.
LifeInv ==
    /\ canonical # 0 => publication[canonical] # "cancelled" /\ ~Ending(canonical) /\ ~Ended(canonical)
    /\ \A g \in Gens : Ending(g) => publication[g] = "cancelled" /\ ~Ended(g)
    /\ \A g \in Gens : publication[g] = "pending" =>
          g # heard /\ g \notin ended /\ frames[g] # "permit" /\ \A i \in DOMAIN Path : ~Of(Path[i], g)
    /\ canonical # 0 /\ publication[canonical] = "connected" =>
          heard = canonical \/ InPath(Connected(canonical))

FramesAfter ==
    \A i, j \in DOMAIN Path :
        i < j /\ Path[i].type = "Connected" /\ Path[j].type = "Frame" => Path[i].gen <= Path[j].gen

OrderInv == GenInv /\ Exclusive /\ LifeInv /\ FramesAfter /\ EventsInOrder

\* What the loop knows, and that a generation does not vanish in silence.
KnownInv ==
    /\ known \in {0, heard}
    /\ heard # 0 => (known = heard <=> heard \notin ended)
    /\ canonical # 0 /\ publication[canonical] = "pending" => publisher[canonical].at # "end"
    /\ ~overwritten => \A g \in Gens : g < next => g = canonical \/ Ending(g) \/ Ended(g)

\* One way to announce an end comes, goes, or nothing changes.
WaysKept(g) == /\ EndsReader(g)' <=> EndsReader(g)
               /\ EndsTask(g)' <=> EndsTask(g)
               /\ \A n \in Gens : EndsStale(n, g)' <=> EndsStale(n, g)

LEMMA WaysSame ==
    ASSUME Exclusive, \A g \in Gens : WaysKept(g)
    PROVE  Exclusive' /\ \A g \in Gens : Ending(g)' <=> Ending(g)
  <1>1. Exclusive'
    BY DEF Exclusive, WaysKept
  <1>2. \A g \in Gens : Ending(g)' <=> Ending(g)
    BY DEF Ending, WaysKept
  <1> QED
    BY <1>1, <1>2

LEMMA WaysGone ==
    ASSUME Exclusive, NEW d \in Gens, \A g \in Gens : g # d => WaysKept(g),
           ~EndsReader(d)', ~EndsTask(d)', \A n \in Gens : ~EndsStale(n, d)'
    PROVE  Exclusive' /\ \A g \in Gens : Ending(g)' <=> Ending(g) /\ g # d
  <1>1. Exclusive'
    BY DEF Exclusive, WaysKept
  <1>2. \A g \in Gens : Ending(g)' <=> Ending(g) /\ g # d
    BY DEF Ending, WaysKept
  <1> QED
    BY <1>1, <1>2

LEMMA WaysMore ==
    ASSUME Exclusive, NEW d \in Gens, ~Ending(d), \A g \in Gens : g # d => WaysKept(g),
           \/ EndsReader(d)' /\ ~EndsTask(d)' /\ \A n \in Gens : ~EndsStale(n, d)'
           \/ EndsTask(d)' /\ ~EndsReader(d)' /\ \A n \in Gens : ~EndsStale(n, d)'
           \/ /\ ~EndsReader(d)' /\ ~EndsTask(d)'
              /\ \E m \in Gens : \A n \in Gens : EndsStale(n, d)' <=> n = m
    PROVE  Exclusive' /\ \A g \in Gens : Ending(g)' <=> Ending(g) \/ g = d
  <1>1. Exclusive'
    BY DEF Exclusive, WaysKept
  <1>2. \A g \in Gens : Ending(g)' <=> Ending(g) \/ g = d
    BY DEF Ending, WaysKept
  <1> QED
    BY <1>1, <1>2

PathKept == Path' = Path /\ UNCHANGED <<heard, ended>>

LEMMA OrderKept ==
    ASSUME OrderInv, PathKept
    PROVE  FramesAfter' /\ EventsInOrder' /\ \A g \in Gens : Ended(g)' <=> Ended(g)
  <1>1. FramesAfter'
    BY DEF OrderInv, PathKept, FramesAfter
  <1>2. EventsInOrder'
    BY DEF OrderInv, PathKept, EventsInOrder
  <1>3. \A g \in Gens : Ended(g)' <=> Ended(g)
    BY DEF PathKept, Ended, InPath
  <1> QED
    BY <1>1, <1>2, <1>3

\* A step that says nothing and ends nothing.
LEMMA StepStill ==
    ASSUME Types, OrderInv, PathKept, UNCHANGED <<canonical, publication, next>>,
           \A g \in Gens : WaysKept(g),
           \A g \in Gens : frames'[g] = "permit" => frames[g] = "permit" \/ publication[g] # "pending"
    PROVE  OrderInv'
  <1> USE DEF OrderInv
  <1>1. Exclusive' /\ \A g \in Gens : Ending(g)' <=> Ending(g)
    BY WaysSame
  <1>2. FramesAfter' /\ EventsInOrder' /\ \A g \in Gens : Ended(g)' <=> Ended(g)
    BY OrderKept
  <1>3. GenInv'
    BY <1>1 DEF GenInv, PathKept
  <1>4. canonical \in Ids /\ (canonical # 0 => canonical \in Gens)
    BY Bounds DEF Types, TableTypes, Ids, Gens
  <1>5. LifeInv'
    BY <1>1, <1>2, <1>4 DEF LifeInv, PathKept, InPath
  <1> QED
    BY <1>1, <1>2, <1>3, <1>5

\* The current generation begins to end.
LEMMA StepEnds ==
    ASSUME Types, TableInv, OrderInv, PathKept, UNCHANGED <<next, frames>>, canonical # 0,
           canonical' = 0, publication' = Cancel(canonical),
           Exclusive', \A g \in Gens : Ending(g)' <=> Ending(g) \/ g = canonical
    PROVE  OrderInv'
  <1> USE DEF OrderInv
  <1>1. FramesAfter' /\ EventsInOrder' /\ \A g \in Gens : Ended(g)' <=> Ended(g)
    BY OrderKept
  <1>2. canonical \in Gens /\ canonical < next
    BY Bounds DEF Types, TableTypes, TableInv, Ids, Gens
  <1>3. GenInv'
    BY <1>2 DEF GenInv, PathKept
  <1>4. \A g \in Gens : publication'[g] = IF g = canonical THEN "cancelled" ELSE publication[g]
    BY <1>2 DEF Cancel, Types, TaskTypes
  <1>5. LifeInv'
    <2>1. \A g \in Gens : Ending(g)' => publication'[g] = "cancelled" /\ ~Ended(g)'
      BY <1>1, <1>2, <1>4 DEF LifeInv
    <2>2. \A g \in Gens : publication'[g] = "pending" =>
              g # heard' /\ g \notin ended' /\ frames'[g] # "permit" /\ \A i \in DOMAIN Path' : ~Of(Path'[i], g)
      BY <1>4 DEF LifeInv, PathKept
    <2> QED
      BY <2>1, <2>2 DEF LifeInv, Of
  <1> QED
    BY <1>1, <1>3, <1>5

\* A new generation is the current one.
LEMMA StepInstalls ==
    ASSUME Types, TableInv, OrderInv, PathKept, next \in Gens, next' = next + 1, canonical' = next,
           \/ UNCHANGED publication /\ \A g \in Gens : WaysKept(g)
           \/ /\ canonical # 0 /\ publication' = Cancel(canonical)
              /\ Exclusive' /\ \A g \in Gens : Ending(g)' <=> Ending(g) \/ g = canonical,
           \A g \in Gens : frames'[g] = "permit" => frames[g] = "permit"
    PROVE  OrderInv'
  <1> USE DEF OrderInv
  <1>1. FramesAfter' /\ EventsInOrder' /\ \A g \in Gens : Ended(g)' <=> Ended(g)
    BY OrderKept
  <1>2. Exclusive' /\ \A g \in Gens : Ending(g)' => Ending(g) \/ (g = canonical /\ publication' = Cancel(canonical))
    BY WaysSame
  <1>3. canonical < next /\ next \in Nat /\ next # 0 /\ heard \in Nat /\ canonical \in Nat
    BY Bounds DEF Types, TableTypes, DaemonTypes, TableInv, Ids, Gens
  <1>4. GenInv'
    <2>1. heard < next' /\ \A g \in ended : g < next'
      BY <1>3, Bounds DEF GenInv, Types, DaemonTypes, Gens
    <2>2. \A g \in Gens : Ending(g)' => g < next'
      BY <1>2, <1>3, Bounds DEF GenInv, Gens
    <2>3. \A i \in DOMAIN Path : Path[i].gen < next'
      <3>1. \A i \in DOMAIN Path : Path[i].gen \in Nat
        BY PathType, Bounds DEF Sent, Other, Gens
      <3> QED
        BY <1>3, <3>1 DEF GenInv
    <2> QED
      BY <2>1, <2>2, <2>3 DEF GenInv, PathKept
  <1>5. \A g \in Gens : publication'[g] = publication[g] \/ (g = canonical /\ publication'[g] = "cancelled")
    BY DEF Cancel, Types, TaskTypes
  <1>6. PICK n \in Gens : n = next
    OBVIOUS
  <1>7. /\ publication'[n] = "pending" /\ ~Ending(n)' /\ ~Ended(n)'
    <2>1. publication[n] = "pending" /\ n # canonical
      BY <1>3, <1>6 DEF TableInv, Fresh
    <2>2. ~Ending(n) /\ ~Ended(n)
      BY <1>3, <1>6 DEF GenInv, Ended, InPath, Disconnected
    <2>3. publication'[n] = "pending"
      BY <1>5, <2>1
    <2>4. ~Ending(n)'
      BY <1>2, <2>1, <2>2
    <2> QED
      BY <1>1, <2>2, <2>3, <2>4
  <1>8. LifeInv'
    <2>1. \A g \in Gens : Ending(g)' => publication'[g] = "cancelled" /\ ~Ended(g)'
      <3> SUFFICES ASSUME NEW g \in Gens, Ending(g)' PROVE publication'[g] = "cancelled" /\ ~Ended(g)'
        OBVIOUS
      <3>1. CASE Ending(g)
        BY <1>1, <1>5, <3>1 DEF LifeInv
      <3>2. CASE ~Ending(g)
        <4>1. g = canonical /\ publication' = Cancel(canonical) /\ canonical # 0
          BY <1>2, <3>2 DEF Gens
        <4>2. publication'[g] = "cancelled"
          BY <4>1 DEF Cancel, Types, TaskTypes
        <4>3. ~Ended(g)
          BY <4>1 DEF LifeInv
        <4> QED
          BY <1>1, <4>2, <4>3
      <3> QED
        BY <3>1, <3>2
    <2>2. \A g \in Gens : publication'[g] = "pending" =>
              g # heard' /\ g \notin ended' /\ frames'[g] # "permit" /\ \A i \in DOMAIN Path' : ~Of(Path'[i], g)
      BY <1>5 DEF LifeInv, PathKept
    <2>3. canonical' = n
      BY <1>6
    <2> QED
      BY <1>7, <2>1, <2>2, <2>3 DEF LifeInv
  <1> QED
    BY <1>1, <1>2, <1>4, <1>8

\* An event is sent: the path grows by it.
PathTakes(e) == Path' = Append(Path, e) /\ UNCHANGED <<heard, ended>>

LEMMA PathTaken ==
    ASSUME Types, NEW e \in Sent, PathTakes(e)
    PROVE  /\ Len(Path) \in Nat /\ DOMAIN Path = 1 .. Len(Path) /\ Len(Path') = Len(Path) + 1
           /\ DOMAIN Path' = DOMAIN Path \cup {Len(Path) + 1}
           /\ \A i \in DOMAIN Path : Path'[i] = Path[i]
           /\ Path'[Len(Path) + 1] = e
           /\ \A f : InPath(f)' <=> InPath(f) \/ f = e
           /\ \A i \in DOMAIN Path : Path[i] \in Sent /\ Path[i].gen \in Ids
  <1>1. PICK p \in Seq(Sent) : p = Path
    BY PathType
  <1>2. PICK q : q = Path'
    OBVIOUS
  <1>3. q = Append(p, e)
    BY <1>1, <1>2 DEF PathTakes
  <1>4. /\ Len(q) = Len(p) + 1 /\ Len(p) \in Nat
        /\ DOMAIN p = 1 .. Len(p) /\ DOMAIN q = DOMAIN p \cup {Len(p) + 1}
        /\ \A i \in DOMAIN p : q[i] = p[i]
        /\ q[Len(p) + 1] = e
    BY <1>3, Appended
  <1>5. \A f : (\E i \in DOMAIN q : q[i] = f) <=> (\E i \in DOMAIN p : p[i] = f) \/ f = e
    BY <1>4
  <1>6. \A i \in DOMAIN p : p[i] \in Sent
    OBVIOUS
  <1>7. \A s \in Sent : s.gen \in Ids
    BY Bounds DEF Sent, Other, Ids, Gens
  <1> QED
    BY <1>1, <1>2, <1>4, <1>5, <1>6, <1>7 DEF InPath

\* An event that is of no generation leaves the order as it is.
LEMMA StepOther ==
    ASSUME Types, OrderInv, PathTakes(Other), UNCHANGED <<canonical, publication, next, frames>>,
           \A g \in Gens : WaysKept(g)
    PROVE  OrderInv' /\ \A g \in Gens : Ended(g)' <=> Ended(g)
  <1> USE DEF OrderInv
  <1>1. Exclusive' /\ \A g \in Gens : Ending(g)' <=> Ending(g)
    BY WaysSame
  <1>2. Other \in Sent
    BY DEF Sent
  <1>3. /\ DOMAIN Path = 1 .. Len(Path) /\ DOMAIN Path' = DOMAIN Path \cup {Len(Path) + 1}
        /\ Len(Path) \in Nat /\ Len(Path') = Len(Path) + 1
        /\ \A i \in DOMAIN Path : Path'[i] = Path[i]
        /\ Path'[Len(Path) + 1] = Other
    BY <1>2, PathTaken
  <1>4. \A g \in Gens : /\ ~Of(Other, g) /\ Other # Disconnected(g) /\ Other # Frame(g)
                        /\ Other # Connected(g)
    BY DEF Of, Other, Disconnected, Frame, Connected
  <1>5. \A g \in Gens : Ended(g)' <=> Ended(g)
    BY <1>2, <1>4, PathTaken DEF Ended, PathTakes
  <1>6. next > 0 /\ Other.gen = 0
    BY Bounds DEF Types, TableTypes, Other
  <1>7. GenInv'
    BY <1>1, <1>3, <1>6 DEF GenInv, PathTakes
  <1>8. canonical # 0 => canonical \in Gens
    BY Bounds DEF Types, TableTypes, Ids, Gens
  <1>9. LifeInv'
    <2>1. canonical # 0 => publication[canonical] # "cancelled" /\ ~Ending(canonical)' /\ ~Ended(canonical)'
      BY <1>1, <1>5, <1>8 DEF LifeInv
    <2>2. \A g \in Gens : publication[g] = "pending" => \A i \in DOMAIN Path' : ~Of(Path'[i], g)
      BY <1>3, <1>4 DEF LifeInv
    <2>3. canonical # 0 /\ publication[canonical] = "connected" =>
              heard = canonical \/ InPath(Connected(canonical))'
      BY <1>2, PathTaken DEF LifeInv
    <2> QED
      BY <1>1, <1>5, <2>1, <2>2, <2>3 DEF LifeInv, PathTakes
  <1>10. FramesAfter'
    BY <1>3 DEF FramesAfter, Other
  <1>11. EventsInOrder'
    BY <1>3, <1>4 DEF EventsInOrder, PathTakes
  <1> QED
    BY <1>1, <1>5, <1>7, <1>9, <1>10, <1>11

\* The end of a generation is told: by one who had it to announce.
LEMMA StepEndTold ==
    ASSUME Types, OrderInv, NEW d \in Gens, Ending(d), PathTakes(Disconnected(d)),
           UNCHANGED <<canonical, publication, next, frames>>,
           Exclusive', \A g \in Gens : Ending(g)' <=> Ending(g) /\ g # d
    PROVE  OrderInv' /\ \A g \in Gens : Ended(g)' <=> Ended(g) \/ g = d
  <1> USE DEF OrderInv
  <1>1. PICK e \in Sent : e = Disconnected(d)
    BY DEF Sent, Disconnected
  <1>2. /\ DOMAIN Path = 1 .. Len(Path) /\ DOMAIN Path' = DOMAIN Path \cup {Len(Path) + 1}
        /\ Len(Path) \in Nat /\ Len(Path') = Len(Path) + 1
        /\ \A i \in DOMAIN Path : Path'[i] = Path[i]
        /\ Path'[Len(Path) + 1] = e
        /\ \A f : InPath(f)' <=> InPath(f) \/ f = e
    BY <1>1, PathTaken
  <1>3. \A g \in Gens : /\ Of(e, g) <=> g = d
                        /\ e = Disconnected(g) <=> g = d
                        /\ e # Frame(g) /\ e # Connected(g)
    BY <1>1 DEF Of, Disconnected, Frame, Connected
  <1>4. \A g \in Gens : Ended(g)' <=> Ended(g) \/ g = d
    BY <1>2, <1>3 DEF Ended, PathTakes
  <1>5. publication[d] = "cancelled" /\ ~Ended(d) /\ d < next /\ canonical # d
    <2>1. d # 0
      BY Bounds DEF Gens
    <2> QED
      BY <2>1 DEF LifeInv, GenInv
  <1>6. e.gen = d /\ e.type = "Disconnected"
    BY <1>1 DEF Disconnected
  <1>7. GenInv'
    BY <1>2, <1>5, <1>6 DEF GenInv, PathTakes
  <1>8. canonical # 0 => canonical \in Gens
    BY Bounds DEF Types, TableTypes, Ids, Gens
  <1>9. LifeInv'
    <2>1. canonical # 0 => publication[canonical] # "cancelled" /\ ~Ending(canonical)' /\ ~Ended(canonical)'
      BY <1>4, <1>5, <1>8 DEF LifeInv
    <2>2. \A g \in Gens : publication[g] = "pending" => \A i \in DOMAIN Path' : ~Of(Path'[i], g)
      BY <1>2, <1>3, <1>5 DEF LifeInv
    <2>3. canonical # 0 /\ publication[canonical] = "connected" =>
              heard = canonical \/ InPath(Connected(canonical))'
      BY <1>2 DEF LifeInv
    <2>4. \A g \in Gens : Ending(g)' => publication[g] = "cancelled" /\ ~Ended(g)'
      BY <1>4 DEF LifeInv
    <2> QED
      BY <2>1, <2>2, <2>3, <2>4 DEF LifeInv, PathTakes
  <1>10. FramesAfter'
    BY <1>2, <1>6 DEF FramesAfter
  <1>11. EventsInOrder'
    <2>1. \A i \in DOMAIN Path : Path[i] # Disconnected(d)
      BY <1>5 DEF Ended, InPath
    <2>2. d \notin ended
      BY <1>5 DEF Ended
    <2> QED
      BY <1>2, <1>3, <2>1, <2>2 DEF EventsInOrder, PathTakes
  <1> QED
    BY <1>4, <1>7, <1>9, <1>10, <1>11

\* The current generation is announced.
LEMMA StepConnected ==
    ASSUME Types, TableInv, OrderInv, NEW c \in Gens, canonical = c, publication[c] = "pending",
           PathTakes(Connected(c)), publication' = [publication EXCEPT ![c] = "connected"],
           UNCHANGED <<canonical, next, frames>>, \A g \in Gens : WaysKept(g)
    PROVE  OrderInv' /\ \A g \in Gens : Ended(g)' <=> Ended(g)
  <1> USE DEF OrderInv
  <1>0. Exclusive' /\ \A g \in Gens : Ending(g)' <=> Ending(g)
    BY WaysSame
  <1>1. PICK e \in Sent : e = Connected(c)
    BY DEF Sent, Connected
  <1>2. /\ DOMAIN Path = 1 .. Len(Path) /\ DOMAIN Path' = DOMAIN Path \cup {Len(Path) + 1}
        /\ Len(Path) \in Nat /\ Len(Path') = Len(Path) + 1
        /\ \A i \in DOMAIN Path : Path'[i] = Path[i]
        /\ Path'[Len(Path) + 1] = e
        /\ \A f : InPath(f)' <=> InPath(f) \/ f = e
        /\ \A i \in DOMAIN Path : Path[i] \in Sent /\ Path[i].gen \in Ids
    BY <1>1, PathTaken
  <1>3. \A g \in Gens : /\ Of(e, g) <=> g = c
                        /\ e = Connected(g) <=> g = c
                        /\ e # Frame(g) /\ e # Disconnected(g)
    BY <1>1 DEF Of, Disconnected, Frame, Connected
  <1>4. \A g \in Gens : Ended(g)' <=> Ended(g)
    BY <1>2, <1>3 DEF Ended, PathTakes
  <1>5. /\ c = next - 1 /\ next \in Nat /\ c # heard /\ c \notin ended /\ c \in Nat /\ heard \in Nat
        /\ \A i \in DOMAIN Path : ~Of(Path[i], c)
    BY Bounds DEF LifeInv, TableInv, Types, TableTypes, DaemonTypes, Ids, Gens
  <1>6. e.gen = c /\ e.type = "Connected"
    BY <1>1 DEF Connected
  <1>7. GenInv'
    BY <1>0, <1>2, <1>5, <1>6 DEF GenInv, PathTakes
  <1>8. \A g \in Gens : publication'[g] = IF g = c THEN "connected" ELSE publication[g]
    BY DEF Types, TaskTypes
  <1>9. LifeInv'
    <2>1. publication'[c] # "cancelled" /\ ~Ending(c)' /\ ~Ended(c)'
      BY <1>0, <1>4, <1>8, Bounds DEF LifeInv, Gens
    <2>2. \A g \in Gens : publication'[g] = "pending" =>
             /\ publication[g] = "pending"
             /\ \A i \in DOMAIN Path' : ~Of(Path'[i], g)
      BY <1>2, <1>3, <1>8 DEF LifeInv
    <2>3. InPath(Connected(c))'
      BY <1>1, <1>2
    <2>4. \A g \in Gens : Ending(g)' => publication'[g] = "cancelled" /\ ~Ended(g)'
      BY <1>0, <1>4, <1>8 DEF LifeInv
    <2>5. canonical' = c
      OBVIOUS
    <2> QED
      BY <2>1, <2>2, <2>3, <2>4, <2>5 DEF LifeInv, PathTakes
  <1>10. FramesAfter'
    BY <1>2, <1>6 DEF FramesAfter
  <1>11. EventsInOrder'
    <2>1. \A i \in DOMAIN Path : Path[i] # Disconnected(c)
      BY <1>5 DEF Of, Disconnected
    <2>2. \A i \in DOMAIN Path : Path[i].gen < c
      <3> SUFFICES ASSUME NEW i \in DOMAIN Path PROVE Path[i].gen < c
        OBVIOUS
      <3>1. Path[i].gen \in Nat /\ Path[i].gen < next
        BY <1>2, Bounds DEF GenInv, Ids
      <3>2. Path[i].gen # c
        <4>1. Path[i].type # "Other" => Of(Path[i], Path[i].gen)
          BY <1>2 DEF Sent, Of, Other
        <4>2. Path[i].type = "Other" => Path[i].gen = 0
          BY <1>2 DEF Sent, Other
        <4> QED
          BY <1>5, <4>1, <4>2, Bounds DEF Gens
      <3> QED
        BY <1>5, <3>1, <3>2
    <2>3. heard < c
      BY <1>5 DEF GenInv
    <2>4. \A i \in DOMAIN Path : \A j \in 1 .. i - 1 : j \in DOMAIN Path
      BY <1>2
    <2> QED
      BY <1>2, <1>3, <1>5, <2>1, <2>2, <2>3, <2>4, SMTT(60), ZenonT(60) DEF EventsInOrder, PathTakes
  <1> QED
    BY <1>0, <1>4, <1>7, <1>9, <1>10, <1>11

\* A frame of the current generation is forwarded.
LEMMA StepFrame ==
    ASSUME Types, TableInv, OrderInv, NEW c \in Gens, canonical = c, frames[c] = "permit",
           PathTakes(Frame(c)), UNCHANGED <<canonical, publication, next>>, \A g \in Gens : WaysKept(g),
           \A g \in Gens : frames'[g] = "permit" => frames[g] = "permit"
    PROVE  OrderInv' /\ \A g \in Gens : Ended(g)' <=> Ended(g)
  <1> USE DEF OrderInv
  <1>0. Exclusive' /\ \A g \in Gens : Ending(g)' <=> Ending(g)
    BY WaysSame
  <1>1. PICK e \in Sent : e = Frame(c)
    BY DEF Sent, Frame
  <1>2. /\ DOMAIN Path = 1 .. Len(Path) /\ DOMAIN Path' = DOMAIN Path \cup {Len(Path) + 1}
        /\ Len(Path) \in Nat /\ Len(Path') = Len(Path) + 1
        /\ \A i \in DOMAIN Path : Path'[i] = Path[i]
        /\ Path'[Len(Path) + 1] = e
        /\ \A f : InPath(f)' <=> InPath(f) \/ f = e
        /\ \A i \in DOMAIN Path : Path[i] \in Sent /\ Path[i].gen \in Ids
    BY <1>1, PathTaken
  <1>3. \A g \in Gens : /\ Of(e, g) <=> g = c
                        /\ e = Frame(g) <=> g = c
                        /\ e # Connected(g) /\ e # Disconnected(g)
    BY <1>1 DEF Of, Disconnected, Frame, Connected
  <1>4. \A g \in Gens : Ended(g)' <=> Ended(g)
    BY <1>2, <1>3 DEF Ended, PathTakes
  <1>5. /\ c = next - 1 /\ next \in Nat /\ c # 0 /\ c \in Nat
        /\ publication[c] = "connected" /\ ~Ended(c)
    <2>1. c = next - 1 /\ next \in Nat /\ c # 0 /\ c \in Nat
      BY Bounds DEF TableInv, Types, TableTypes, Gens
    <2>2. publication[c] # "pending" /\ publication[c] # "cancelled" /\ ~Ended(c)
      BY <2>1 DEF LifeInv
    <2> QED
      BY <2>1, <2>2 DEF Types, TaskTypes
  <1>6. e.gen = c /\ e.type = "Frame"
    BY <1>1 DEF Frame
  <1>7. GenInv'
    BY <1>0, <1>2, <1>5, <1>6 DEF GenInv, PathTakes
  <1>8. LifeInv'
    <2>1. ~Ending(c)' /\ ~Ended(c)'
      BY <1>0, <1>4, <1>5 DEF LifeInv
    <2>2. \A g \in Gens : publication[g] = "pending" => \A i \in DOMAIN Path' : ~Of(Path'[i], g)
      BY <1>2, <1>3, <1>5 DEF LifeInv
    <2>3. heard = c \/ InPath(Connected(c))'
      BY <1>2, <1>5 DEF LifeInv
    <2>4. \A g \in Gens : Ending(g)' => publication[g] = "cancelled" /\ ~Ended(g)'
      BY <1>0, <1>4 DEF LifeInv
    <2>5. canonical' = c
      OBVIOUS
    <2> QED
      BY <1>5, <2>1, <2>2, <2>3, <2>4, <2>5 DEF LifeInv, PathTakes
  <1>9. FramesAfter'
    <2>1. \A i \in DOMAIN Path : Path[i].gen <= c
      BY <1>2, <1>5, Bounds DEF GenInv, Ids
    <2> QED
      BY <1>2, <1>6, <2>1 DEF FramesAfter
  <1>10. EventsInOrder'
    <2>1. \A i \in DOMAIN Path : Path[i] # Disconnected(c)
      BY <1>5 DEF Ended, InPath
    <2>2. c \notin ended
      BY <1>5 DEF Ended
    <2>3. heard = c \/ \E j \in DOMAIN Path : Path[j] = Connected(c)
      BY <1>5 DEF LifeInv, InPath
    <2>4. \A i \in DOMAIN Path : \A j \in 1 .. i - 1 : j \in DOMAIN Path
      BY <1>2
    <2> QED
      BY <1>2, <1>3, <2>1, <2>2, <2>3, <2>4 DEF EventsInOrder, PathTakes
  <1> QED
    BY <1>0, <1>4, <1>7, <1>8, <1>9, <1>10

\* The event loop handles the first event.
LEMMA StepHandled ==
    ASSUME Types, TableInv, OrderInv, Handle
    PROVE  OrderInv' /\ \A g \in Gens : Ended(g)' <=> Ended(g)
  <1> USE DEF OrderInv
  <1>1. PICK e \in Sent : e = Head(network)
    BY DEF Handle, Types, ChannelTypes
  <1>2. /\ Len(Path) \in Nat /\ Len(Path) > 0 /\ DOMAIN Path = 1 .. Len(Path)
        /\ DOMAIN Path' = 1 .. Len(Path) - 1 /\ Len(Path') = Len(Path) - 1
        /\ \A i \in DOMAIN Path' : i + 1 \in DOMAIN Path /\ Path'[i] = Path[i + 1]
        /\ 1 \in DOMAIN Path /\ Path[1] = e
        /\ \A i \in DOMAIN Path : Path[i] \in Sent
    <2>1. PICK p \in Seq(Sent) : p = Path
      BY PathType
    <2>2. PICK q : q = Path'
      OBVIOUS
    <2>3. p # <<>> /\ q = Tail(p) /\ Head(p) = e
      BY <1>1, <2>1, <2>2, PathShrinks
    <2>4. /\ Len(q) = Len(p) - 1 /\ Len(p) \in Nat /\ Len(p) > 0
          /\ DOMAIN p = 1 .. Len(p) /\ DOMAIN q = 1 .. Len(p) - 1
          /\ \A i \in DOMAIN q : i + 1 \in DOMAIN p /\ q[i] = p[i + 1]
          /\ 1 \in DOMAIN p /\ Head(p) = p[1]
      BY <2>3, Tailed
    <2> QED
      BY <2>1, <2>2, <2>3, <2>4
  <1>3. \A f : InPath(f) <=> InPath(f)' \/ f = e
    <2>1. \A i \in DOMAIN Path : i = 1 \/ i - 1 \in DOMAIN Path'
      BY <1>2
    <2>2. \A i \in DOMAIN Path : i # 1 => Path[i] = Path'[i - 1]
      BY <1>2, <2>1
    <2> QED
      BY <1>2, <2>1, <2>2 DEF InPath
  <1>4. /\ UNCHANGED <<tables, tasks, task, overwritten>>
        /\ known' = (CASE e.type = "Connected" -> e.gen
                       [] e.type = "Disconnected" /\ known = e.gen -> 0
                       [] OTHER -> known)
        /\ heard' = (IF e.type = "Connected" THEN e.gen ELSE heard)
        /\ ended' = (IF e.type = "Disconnected" THEN ended \cup {e.gen} ELSE ended)
    BY <1>1 DEF Handle
  <1>5. /\ UNCHANGED <<canonical, next, publication, publisher, frames, reader, task, overwritten>>
        /\ \A g \in Gens : WaysKept(g)
    BY <1>4 DEF tables, tasks, WaysKept, EndsReader, EndsTask, EndsStale
  <1>6. Exclusive' /\ \A g \in Gens : Ending(g)' <=> Ending(g)
    BY <1>5, WaysSame
  <1>7. \A g \in Gens : /\ e = Disconnected(g) <=> e.type = "Disconnected" /\ e.gen = g
                        /\ e = Connected(g) <=> e.type = "Connected" /\ e.gen = g
    BY <1>1 DEF Disconnected, Connected, Sent, Other
  <1>8. \A g \in Gens : Ended(g)' <=> Ended(g)
    BY <1>3, <1>4, <1>7 DEF Ended
  <1>9. e.type \in {"Connected", "Disconnected", "Frame"} => e.gen \in Gens /\ Of(e, e.gen)
    BY <1>1 DEF Sent, Other, Of
  <1>10. e.gen < next /\ (e.type = "Connected" => heard < e.gen)
    BY <1>2, <1>7, <1>9 DEF GenInv, EventsInOrder
  <1>11. GenInv'
    BY <1>2, <1>4, <1>5, <1>6, <1>10 DEF GenInv
  <1>12. LifeInv'
    <2>1. canonical # 0 => /\ canonical \in Gens /\ canonical = next - 1 /\ next \in Nat
      BY Bounds DEF TableInv, Types, TableTypes, Ids, Gens
    <2>2. canonical # 0 => publication[canonical] # "cancelled" /\ ~Ending(canonical)' /\ ~Ended(canonical)'
      <3>1. ASSUME NEW c \in Gens, canonical = c
            PROVE  publication[c] # "cancelled" /\ ~Ending(c)' /\ ~Ended(c)'
        BY <1>6, <1>8, <2>1, <3>1, Bounds DEF LifeInv, Gens
      <3> QED
        BY <1>5, <2>1, <3>1
    <2>3. \A g \in Gens : publication[g] = "pending" =>
             g # heard' /\ g \notin ended' /\ \A i \in DOMAIN Path' : ~Of(Path'[i], g)
      <3> SUFFICES ASSUME NEW g \in Gens, publication[g] = "pending"
                   PROVE  g # heard' /\ g \notin ended' /\ \A i \in DOMAIN Path' : ~Of(Path'[i], g)
        OBVIOUS
      <3>1. ~Of(e, g) /\ g # heard /\ g \notin ended /\ \A i \in DOMAIN Path : ~Of(Path[i], g)
        BY <1>2 DEF LifeInv
      <3>2. g # heard' /\ g \notin ended'
        BY <1>4, <3>1 DEF Of
      <3> QED
        BY <1>2, <3>1, <3>2
    <2>4. ASSUME NEW c \in Gens, canonical = c, publication[c] = "connected"
          PROVE  heard' = c \/ InPath(Connected(c))'
      <3>1. c = next - 1 /\ c # 0 /\ next \in Nat /\ c \in Nat
        BY <2>1, <2>4, Bounds DEF Gens
      <3>2. heard = c \/ InPath(Connected(c))
        BY <2>4, <3>1 DEF LifeInv
      <3>3. e.type = "Connected" => heard # c
        BY <1>9, <1>10, <3>1, Bounds DEF Gens
      <3> QED
        BY <1>3, <1>4, <1>7, <3>2, <3>3
    <2>5. canonical # 0 /\ publication[canonical] = "connected" =>
              heard' = canonical \/ InPath(Connected(canonical))'
      BY <1>5, <2>1, <2>4
    <2>6. \A g \in Gens : Ending(g)' => publication[g] = "cancelled" /\ ~Ended(g)'
      BY <1>6, <1>8 DEF LifeInv
    <2>7. \A g \in Gens : publication[g] = "pending" => frames[g] # "permit"
      BY DEF LifeInv
    <2> QED
      BY <1>5, <2>2, <2>3, <2>5, <2>6, <2>7 DEF LifeInv
  <1>13. FramesAfter'
    BY <1>2 DEF FramesAfter
  <1>14. EventsInOrder'
    <2> SUFFICES ASSUME NEW i \in DOMAIN Path', NEW g \in Gens
                 PROVE  /\ Of(Path'[i], g) => g \notin ended'
                        /\ Path'[i] = Disconnected(g) => \A j \in i + 1 .. Len(Path') : ~Of(Path'[j], g)
                        /\ Path'[i] = Frame(g) => heard' = g \/ \E j \in 1 .. i - 1 : Path'[j] = Connected(g)
                        /\ Path'[i] = Connected(g) => heard' < g /\ \A j \in 1 .. i - 1 : Path'[j].gen < g
      BY DEF EventsInOrder
    <2>1. /\ i \in Nat /\ i > 0 /\ i + 1 \in DOMAIN Path /\ Path'[i] = Path[i + 1]
          /\ 1 .. (i + 1) - 1 = 1 .. i
      BY <1>2
    <2>2. \A j \in 1 .. i - 1 : j + 1 \in 1 .. i + 1 - 1 /\ j + 1 \in DOMAIN Path /\ Path'[j] = Path[j + 1]
      BY <1>2, <2>1
    <2>3. Of(Path'[i], g) => g \notin ended'
      <3>1. Of(Path'[i], g) => g \notin ended
        BY <2>1 DEF EventsInOrder
      <3>2. e = Disconnected(g) => ~Of(Path[i + 1], g)
        BY <1>2, <2>1 DEF EventsInOrder
      <3> QED
        BY <1>4, <1>7, <2>1, <3>1, <3>2
    <2>4. Path'[i] = Disconnected(g) => \A j \in i + 1 .. Len(Path') : ~Of(Path'[j], g)
      <3>1. Path'[i] = Disconnected(g) => \A j \in i + 2 .. Len(Path) : ~Of(Path[j], g)
        BY <1>2, <2>1 DEF EventsInOrder
      <3>2. \A j \in i + 1 .. Len(Path') : j + 1 \in i + 2 .. Len(Path) /\ Path'[j] = Path[j + 1]
        BY <1>2, <2>1
      <3> QED
        BY <3>1, <3>2
    <2>5. Path'[i] = Frame(g) => heard' = g \/ \E j \in 1 .. i - 1 : Path'[j] = Connected(g)
      <3> SUFFICES ASSUME Path'[i] = Frame(g)
                   PROVE  heard' = g \/ \E j \in 1 .. i - 1 : Path'[j] = Connected(g)
        OBVIOUS
      <3>1. heard = g \/ \E j \in 1 .. i : Path[j] = Connected(g)
        BY <2>1 DEF EventsInOrder
      <3>2. e.type = "Connected" => heard # g
        <4>1. e.type = "Connected" => e.gen <= g
          BY <1>2, <2>1 DEF FramesAfter, Frame
        <4> QED
          BY <1>9, <1>10, <4>1, Bounds DEF Gens
      <3>3. CASE heard = g
        BY <1>4, <3>2, <3>3
      <3>4. ASSUME NEW j \in 1 .. i, Path[j] = Connected(g)
            PROVE  heard' = g \/ \E k \in 1 .. i - 1 : Path'[k] = Connected(g)
        <4>1. CASE j = 1
          BY <1>2, <1>4, <1>7, <3>4, <4>1
        <4>2. CASE j # 1
          <5>1. j - 1 \in 1 .. i - 1 /\ Path'[j - 1] = Path[j]
            BY <2>1, <2>2, <4>2
          <5> QED
            BY <3>4, <5>1
        <4> QED
          BY <4>1, <4>2
      <3> QED
        BY <3>1, <3>3, <3>4
    <2>6. Path'[i] = Connected(g) => heard' < g /\ \A j \in 1 .. i - 1 : Path'[j].gen < g
      <3>1. Path'[i] = Connected(g) => heard < g /\ \A j \in 1 .. i : Path[j].gen < g
        BY <2>1 DEF EventsInOrder
      <3>2. 1 \in 1 .. i
        BY <2>1
      <3> QED
        BY <1>2, <1>4, <2>1, <2>2, <3>1, <3>2
    <2> QED
      BY <2>3, <2>4, <2>5, <2>6
  <1> QED
    BY <1>6, <1>8, <1>11, <1>12, <1>13, <1>14

-----------------------------------------------------------------------------
(* The steps.                                                              *)

LifeAndKnown == OrderInv /\ KnownInv

\* Every generation is accounted for as before.
LEMMA KnownKept ==
    ASSUME Types, KnownInv, UNCHANGED <<known, heard, ended, canonical, publication, next, overwritten>>,
           \A g \in Gens : Ending(g) \/ Ended(g) => Ending(g)' \/ Ended(g)',
           \A g \in Gens : publication[g] = "pending" /\ publisher'[g].at = "end" => publisher[g].at = "end"
    PROVE  KnownInv'
  <1>1. canonical # 0 => canonical \in Gens
    BY Bounds DEF Types, TableTypes, Ids, Gens
  <1> QED
    BY <1>1 DEF KnownInv

Steady == UNCHANGED <<canonical, publication, next, known, overwritten>>

LEMMA QuietStep ==
    ASSUME Types, LifeAndKnown, PathKept, Steady, \A g \in Gens : WaysKept(g),
           \A g \in Gens : frames'[g] = "permit" => frames[g] = "permit" \/ publication[g] # "pending",
           \A g \in Gens : publication[g] = "pending" /\ publisher'[g].at = "end" => publisher[g].at = "end"
    PROVE  LifeAndKnown'
  <1> USE DEF LifeAndKnown, Steady
  <1>1. OrderInv'
    BY StepStill
  <1>2. \A g \in Gens : (Ending(g)' <=> Ending(g)) /\ (Ended(g)' <=> Ended(g))
    BY WaysSame, OrderKept DEF OrderInv
  <1>3. KnownInv'
    BY <1>2, KnownKept DEF PathKept
  <1> QED
    BY <1>1, <1>3

LEMMA OtherStep ==
    ASSUME Types, LifeAndKnown, PathTakes(Other), Steady, UNCHANGED <<frames, publisher>>,
           \A g \in Gens : WaysKept(g)
    PROVE  LifeAndKnown'
  <1> USE DEF LifeAndKnown, Steady
  <1>1. OrderInv' /\ \A g \in Gens : Ended(g)' <=> Ended(g)
    BY StepOther
  <1>2. \A g \in Gens : Ending(g)' <=> Ending(g)
    BY WaysSame DEF OrderInv
  <1>3. KnownInv'
    BY <1>1, <1>2, KnownKept DEF PathTakes
  <1> QED
    BY <1>1, <1>3

LEMMA EndToldStep ==
    ASSUME Types, LifeAndKnown, NEW d \in Gens, Ending(d), PathTakes(Disconnected(d)), Steady,
           UNCHANGED frames,
           \A g \in Gens : publication[g] = "pending" /\ publisher'[g].at = "end" => publisher[g].at = "end",
           \A g \in Gens : g # d => WaysKept(g),
           ~EndsReader(d)', ~EndsTask(d)', \A n \in Gens : ~EndsStale(n, d)'
    PROVE  LifeAndKnown'
  <1> USE DEF LifeAndKnown, Steady
  <1>1. Exclusive' /\ \A g \in Gens : Ending(g)' <=> Ending(g) /\ g # d
    BY WaysGone DEF OrderInv
  <1>2. OrderInv' /\ \A g \in Gens : Ended(g)' <=> Ended(g) \/ g = d
    BY <1>1, StepEndTold
  <1>3. KnownInv'
    BY <1>1, <1>2, KnownKept DEF PathTakes
  <1> QED
    BY <1>2, <1>3

\* Who changes only his own step, and has no end to announce.
LEMMA CallerWays ==
    ASSUME Types, NEW t \in Callers, NEW r, Become(t, r), UNCHANGED <<publisher, reader>>,
           t # "ipc" \/ (/\ task["ipc"].at # "send" \/ task["ipc"].event = Other
                         /\ r.at # "send" \/ r.event = Other)
    PROVE  \A g \in Gens : WaysKept(g)
  <1>1. \A g : Other # Disconnected(g)
    BY DEF Other, Disconnected
  <1>2. task'["ipc"] = IF t = "ipc" THEN r ELSE task["ipc"]
    BY DEF Become, Types, CallerTypes, Callers
  <1>3. \A g \in Gens : EndsTask(g)' <=> EndsTask(g)
    BY <1>1, <1>2 DEF EndsTask
  <1> QED
    BY <1>3 DEF WaysKept, EndsReader, EndsStale

\* The callers, but for what they install and report.
LEMMA CallersQuiet ==
    ASSUME Types,
           \/ \E t \in Callers : BeginConnect(t) \/ Dial(t) \/ Commit(t) \/ (Install(t) /\ UNCHANGED tasks)
           \/ \E what \in {"connect", "disconnect"} : Ask(what)
           \/ Incoming \/ CompleteFails
    PROVE  \A g \in Gens : WaysKept(g)
  <1> DEFINE Kept == \A g \in Gens : WaysKept(g)
  <1> USE DEF tasks
  <1>1. Idle.at # "send" /\ Sending(Other).event = Other
    BY DEF Idle, Sending, Nothing
  <1>2. \A u \in Callers : \A at : Step(u, at).at = at
    BY DEF Step, Types, CallerTypes, TaskRecords
  <1>3. \A u \in Callers : \A at, a : [Step(u, at) EXCEPT !.approval = a].at = at
    BY DEF Step, Types, CallerTypes, TaskRecords
  <1>4. ASSUME NEW t \in Callers, task[t].at # "send", UNCHANGED <<publisher, reader>>,
               \/ UNCHANGED task \/ Become(t, Idle) \/ Become(t, Sending(Other))
               \/ \E at \in TaskSteps \ {"send"} : Become(t, Step(t, at))
               \/ \E at \in TaskSteps \ {"send"} : \E a : Become(t, [Step(t, at) EXCEPT !.approval = a])
        PROVE  Kept
    <2>1. CASE UNCHANGED task
      BY <1>4, <2>1 DEF WaysKept, EndsReader, EndsTask, EndsStale
    <2>2. CASE Become(t, Idle) \/ Become(t, Sending(Other))
      BY <1>1, <1>4, <2>2, CallerWays
    <2>3. ASSUME NEW at \in TaskSteps \ {"send"}, Become(t, Step(t, at)) PROVE Kept
      BY <1>2, <1>4, <2>3, CallerWays
    <2>4. ASSUME NEW at \in TaskSteps \ {"send"}, NEW a, Become(t, [Step(t, at) EXCEPT !.approval = a])
          PROVE  Kept
      <3>1. PICK r : r = [Step(t, at) EXCEPT !.approval = a]
        OBVIOUS
      <3>2. r.at # "send" /\ Become(t, r)
        BY <1>3, <2>4, <3>1
      <3> QED
        BY <1>4, <3>2, CallerWays
    <2> QED
      BY <1>4, <2>1, <2>2, <2>3, <2>4
  <1> HIDE DEF Kept
  <1>5. ASSUME NEW t \in Callers, BeginConnect(t) PROVE Kept
    <2>1. task[t].at # "send" /\ UNCHANGED <<publisher, reader>>
      BY <1>5 DEF BeginConnect
    <2>2. \/ Become(t, Idle)
          \/ \E at \in TaskSteps \ {"send"} : \E a : Become(t, [Step(t, at) EXCEPT !.approval = a])
      <3>1. IF PoolUp THEN t = "ipc" /\ Become(t, Idle)
            ELSE \E a \in IF trusted \/ Standing = {} THEN {0} ELSE Standing :
                    Become(t, [Step(t, "dial") EXCEPT !.approval = a])
        BY <1>5 DEF BeginConnect
      <3>2. "dial" \in TaskSteps \ {"send"}
        BY DEF TaskSteps
      <3> QED
        BY <3>1, <3>2
    <2> QED
      BY <1>4, <2>1, <2>2
  <1>6. ASSUME NEW t \in Callers, Dial(t) PROVE Kept
    <2>1. task[t].at # "send" /\ UNCHANGED <<publisher, reader>>
          /\ (Become(t, Sending(Other)) \/ Become(t, Idle) \/ Become(t, Step(t, "complete")))
      BY <1>6 DEF Dial
    <2> QED
      BY <1>4, <2>1 DEF TaskSteps
  <1>7. ASSUME NEW t \in Callers, Commit(t) PROVE Kept
    <2>1. task[t].at # "send" /\ UNCHANGED <<publisher, reader>>
          /\ (Become(t, Sending(Other)) \/ Become(t, Idle) \/ Become(t, Step(t, "install")))
      BY <1>7 DEF Commit, Refused
    <2> QED
      BY <1>4, <2>1 DEF TaskSteps
  <1>8. ASSUME NEW t \in Callers, Install(t), UNCHANGED tasks PROVE Kept
    BY <1>4, <1>8 DEF Install
  <1>9. ASSUME NEW what \in {"connect", "disconnect"}, Ask(what) PROVE Kept
    <2>1. task["ipc"].at # "send" /\ UNCHANGED <<publisher, reader>> /\ Become("ipc", Step("ipc", what))
      BY <1>1, <1>9 DEF Ask
    <2> QED
      BY <1>4, <2>1 DEF TaskSteps, Callers
  <1>10. ASSUME Incoming PROVE Kept
    <2>1. task["accept"].at # "send" /\ UNCHANGED <<publisher, reader>>
      BY <1>1, <1>10 DEF Incoming
    <2>2. \/ UNCHANGED task
          \/ \E at \in TaskSteps \ {"send"} :
                \E a : Become("accept", [Step("accept", at) EXCEPT !.approval = a])
      <3>1. \/ UNCHANGED task
            \/ \E a \in IF trusted THEN {0} ELSE Standing :
                  Become("accept", [Step("accept", "complete") EXCEPT !.approval = a])
        BY <1>10 DEF Incoming
      <3>2. "complete" \in TaskSteps \ {"send"}
        BY DEF TaskSteps
      <3> QED
        BY <3>1, <3>2
    <2> QED
      BY <1>4, <2>1, <2>2 DEF Callers
  <1>11. ASSUME CompleteFails PROVE Kept
    BY <1>4, <1>11 DEF CompleteFails, Callers
  <1> QED
    BY <1>5, <1>6, <1>7, <1>8, <1>9, <1>10, <1>11 DEF Kept

LEMMA InstallStep ==
    ASSUME Types, TableInv, LifeAndKnown, NEW t \in Callers, Install(t)
    PROVE  LifeAndKnown'
  <1> USE DEF LifeAndKnown
  <1>1. PathKept /\ UNCHANGED known
    BY PathSame DEF Install, PathKept, channels, daemon, Path
  <1>2. CASE UNCHANGED <<tables, tasks, overwritten>>
    <2>1. \A g \in Gens : WaysKept(g)
      BY <1>2, CallersQuiet
    <2> QED
      BY <1>1, <1>2, <2>1, QuietStep DEF Steady, tables, tasks
  <1>3. CASE /\ IF t = "accept"
                THEN /\ NewGeneration(canonical)
                     /\ publication' = Cancel(canonical)
                     /\ UNCHANGED overwritten
                ELSE /\ NewGeneration(0)
                     /\ overwritten' = (overwritten \/ canonical # 0)
                     /\ UNCHANGED publication
    <2>1. PICK n \in Gens, s \in {0, canonical} :
             /\ n = next /\ NewGeneration(s)
             /\ s = canonical => publication' = Cancel(canonical) /\ (canonical # 0 => UNCHANGED overwritten)
             /\ s # canonical => publication' = publication /\ overwritten'
             /\ overwritten => overwritten'
      <3>1. next \in Gens
        BY <1>3 DEF NewGeneration, Types, TableTypes, Gens
      <3>2. Cancel(0) = publication
        BY DEF Cancel
      <3> QED
        BY <1>3, <3>1, <3>2 DEF Types, DaemonTypes
    <2>2. /\ next' = n + 1 /\ canonical' = n /\ n # canonical /\ n # 0 /\ canonical < n /\ n \in Nat
          /\ Fresh(n) /\ \A g \in Gens : g < n + 1 => g < n \/ g = n
          /\ canonical # 0 => canonical \in Gens
      BY <2>1, Bounds DEF NewGeneration, TableInv, Types, TableTypes, Gens, Ids
    <2>3. /\ publisher' = [publisher EXCEPT ![n] =
                              [at |-> IF s = 0 THEN "reserve" ELSE "stale", stale |-> s]]
          /\ frames' = [frames EXCEPT ![n] = "read"] /\ reader' = [reader EXCEPT ![n] = "read"]
      BY <2>1 DEF NewGeneration
    <2>4. \A g \in Gens : EndsTask(g)' <=> EndsTask(g)
      <3>1. task'["ipc"] = IF t = "ipc" THEN Idle ELSE task["ipc"]
        BY DEF Install, Become, Types, CallerTypes, Callers
      <3> QED
        BY <3>1 DEF EndsTask, Install, Idle
    <2>5. \A g \in Gens : EndsReader(g)' <=> EndsReader(g)
      BY <2>2, <2>3 DEF EndsReader, Fresh, Types, TaskTypes
    <2>6. \A m, g \in Gens : EndsStale(m, g)' <=> EndsStale(m, g) \/ (m = n /\ s # 0 /\ g = s)
      BY <2>2, <2>3 DEF EndsStale, Fresh, NoPublisher, Types, TaskTypes
    <2>7. \A g \in Gens : frames'[g] = "permit" => frames[g] = "permit"
      BY <2>3 DEF Types, TaskTypes
    <2>8. publisher'[n].at # "end" /\ publication' \in {publication, Cancel(canonical)}
      BY <2>1, <2>3 DEF Types, TaskTypes
    <2>9. CASE s = 0
      <3>1. \A g \in Gens : WaysKept(g)
        BY <2>4, <2>5, <2>6, <2>9 DEF WaysKept
      <3>2. UNCHANGED publication
        BY <2>1, <2>9 DEF Cancel
      <3>3. OrderInv'
        BY <1>1, <2>1, <2>2, <2>7, <3>1, <3>2, StepInstalls
      <3>4. \A g \in Gens : (Ending(g)' <=> Ending(g)) /\ (Ended(g)' <=> Ended(g))
        BY <1>1, <3>1, WaysSame, OrderKept DEF OrderInv
      <3>5. ~overwritten' => ~overwritten /\ canonical = 0
        BY <2>1, <2>9 DEF Types, DaemonTypes
      <3>6. ~overwritten' => \A g \in Gens : g < next' => g = canonical' \/ Ending(g)' \/ Ended(g)'
        BY <2>1, <2>2, <3>4, <3>5, Bounds DEF KnownInv, Gens
      <3>7. KnownInv'
        BY <1>1, <2>2, <2>8, <3>6 DEF KnownInv, PathKept
      <3> QED
        BY <3>3, <3>7
    <2>10. CASE s # 0
      <3>1. s = canonical /\ s \in Gens /\ s # n /\ publication' = Cancel(canonical)
        BY <2>1, <2>2, <2>10
      <3>2. ~Ending(s)
        BY <2>10, <3>1 DEF OrderInv, LifeInv
      <3>3. Exclusive' /\ \A g \in Gens : Ending(g)' <=> Ending(g) \/ g = s
        <4>1. \A g \in Gens : g # s => WaysKept(g)
          BY <2>4, <2>5, <2>6 DEF WaysKept
        <4>2. ~EndsReader(s)' /\ ~EndsTask(s)' /\ \A m \in Gens : EndsStale(m, s)' <=> m = n
          BY <2>4, <2>5, <2>6, <2>10, <3>1, <3>2 DEF Ending
        <4> QED
          BY <3>1, <3>2, <4>1, <4>2, WaysMore DEF OrderInv
      <3>4. OrderInv'
        BY <1>1, <2>1, <2>2, <2>7, <2>10, <3>1, <3>3, StepInstalls
      <3>5. \A g \in Gens : Ended(g)' <=> Ended(g)
        BY <1>1, OrderKept
      <3>6. ~overwritten' => \A g \in Gens : g < next' => g = canonical' \/ Ending(g)' \/ Ended(g)'
        BY <2>1, <2>2, <3>1, <3>3, <3>5, Bounds DEF KnownInv, Gens, Types, DaemonTypes
      <3>7. KnownInv'
        BY <1>1, <2>2, <2>8, <3>6 DEF KnownInv, PathKept
      <3> QED
        BY <3>4, <3>7
    <2> QED
      BY <2>9, <2>10
  <1> QED
    BY <1>2, <1>3 DEF Install

\* The current generation ends, and one has its end to announce.
LEMMA EndsStep ==
    ASSUME Types, TableInv, LifeAndKnown, PathKept, UNCHANGED <<next, frames, publisher, known, overwritten>>,
           NEW c \in Gens, canonical = c, canonical' = 0, publication' = Cancel(c),
           \A g \in Gens : g # c => WaysKept(g),
           \/ EndsReader(c)' /\ ~EndsTask(c)' /\ \A n \in Gens : ~EndsStale(n, c)'
           \/ EndsTask(c)' /\ ~EndsReader(c)' /\ \A n \in Gens : ~EndsStale(n, c)'
    PROVE  LifeAndKnown'
  <1> USE DEF LifeAndKnown
  <1>1. c # 0 /\ ~Ending(c)
    BY Bounds DEF OrderInv, LifeInv, Gens
  <1>2. Exclusive' /\ \A g \in Gens : Ending(g)' <=> Ending(g) \/ g = c
    BY <1>1, WaysMore DEF OrderInv
  <1>3. OrderInv'
    BY <1>1, <1>2, StepEnds
  <1>4. \A g \in Gens : Ended(g)' <=> Ended(g)
    BY OrderKept
  <1>5. KnownInv'
    BY <1>2, <1>4 DEF KnownInv, PathKept
  <1> QED
    BY <1>3, <1>5

LEMMA DisconnectStep == ASSUME Types, TableInv, LifeAndKnown, Disconnect PROVE LifeAndKnown'
  <1> USE DEF LifeAndKnown
  <1>1. /\ UNCHANGED <<next, publisher, frames, reader, channels, daemon, overwritten>>
        /\ canonical' = 0 /\ publication' = Cancel(canonical)
        /\ task["ipc"].at = "disconnect"
        /\ Become("ipc", IF canonical = 0 THEN Idle ELSE Sending(Disconnected(canonical)))
    BY DEF Disconnect
  <1>2. PathKept /\ UNCHANGED <<known, overwritten>>
    BY <1>1, PathSame DEF PathKept, daemon
  <1>3. CASE canonical = 0
    <2>1. \A g \in Gens : WaysKept(g)
      BY <1>1, <1>3, CallerWays DEF Callers, Idle
    <2>2. UNCHANGED publication
      BY <1>1, <1>3 DEF Cancel
    <2> QED
      BY <1>1, <1>2, <1>3, <2>1, <2>2, QuietStep DEF Steady
  <1>4. CASE canonical # 0
    <2>1. PICK c \in Gens : c = canonical
      BY <1>4, Bounds DEF Types, TableTypes, Ids, Gens
    <2>2. task'["ipc"].at = "send" /\ task'["ipc"].event = Disconnected(c)
      BY <1>1, <1>4, <2>1 DEF Become, Sending, Idle, Types, CallerTypes, Callers
    <2>3. \A g \in Gens : Disconnected(g) = Disconnected(c) <=> g = c
      BY DEF Disconnected
    <2>4. \A g \in Gens : /\ EndsTask(g)' <=> g = c
                          /\ ~EndsTask(g)
                          /\ EndsReader(g)' <=> EndsReader(g)
                          /\ \A n \in Gens : EndsStale(n, g)' <=> EndsStale(n, g)
      BY <1>1, <2>2, <2>3 DEF EndsTask, EndsReader, EndsStale
    <2>5. ~Ending(c)
      BY <1>4, <2>1 DEF OrderInv, LifeInv
    <2>6. \A g \in Gens : g # c => WaysKept(g)
      BY <2>4 DEF WaysKept
    <2>7. EndsTask(c)' /\ ~EndsReader(c)' /\ \A n \in Gens : ~EndsStale(n, c)'
      BY <2>4, <2>5 DEF Ending
    <2> QED
      BY <1>1, <1>2, <2>1, <2>6, <2>7, EndsStep
  <1> QED
    BY <1>3, <1>4

\* What the tasks and the callers send is one event of the path.
LEMMA Sends ==
    ASSUME Types, NEW e \in Sent, Send(e) \/ events' = Append(events, e),
           UNCHANGED <<hand, network, heard, ended>>
    PROVE  PathTakes(e)
  BY PathGrows DEF Send, PathTakes

LEMMA ReportStep ==
    ASSUME Types, LifeAndKnown, NEW t \in Callers, Report(t)
    PROVE  LifeAndKnown'
  <1> USE DEF LifeAndKnown
  <1>1. /\ task[t].at = "send" /\ Send(task[t].event) /\ Become(t, Idle)
        /\ UNCHANGED <<tables, tasks, hand, network, daemon, overwritten>>
    BY DEF Report
  <1>2. Steady /\ UNCHANGED <<frames, publisher, reader, heard, ended>>
    BY <1>1 DEF Steady, tables, tasks, daemon
  <1>3. \/ task[t].event = Other
        \/ t = "ipc" /\ \E d \in Gens : task[t].event = Disconnected(d)
    BY <1>1 DEF Types, CallerTypes, Told
  <1>4. PathTakes(task[t].event)
    BY <1>1, <1>2, ToldSent, Sends
  <1>5. Idle.at # "send"
    BY DEF Idle
  <1>6. CASE task[t].event = Other
    <2>1. \A g \in Gens : WaysKept(g)
      BY <1>1, <1>2, <1>5, <1>6, CallerWays
    <2> QED
      BY <1>2, <1>4, <1>6, <2>1, OtherStep
  <1>7. ASSUME NEW d \in Gens, t = "ipc", task[t].event = Disconnected(d) PROVE LifeAndKnown'
    <2>1. task'["ipc"] = Idle
      BY <1>1, <1>7 DEF Become, Types, CallerTypes
    <2>2. \A g \in Gens : Disconnected(g) = Disconnected(d) <=> g = d
      BY DEF Disconnected
    <2>3. \A g \in Gens : /\ ~EndsTask(g)' /\ (EndsTask(g) <=> g = d)
                          /\ EndsReader(g)' <=> EndsReader(g)
                          /\ \A n \in Gens : EndsStale(n, g)' <=> EndsStale(n, g)
      BY <1>1, <1>2, <1>5, <1>7, <2>1, <2>2 DEF EndsTask, EndsReader, EndsStale
    <2>4. Ending(d) /\ ~EndsReader(d)' /\ ~EndsTask(d)' /\ \A n \in Gens : ~EndsStale(n, d)'
      BY <2>3 DEF Ending, OrderInv, Exclusive
    <2>5. \A g \in Gens : g # d => WaysKept(g)
      BY <2>3 DEF WaysKept
    <2> QED
      BY <1>2, <1>4, <1>7, <2>4, <2>5, EndToldStep
  <1> QED
    BY <1>3, <1>6, <1>7

LEMMA SendStaleStep ==
    ASSUME Types, LifeAndKnown, NEW n \in Gens, SendStale(n)
    PROVE  LifeAndKnown'
  <1> USE DEF LifeAndKnown
  <1>1. /\ publisher[n].at = "stale" /\ Send(Disconnected(publisher[n].stale))
        /\ publisher' = [publisher EXCEPT ![n].at = "reserve"]
        /\ UNCHANGED <<reader, task, frames, heard, ended, hand, network>> /\ Steady
    BY DEF SendStale, PublisherAt, Steady, tables, daemon
  <1>2. PICK d \in Gens : d = publisher[n].stale
    BY <1>1, Bounds DEF Types, TaskTypes, PublisherRecords, Ids, Gens
  <1>3. Disconnected(d) \in Sent
    BY DEF Disconnected, Sent
  <1>4. PathTakes(Disconnected(d))
    BY <1>1, <1>2, <1>3, Sends
  <1>5. \A m \in Gens : /\ publisher'[m].stale = publisher[m].stale
                        /\ publisher'[m].at = IF m = n THEN "reserve" ELSE publisher[m].at
    BY <1>1 DEF Types, TaskTypes, PublisherRecords
  <1>6. \A g \in Gens : /\ EndsTask(g)' <=> EndsTask(g)
                        /\ EndsReader(g)' <=> EndsReader(g)
                        /\ \A m \in Gens : EndsStale(m, g)' <=> EndsStale(m, g) /\ m # n
    BY <1>1, <1>5 DEF EndsTask, EndsReader, EndsStale
  <1>7. EndsStale(n, d) /\ \A g \in Gens : EndsStale(n, g) => g = d
    BY <1>1, <1>2 DEF EndsStale
  <1>8. Ending(d) /\ ~EndsReader(d)' /\ ~EndsTask(d)' /\ \A m \in Gens : ~EndsStale(m, d)'
    BY <1>6, <1>7 DEF Ending, OrderInv, Exclusive
  <1>9. \A g \in Gens : g # d => WaysKept(g)
    BY <1>6, <1>7 DEF WaysKept
  <1>10. \A g \in Gens : publication[g] = "pending" /\ publisher'[g].at = "end" => publisher[g].at = "end"
    BY <1>5
  <1> QED
    BY <1>1, <1>4, <1>8, <1>9, <1>10, EndToldStep

LEMMA AnnounceStep ==
    ASSUME Types, LifeAndKnown, NEW d \in Gens, Announce(d)
    PROVE  LifeAndKnown'
  <1> USE DEF LifeAndKnown
  <1>1. /\ reader[d] = "announce" /\ Send(Disconnected(d)) /\ reader' = [reader EXCEPT ![d] = "end"]
        /\ UNCHANGED <<publisher, task, frames, heard, ended, hand, network>> /\ Steady
    BY DEF Announce, Steady, tables, daemon
  <1>2. Disconnected(d) \in Sent
    BY DEF Disconnected, Sent
  <1>3. PathTakes(Disconnected(d))
    BY <1>1, <1>2, Sends
  <1>4. \A g \in Gens : /\ EndsTask(g)' <=> EndsTask(g)
                        /\ EndsReader(g)' <=> EndsReader(g) /\ g # d
                        /\ \A m \in Gens : EndsStale(m, g)' <=> EndsStale(m, g)
    BY <1>1 DEF EndsTask, EndsReader, EndsStale, Types, TaskTypes
  <1>5. EndsReader(d)
    BY <1>1 DEF EndsReader
  <1>6. Ending(d) /\ ~EndsReader(d)' /\ ~EndsTask(d)' /\ \A m \in Gens : ~EndsStale(m, d)'
    BY <1>4, <1>5 DEF Ending, OrderInv, Exclusive
  <1>7. \A g \in Gens : g # d => WaysKept(g)
    BY <1>4 DEF WaysKept
  <1> QED
    BY <1>1, <1>3, <1>6, <1>7, EndToldStep

LEMMA ReserveStep ==
    ASSUME Types, LifeAndKnown, NEW n \in Gens, ReservePlace(n)
    PROVE  LifeAndKnown'
  <1>1. /\ publisher[n].at = "reserve" /\ UNCHANGED <<channels, heard, ended, reader, task, frames>> /\ Steady
        /\ \E at \in {"end", "permit"} : /\ publisher' = [publisher EXCEPT ![n].at = at]
                                         /\ at = "end" => publication[n] = "cancelled"
    BY DEF ReservePlace, PublisherAt, Steady, tables, daemon
  <1>2. PathKept
    BY <1>1, PathSame DEF PathKept
  <1>3. \A m \in Gens : /\ publisher'[m].stale = publisher[m].stale
                        /\ m # n => publisher'[m].at = publisher[m].at
                        /\ publisher'[n].at # "stale"
                        /\ publisher'[n].at = "end" => publication[n] = "cancelled"
    BY <1>1 DEF Types, TaskTypes, PublisherRecords
  <1>4. \A g \in Gens : WaysKept(g)
    BY <1>1, <1>3 DEF WaysKept, EndsTask, EndsReader, EndsStale
  <1>5. \A g \in Gens : publication[g] = "pending" /\ publisher'[g].at = "end" => publisher[g].at = "end"
    BY <1>3
  <1> QED
    BY <1>1, <1>2, <1>4, <1>5, QuietStep

LEMMA PublishStep ==
    ASSUME Types, TableInv, LifeAndKnown, NEW n \in Gens, Publish(n)
    PROVE  LifeAndKnown'
  <1> USE DEF LifeAndKnown
  <1>1. /\ publisher[n].at = "permit" /\ publisher' = [publisher EXCEPT ![n].at = "end"]
        /\ UNCHANGED <<canonical, next, known, overwritten, heard, ended, hand, network, reader, task, frames>>
    BY DEF Publish, PublisherAt, tables, daemon
  <1>2. \A m \in Gens : /\ publisher'[m].stale = publisher[m].stale
                        /\ m # n => publisher'[m].at = publisher[m].at
                        /\ publisher'[n].at = "end"
    BY <1>1 DEF Types, TaskTypes, PublisherRecords
  <1>3. \A g \in Gens : WaysKept(g)
    BY <1>1, <1>2 DEF WaysKept, EndsTask, EndsReader, EndsStale
  <1>4. CASE canonical = n /\ publication[n] = "pending"
    <2>1. /\ events' = Append(events, Connected(n))
          /\ publication' = [publication EXCEPT ![n] = "connected"]
      BY <1>4 DEF Publish
    <2>2. Connected(n) \in Sent
      BY DEF Connected, Sent
    <2>3. PathTakes(Connected(n))
      BY <1>1, <2>1, <2>2, Sends
    <2>4. OrderInv' /\ \A g \in Gens : Ended(g)' <=> Ended(g)
      BY <1>1, <1>3, <1>4, <2>1, <2>3, StepConnected
    <2>5. \A g \in Gens : Ending(g)' <=> Ending(g)
      BY <1>3, WaysSame DEF OrderInv
    <2>6. publication'[n] # "pending" /\ canonical' = n
      BY <1>1, <1>4, <2>1 DEF Types, TaskTypes
    <2>7. KnownInv'
      BY <1>1, <2>4, <2>5, <2>6 DEF KnownInv
    <2> QED
      BY <2>4, <2>7
  <1>5. CASE ~(canonical = n /\ publication[n] = "pending")
    <2>1. UNCHANGED <<events, publication>>
      BY <1>5 DEF Publish
    <2>2. PathKept /\ Steady
      BY <1>1, <2>1, PathSame DEF PathKept, Steady, channels
    <2>3. OrderInv'
      BY <1>1, <1>3, <2>2, StepStill DEF Steady
    <2>4. \A g \in Gens : (Ending(g)' <=> Ending(g)) /\ (Ended(g)' <=> Ended(g))
      BY <1>3, <2>2, WaysSame, OrderKept DEF OrderInv
    <2>5. canonical # 0 => canonical \in Gens
      BY Bounds DEF Types, TableTypes, Ids, Gens
    <2>6. canonical # 0 /\ publication[canonical] = "pending" => publisher'[canonical].at # "end"
      BY <1>2, <1>5, <2>5 DEF KnownInv
    <2>7. KnownInv'
      BY <2>2, <2>4, <2>5, <2>6 DEF KnownInv, PathKept, Steady
    <2> QED
      BY <2>3, <2>7
  <1> QED
    BY <1>4, <1>5

LEMMA FramesStep ==
    ASSUME Types, TableInv, LifeAndKnown, NEW n \in Gens, FramesTask(n)
    PROVE  LifeAndKnown'
  <1> USE DEF LifeAndKnown
  <1>1. UNCHANGED <<publisher, reader, task, heard, ended, hand, network>> /\ Steady
    BY DEF FramesTask, TakeFrame, SendFrame, Steady, tables, daemon, channels
  <1>2. \A g \in Gens : WaysKept(g)
    BY <1>1 DEF WaysKept, EndsTask, EndsReader, EndsStale
  <1>3. CASE TakeFrame(n)
    <2>1. PathKept
      BY <1>1, <1>3, PathSame DEF PathKept, TakeFrame
    <2>2. \A g \in Gens : frames'[g] = "permit" => frames[g] = "permit" \/ publication[g] # "pending"
      BY <1>3 DEF TakeFrame, Types, TaskTypes
    <2> QED
      BY <1>1, <1>2, <2>1, <2>2, QuietStep
  <1>4. CASE SendFrame(n)
    <2>1. \A g \in Gens : frames'[g] = "permit" => frames[g] = "permit"
      BY <1>4 DEF SendFrame, Types, TaskTypes
    <2>2. CASE canonical # n
      <3>1. PathKept
        BY <1>1, <1>4, <2>2, PathSame DEF PathKept, SendFrame, channels
      <3> QED
        BY <1>1, <1>2, <2>1, <3>1, QuietStep
    <2>3. CASE canonical = n
      <3>1. Frame(n) \in Sent /\ events' = Append(events, Frame(n)) /\ frames[n] = "permit"
        BY <1>4, <2>3 DEF Frame, Sent, SendFrame
      <3>2. PathTakes(Frame(n))
        BY <1>1, <3>1, Sends
      <3>3. OrderInv' /\ \A g \in Gens : Ended(g)' <=> Ended(g)
        BY <1>1, <1>2, <2>1, <2>3, <3>1, <3>2, StepFrame DEF Steady
      <3>4. \A g \in Gens : Ending(g)' <=> Ending(g)
        BY <1>2, WaysSame DEF OrderInv
      <3>5. KnownInv'
        BY <1>1, <3>3, <3>4, KnownKept DEF Steady
      <3> QED
        BY <3>3, <3>5
    <2> QED
      BY <2>2, <2>3
  <1> QED
    BY <1>3, <1>4 DEF FramesTask

LEMMA RetireStep ==
    ASSUME Types, TableInv, LifeAndKnown, NEW n \in Gens, Retire(n)
    PROVE  LifeAndKnown'
  <1>1. /\ UNCHANGED <<next, publisher, frames, channels, heard, ended, known, task, overwritten>>
        /\ reader[n] = "read"
    BY DEF Retire, daemon
  <1>2. PathKept
    BY <1>1, PathSame DEF PathKept
  <1>3. \A g \in Gens : /\ EndsTask(g)' <=> EndsTask(g)
                        /\ \A m \in Gens : EndsStale(m, g)' <=> EndsStale(m, g)
    BY <1>1 DEF EndsTask, EndsStale
  <1>4. CASE canonical = n
    <2>1. canonical' = 0 /\ publication' = Cancel(n) /\ reader' = [reader EXCEPT ![n] = "remove"]
      BY <1>4 DEF Retire
    <2>2. \A g \in Gens : EndsReader(g)' <=> EndsReader(g) \/ g = n
      BY <2>1 DEF EndsReader, Types, TaskTypes
    <2>3. ~Ending(n)
      BY <1>4, Bounds DEF LifeAndKnown, OrderInv, LifeInv, Gens
    <2>4. EndsReader(n)' /\ ~EndsTask(n)' /\ \A m \in Gens : ~EndsStale(m, n)'
      BY <1>3, <2>2, <2>3 DEF Ending
    <2>5. \A g \in Gens : g # n => WaysKept(g)
      BY <1>3, <2>2 DEF WaysKept
    <2> QED
      BY <1>1, <1>2, <1>4, <2>1, <2>4, <2>5, EndsStep
  <1>5. CASE canonical # n
    <2>1. UNCHANGED <<canonical, publication>> /\ reader' = [reader EXCEPT ![n] = "end"]
      BY <1>5 DEF Retire
    <2>2. \A g \in Gens : EndsReader(g)' <=> EndsReader(g)
      BY <1>1, <2>1 DEF EndsReader, Types, TaskTypes
    <2>3. \A g \in Gens : WaysKept(g)
      BY <1>3, <2>2 DEF WaysKept
    <2> QED
      BY <1>1, <1>2, <2>1, <2>3, QuietStep DEF Steady
  <1> QED
    BY <1>4, <1>5

LEMMA HandleStep ==
    ASSUME Types, TableInv, LifeAndKnown, Handle
    PROVE  LifeAndKnown'
  <1> USE DEF LifeAndKnown
  <1>1. OrderInv' /\ \A g \in Gens : Ended(g)' <=> Ended(g)
    BY StepHandled
  <1>2. PICK e \in Sent : e = Head(network)
    BY DEF Handle, Types, ChannelTypes
  <1>3. /\ UNCHANGED <<canonical, next, publication, publisher, reader, task, overwritten>>
        /\ known' = (CASE e.type = "Connected" -> e.gen
                       [] e.type = "Disconnected" /\ known = e.gen -> 0
                       [] OTHER -> known)
        /\ heard' = (IF e.type = "Connected" THEN e.gen ELSE heard)
        /\ ended' = (IF e.type = "Disconnected" THEN ended \cup {e.gen} ELSE ended)
    BY <1>2 DEF Handle, tables, tasks
  <1>4. \A g \in Gens : WaysKept(g)
    BY <1>3 DEF WaysKept, EndsTask, EndsReader, EndsStale
  <1>5. \A g \in Gens : Ending(g)' <=> Ending(g)
    BY <1>4, WaysSame DEF OrderInv
  <1>6. e.type = "Connected" => e.gen \in Gens /\ e.gen \notin ended
    <2>1. 1 \in DOMAIN Path /\ Path[1] = e
      <3>1. PICK p \in Seq(Sent) : p = Path
        BY PathType
      <3>2. p # <<>> /\ Head(p) = e
        BY <1>2, <3>1, PathShrinks
      <3>3. 1 \in DOMAIN p /\ p[1] = e
        BY <3>2
      <3> QED
        BY <3>1, <3>3
    <2>2. e.type = "Connected" => e.gen \in Gens /\ Of(e, e.gen)
      BY <1>2 DEF Sent, Other, Of
    <2> QED
      BY <2>1, <2>2 DEF OrderInv, EventsInOrder
  <1>7. e.type = "Disconnected" => e.gen # 0
    BY <1>2, Bounds DEF Sent, Other, Gens
  <1>8. /\ known' \in {0, heard'}
        /\ heard' # 0 => (known' = heard' <=> heard' \notin ended')
    <2>1. CASE e.type = "Connected"
      BY <1>3, <1>6, <2>1, Bounds DEF Gens
    <2>2. CASE e.type = "Disconnected"
      BY <1>3, <1>7, <2>2 DEF KnownInv
    <2>3. CASE e.type \notin {"Connected", "Disconnected"}
      BY <1>3, <2>3 DEF KnownInv
    <2> QED
      BY <2>1, <2>2, <2>3
  <1>9. KnownInv'
    BY <1>1, <1>3, <1>5, <1>8 DEF KnownInv
  <1> QED
    BY <1>1, <1>9

LEMMA LifeAndKnownStep ==
    ASSUME Types, TableInv, LifeAndKnown, [Next]_vars
    PROVE  LifeAndKnown'
  <1>1. ASSUME UNCHANGED <<channels, heard, ended, publisher, reader, frames>>, Steady,
               \A g \in Gens : WaysKept(g)
        PROVE  LifeAndKnown'
    <2>1. PathKept
      BY <1>1, PathSame DEF PathKept
    <2> QED
      BY <1>1, <2>1, QuietStep
  <1>2. ASSUME UNCHANGED <<channels, heard, ended, publisher, reader, frames, task>>, Steady
        PROVE  LifeAndKnown'
    BY <1>1, <1>2 DEF WaysKept, EndsTask, EndsReader, EndsStale
  <1>3. ASSUME NEW t \in Callers, BeginConnect(t) \/ Dial(t) \/ Commit(t) PROVE LifeAndKnown'
    <2>1. UNCHANGED <<channels, heard, ended, publisher, reader, frames>> /\ Steady
      BY <1>3 DEF BeginConnect, Dial, Commit, tables, tasks, daemon, Steady
    <2> QED
      BY <1>1, <1>3, <2>1, CallersQuiet
  <1>4. ASSUME Incoming \/ CompleteFails \/ \E what \in {"connect", "disconnect"} : Ask(what)
        PROVE  LifeAndKnown'
    <2>1. UNCHANGED <<channels, heard, ended, publisher, reader, frames>> /\ Steady
      BY <1>4 DEF Incoming, CompleteFails, Ask, tables, tasks, daemon, Steady
    <2> QED
      BY <1>1, <1>4, <2>1, CallersQuiet
  <1>5. \/ \E a \in Approvals : Decide(a, "approved") \/ Decide(a, "gone") \/ Expire(a)
        \/ \E g \in Gens : Lose(g)
        \/ TakeOuter \/ UNCHANGED vars
        => UNCHANGED <<channels, heard, ended, publisher, reader, frames, task>> /\ Steady
    BY DEF Decide, Expire, Lose, TakeOuter, vars, tables, tasks, daemon, Steady
  <1>6. ASSUME NEW g \in Gens, Remove(g) PROVE LifeAndKnown'
    <2>1. UNCHANGED <<channels, heard, ended, publisher, frames, task>> /\ Steady
      BY <1>6 DEF Remove, daemon, Steady
    <2>2. \A h \in Gens : EndsReader(h)' <=> EndsReader(h)
      BY <1>6 DEF Remove, EndsReader, Types, TaskTypes
    <2>3. PathKept /\ \A h \in Gens : WaysKept(h)
      BY <2>1, <2>2, PathSame DEF PathKept, WaysKept, EndsTask, EndsStale
    <2> QED
      BY <2>1, <2>3, QuietStep
  <1>7. ASSUME OtherPeers PROVE LifeAndKnown'
    <2>1. UNCHANGED <<hand, network, heard, ended, publisher, reader, frames, task>> /\ Steady /\ Send(Other)
      BY <1>7 DEF OtherPeers, tables, tasks, daemon, Steady
    <2>2. PathTakes(Other)
      BY <2>1, Sends DEF Sent
    <2>3. \A g \in Gens : WaysKept(g)
      BY <2>1 DEF WaysKept, EndsTask, EndsReader, EndsStale
    <2> QED
      BY <2>1, <2>2, <2>3, OtherStep
  <1>8. ASSUME Forward PROVE LifeAndKnown'
    <2>1. UNCHANGED <<heard, ended, publisher, reader, frames, task>> /\ Steady
      BY <1>8 DEF Forward, tables, tasks, daemon, Steady
    <2>2. PathKept
      BY <1>8, <2>1, PathForwarded DEF PathKept
    <2>3. \A g \in Gens : WaysKept(g)
      BY <2>1 DEF WaysKept, EndsTask, EndsReader, EndsStale
    <2> QED
      BY <2>1, <2>2, <2>3, QuietStep
  <1> QED
    BY <1>2, <1>3, <1>4, <1>5, <1>6, <1>7, <1>8, InstallStep, DisconnectStep, ReportStep, SendStaleStep,
       ReserveStep, PublishStep, FramesStep, RetireStep, AnnounceStep, HandleStep
    DEF Next, Caller, PublisherTask, ReaderTask

LEMMA LifeAndKnownInit == Init => LifeAndKnown
  <1> SUFFICES ASSUME Init PROVE LifeAndKnown
    OBVIOUS
  <1>1. Path = <<>>
    BY DEF Init, Path
  <1>2. DOMAIN Path = {}
    BY <1>1
  <1>3. \A g \in Gens : ~Ending(g) /\ ~Ended(g)
    BY <1>2 DEF Init, Ending, EndsReader, EndsTask, EndsStale, Ended, InPath, NoPublisher, Idle, Callers
  <1>4. GenInv
    BY <1>2, <1>3 DEF Init, GenInv
  <1>5. Exclusive
    BY <1>3 DEF Exclusive, Ending
  <1>6. LifeInv
    BY <1>2, <1>3, Bounds DEF Init, LifeInv, Gens
  <1>7. FramesAfter /\ EventsInOrder
    BY <1>2 DEF FramesAfter, EventsInOrder
  <1>8. KnownInv
    BY Bounds DEF Init, KnownInv, Gens
  <1> QED
    BY <1>4, <1>5, <1>6, <1>7, <1>8 DEF LifeAndKnown, OrderInv

LEMMA LifeInvariant == Spec => [](Types /\ TableInv /\ LifeAndKnown)
  <1>1. Types /\ TableInv /\ LifeAndKnown /\ [Next]_vars => (Types /\ TableInv /\ LifeAndKnown)'
    BY TypesStep, TableInvStep, LifeAndKnownStep
  <1> QED
    BY <1>1, TypesInit, TableInvInit, LifeAndKnownInit, PTL DEF Spec

(* The daemon hears of each generation in one piece, for channels of every *)
(* capacity: what the publisher, the lane readers, the message reader and  *)
(* a request of the user send, each under a lock of its own or under none, *)
(* comes in the order of a life, and each end comes once.                  *)
THEOREM EventsKeepOrder == Spec => []EventsInOrder
  <1>1. LifeAndKnown => EventsInOrder
    BY DEF LifeAndKnown, OrderInv
  <1> QED
    BY <1>1, LifeInvariant, PTL

(* When nothing is on its way and no outbound attempt has put a generation *)
(* over another, the daemon knows the connection that there is.            *)
THEOREM DaemonKnowsConnection == Spec => []DaemonAgrees
  <1>1. Types /\ TableInv /\ LifeAndKnown => DaemonAgrees
    <2> SUFFICES ASSUME Types, TableInv, LifeAndKnown, Settled, ~overwritten PROVE known = canonical
      BY DEF DaemonAgrees
    <2> USE DEF LifeAndKnown, OrderInv
    <2>1. DOMAIN Path = {}
      BY DEF Settled
    <2>2. \A e : ~InPath(e)
      BY <2>1 DEF InPath
    <2>3. \A g \in Gens : ~Ending(g) /\ publisher[g].at = "end"
      BY DEF Settled, Ending, EndsReader, EndsTask, EndsStale, Callers
    <2>4. \A g \in Gens : g < next => g = canonical \/ g \in ended
      BY <2>2, <2>3 DEF KnownInv, Ended
    <2>5. heard # 0 => heard \in Gens /\ heard < next
      BY Bounds DEF Types, DaemonTypes, GenInv, Ids, Gens
    <2>6. CASE canonical = 0
      BY <2>4, <2>5, <2>6 DEF KnownInv
    <2>7. CASE canonical # 0
      <3>1. canonical \in Gens
        BY <2>7, Bounds DEF Types, TableTypes, Ids, Gens
      <3>2. publication[canonical] = "connected"
        BY <2>3, <2>7, <3>1 DEF KnownInv, LifeInv, Types, TaskTypes
      <3>3. heard = canonical /\ canonical \notin ended
        BY <2>2, <2>7, <3>2 DEF LifeInv, Ended
      <3> QED
        BY <2>7, <3>3 DEF KnownInv
    <2> QED
      BY <2>6, <2>7
  <1> QED
    BY <1>1, LifeInvariant, PTL
=============================================================================
