--------------------------- MODULE UiStateStream ---------------------------
(***************************************************************************)
(* The stream of user-interface state: the input actor publishes what is   *)
(* held (input_state.rs), the aggregator numbers every change of its view  *)
(* (state_aggregator.rs), a connection streams them (ui_state_server.rs),  *)
(* and a client of the desktop application applies them in order           *)
(* (ui-state-client.mjs over the view of ui_state.rs).                     *)
(*                                                                         *)
(* The view is a few fields of two values each: the input fields of        *)
(* InputFields ("keys", "pad", "session"), "pointer" for what is only ever *)
(* latest-value, and "base" for all that the daemon's other state projects *)
(* (devices, layout, status).  A boot identity is a number, fresh for each *)
(* rebuild.  A tokio channel or a socket is a sequence.                    *)
(***************************************************************************)
EXTENDS Naturals, FiniteSets, SequencesExt

CONSTANTS
    InputFields,    \* a subset of "keys", "pad", "session"
    MaxEvents,      \* bounds the publications, pointer moves and other changes
    MaxConns,       \* bounds the connections the client makes
    InputCapacity,  \* the queue of input mutations
    LiveCapacity,   \* the broadcast channel of a subscriber
    ReplayCapacity, \* DEFAULT_REPLAY_CAPACITY
    WireCapacity    \* envelopes in the socket

ASSUME UiAssumption ==
    /\ InputFields \subseteq {"keys", "pad", "session"}
    /\ {MaxEvents, MaxConns} \subseteq Nat
    /\ {InputCapacity, LiveCapacity, ReplayCapacity, WireCapacity} \subseteq Nat \ {0}

VARIABLES
    auth,       \* the authoritative input projection and its generation
    publisher,  \* idle, about to send a mutation, or about to mark that the
                \* queue was full
    inputQueue, \* the mutations on their way to the aggregator
    dirty,      \* DirtyProjectionNotifier
    dropped,    \* history: the generation of the last mutation not sent
    lost,       \* history: input_cut_generation has passed a dropped mutation
    pointer,    \* the pointer's watch channel
    base,       \* the rest of the daemon's state
    due,        \* a reconcile is asked for: network, diagnostics, command
    pass,       \* where the aggregator's loop is
    sampled,    \* the base that a projection has read, if it has
    cut,        \* input_cut_generation
    server,     \* boot, revision and view of the aggregator
    replay,     \* the deltas kept for a client that comes back
    task,       \* the connection's task, and the cursor it subscribes with
    pending,    \* StateSubscriber.pending
    live,       \* the envelopes broadcast and not yet received
    lagged,     \* some were overwritten before they were received
    wire,       \* envelopes in the socket
    asked,      \* a Resync in the socket, from the client
    client,     \* the client's cursor and view, and resyncRequested
    events, conns

input == <<auth, publisher>>
daemon == <<base, due>>
actor == <<pass, sampled, cut, server, replay>>
subscriber == <<pending, live, lagged>>
connection == <<task, wire, asked, conns>>
vars == <<input, inputQueue, dirty, dropped, lost, pointer, daemon, actor,
          subscriber, connection, client, events>>

Fields == InputFields \cup {"pointer", "base"}
Views == [Fields -> BOOLEAN]
NoCursor == <<>>
Cursors == Seq(Nat)     \* <<boot, revision>>, or NoCursor

(* Keys and sessions are published whole; of a gamepad only the buttons    *)
(* that changed are sent, and nothing when none did.                       *)
Mutations == [gen : Nat, field : InputFields, value : BOOLEAN]

Init ==
    /\ auth = [gen |-> 0, input |-> [f \in InputFields |-> FALSE]]
    /\ publisher = [at |-> "idle"]
    /\ inputQueue = <<>> /\ dirty = FALSE /\ dropped = 0 /\ lost = FALSE
    /\ pointer = [value |-> FALSE, fresh |-> FALSE]
    /\ base = FALSE /\ due = FALSE
    /\ pass = "poll" /\ sampled = <<>> /\ cut = 0
    /\ server = [boot |-> 1, rev |-> 0, view |-> [f \in Fields |-> FALSE]]
    /\ replay = <<>>
    /\ task = [at |-> "down", cursor |-> NoCursor]
    /\ pending = <<>> /\ live = <<>> /\ lagged = FALSE
    /\ wire = <<>> /\ asked = FALSE
    /\ client = [boot |-> 0, rev |-> 0, view |-> [f \in Fields |-> FALSE],
                 truth |-> [f \in Fields |-> FALSE], resync |-> FALSE]
    /\ events = 0 /\ conns = 0

(***************************************************************************)
(* Envelopes.  A delta carries, for the properties only, the view that the *)
(* server had when it sent it.                                             *)
(***************************************************************************)
Delta(boot, rev, change, view) ==
    [type |-> "delta", boot |-> boot, rev |-> rev, change |-> change, view |-> view]
Snapshot(s) == [type |-> "snapshot", boot |-> s.boot, rev |-> s.rev, view |-> s.view]
Heartbeat(s) == [type |-> "heartbeat", boot |-> s.boot, rev |-> s.rev]
ResyncRequired(s) == [type |-> "resync", boot |-> s.boot, rev |-> s.rev]

Change(f, v) == [field |-> f, value |-> v]

(* UiView::apply_delta, for what it does to the view. *)
Applied(view, change) == [view EXCEPT ![change.field] = change.value]

AppliedAll(view, changes) ==
    [f \in DOMAIN view |->
        LET hits == {i \in DOMAIN changes : changes[i].field = f}
        IN  IF hits = {} THEN view[f] ELSE changes[CHOOSE i \in hits : \A j \in hits : j <= i].value]

(* Latest-value fields are not kept for replay; a run of changes has at     *)
(* most one of them, the pointer.                                          *)
Realtime(change) == change.field = "pointer"

Reliable(deltas) ==
    LET realtime == {i \in DOMAIN deltas : Realtime(deltas[i].change)}
    IN  IF realtime = {} THEN deltas ELSE RemoveAt(deltas, CHOOSE i \in realtime : TRUE)

KeepLast(s, n) == SubSeq(s, IF Len(s) > n THEN Len(s) - n + 1 ELSE 1, Len(s))

(* tokio's broadcast channel: a slow receiver loses the oldest envelopes   *)
(* and is told so at its next receive.                                     *)
Broadcast(envelopes) ==
    IF task.at \in {"stream", "recovering"}
    THEN /\ live' = KeepLast(live \o envelopes, LiveCapacity)
         /\ lagged' = (lagged \/ Len(live) + Len(envelopes) > LiveCapacity)
    ELSE UNCHANGED <<live, lagged>>

(* emit_reliable and emit_realtime for a run of changes: each takes the    *)
(* next revision, is applied to the view, and is broadcast.                *)
Emit(changes) ==
    LET deltas == [i \in DOMAIN changes |->
            Delta(server.boot, server.rev + i, changes[i],
                  AppliedAll(server.view, SubSeq(changes, 1, i)))]
    IN  /\ server' = [server EXCEPT !.rev = @ + Len(changes),
                                    !.view = AppliedAll(@, changes)]
        /\ replay' = KeepLast(replay \o Reliable(deltas), ReplayCapacity)
        /\ Broadcast(deltas)

(***************************************************************************)
(* The input actor publishes: the authoritative projection first, then the *)
(* mutation, and when the queue is full a mark.  Each is a step of its own *)
(* for the aggregator, which runs on another thread.                       *)
(***************************************************************************)
CountEvent ==
    /\ events < MaxEvents
    /\ events' = events + 1

Publish(f, v) ==
    /\ CountEvent
    /\ publisher.at = "idle"
    /\ auth' = [gen |-> auth.gen + 1, input |-> [auth.input EXCEPT ![f] = v]]
    /\ publisher' = IF f = "pad" /\ v = auth.input[f]
                    THEN publisher
                    ELSE [at |-> "send",
                          mutation |-> [gen |-> auth.gen + 1, field |-> f, value |-> v]]
    /\ UNCHANGED <<inputQueue, dirty, dropped, lost, pointer, daemon, actor,
                   subscriber, connection, client>>

TrySend ==
    /\ publisher.at = "send"
    /\ IF Len(inputQueue) < InputCapacity
       THEN /\ inputQueue' = Append(inputQueue, publisher.mutation)
            /\ publisher' = [at |-> "idle"]
            /\ UNCHANGED dropped
       ELSE /\ publisher' = [at |-> "mark"]
            /\ dropped' = publisher.mutation.gen
            /\ UNCHANGED inputQueue
    /\ UNCHANGED <<auth, dirty, lost, pointer, daemon, actor, subscriber,
                   connection, client, events>>

Mark ==
    /\ publisher.at = "mark"
    /\ dirty' = TRUE
    /\ publisher' = [at |-> "idle"]
    /\ UNCHANGED <<auth, inputQueue, dropped, lost, pointer, daemon, actor,
                   subscriber, connection, client, events>>

MovePointer ==
    /\ CountEvent
    /\ pointer' = [value |-> ~pointer.value, fresh |-> TRUE]
    /\ UNCHANGED <<input, inputQueue, dirty, dropped, lost, daemon, actor,
                   subscriber, connection, client>>

(* The daemon's other state changes, and says so. *)
ChangeBase ==
    /\ CountEvent
    /\ base' = ~base
    /\ due' = TRUE
    /\ UNCHANGED <<input, inputQueue, dirty, dropped, lost, pointer, actor,
                   subscriber, connection, client>>

(***************************************************************************)
(* The aggregator.  A pass of its loop looks at the dirty flag first and   *)
(* then, in a fixed order, at its other sources.  They fill while the pass *)
(* runs, so after a clean dirty flag any that is ready may be the one.     *)
(***************************************************************************)
NeedsRebuild == auth.gen > cut

PollDirty ==
    /\ pass = "poll"
    /\ dirty' = FALSE
    /\ pass' = IF ~dirty THEN "rest" ELSE IF NeedsRebuild THEN "rebuild" ELSE "poll"
    /\ UNCHANGED <<input, inputQueue, dropped, lost, pointer, daemon, sampled, cut,
                   server, replay, subscriber, connection, client, events>>

(* A pass that finds nothing ends; the next one starts at the top.         *)
Sleep ==
    /\ pass = "rest"
    /\ inputQueue = <<>> /\ ~pointer.fresh /\ ~due
    /\ task.at \notin {"subscribing", "recovering"}
    /\ pass' = "poll"
    /\ UNCHANGED <<input, inputQueue, dirty, dropped, lost, pointer, daemon, sampled,
                   cut, server, replay, subscriber, connection, client, events>>

\* Mutant: a mutation is applied also when a projection has covered it.
CoveredNever(m) == FALSE

(* A mutation that a cut has already covered changes nothing. *)
Covered(m) == m.gen <= cut

TakeMutation ==
    /\ pass = "rest"
    /\ inputQueue # <<>>
    /\ LET m == Head(inputQueue)
       IN  IF Covered(m)
           THEN UNCHANGED <<cut, lost, server, replay, live, lagged>>
           ELSE /\ cut' = m.gen
                /\ lost' = (lost \/ (cut < dropped /\ dropped < m.gen))
                /\ IF server.view[m.field] # m.value
                   THEN Emit(<<Change(m.field, m.value)>>)
                   ELSE UNCHANGED <<server, replay, live, lagged>>
    /\ inputQueue' = Tail(inputQueue)
    /\ pass' = "poll"
    /\ UNCHANGED <<input, dirty, dropped, pointer, daemon, sampled, pending,
                   connection, client, events>>

TakePointer ==
    /\ pass = "rest"
    /\ pointer.fresh
    /\ pointer' = [pointer EXCEPT !.fresh = FALSE]
    /\ Emit(<<Change("pointer", pointer.value)>>)
    /\ pass' = "poll"
    /\ UNCHANGED <<input, inputQueue, dirty, dropped, lost, daemon, sampled, cut,
                   pending, connection, client, events>>

StartReconcile ==
    /\ pass = "rest"
    /\ due
    /\ due' = FALSE
    /\ pass' = "reconcile"
    /\ UNCHANGED <<input, inputQueue, dirty, dropped, lost, pointer, base, sampled,
                   cut, server, replay, subscriber, connection, client, events>>

(* project(): the daemon's state is read under its lock, and only then the *)
(* input is laid over it.                                                  *)
ReadBase ==
    /\ pass \in {"rebuild", "reconcile"}
    /\ sampled = <<>>
    /\ sampled' = <<base>>
    /\ UNCHANGED <<input, inputQueue, dirty, dropped, lost, pointer, daemon, pass,
                   cut, server, replay, subscriber, connection, client, events>>

Projection ==
    [f \in Fields |-> CASE f = "base"    -> sampled[1]
                        [] f = "pointer" -> pointer.value
                        [] OTHER         -> auth.input[f]]

(* The generation that is covered is that of the input just laid over, and *)
(* the latest-value channels have been read.                               *)
CoverProjection ==
    /\ cut' = auth.gen
    /\ lost' = FALSE
    /\ pointer' = [pointer EXCEPT !.fresh = FALSE]
    /\ sampled' = <<>>
    /\ pass' = "poll"

Replacement == [boot |-> server.boot + 1, rev |-> 0, view |-> Projection]

Rebuild ==
    /\ pass = "rebuild"
    /\ sampled # <<>>
    /\ CoverProjection
    /\ server' = Replacement
    /\ replay' = <<>>
    /\ Broadcast(<<ResyncRequired(Replacement), Snapshot(Replacement)>>)
    /\ UNCHANGED <<input, inputQueue, dirty, dropped, daemon, pending, connection,
                   client, events>>

(* A reconcile emits the fields that differ, in this order. *)
Difference(f) ==
    IF f \in Fields /\ server.view[f] # Projection[f]
    THEN <<Change(f, Projection[f])>> ELSE <<>>

Differences == Difference("base") \o Difference("keys") \o Difference("pad")
                   \o Difference("pointer") \o Difference("session")

Reconcile ==
    /\ pass = "reconcile"
    /\ sampled # <<>>
    /\ CoverProjection
    /\ Emit(Differences)
    /\ UNCHANGED <<input, inputQueue, dirty, dropped, daemon, pending, connection,
                   client, events>>

(* What a subscription starts with.  The live receiver is taken in the     *)
(* same step, so nothing falls between the two.                            *)
Contiguous(deltas, rev) ==
    /\ \A i \in DOMAIN deltas : deltas[i].rev = rev + i
    /\ deltas # <<>> /\ Last(deltas).rev = server.rev

\* The history ascends: what comes later than rev is the end of it.
Later(rev) ==
    SubSeq(replay, 1 + Cardinality({i \in DOMAIN replay : replay[i].rev <= rev}), Len(replay))

Answer(cursor) ==
    LET later == Later(cursor[2])
        resync == <<ResyncRequired(server), Snapshot(server)>>
    IN  IF cursor = NoCursor THEN <<Snapshot(server)>>
        ELSE IF cursor[1] # server.boot \/ cursor[2] > server.rev THEN resync
        ELSE IF cursor[2] = server.rev THEN <<>>
        ELSE IF Contiguous(later, cursor[2]) THEN later ELSE resync

HandleSubscribe ==
    /\ pass = "rest"
    /\ task.at = "subscribing"
    /\ pending' = Answer(task.cursor)
    /\ live' = <<>> /\ lagged' = FALSE
    /\ task' = [at |-> "stream", cursor |-> NoCursor]
    /\ pass' = "poll"
    /\ UNCHANGED <<input, inputQueue, dirty, dropped, lost, pointer, daemon, sampled,
                   cut, server, replay, wire, asked, conns, client, events>>

(* RecoverLag: the receiver moves to the end, behind a snapshot.  The      *)
(* notice is what recv returns, so it goes out at once.                    *)
HandleRecoverLag ==
    /\ pass = "rest"
    /\ task.at = "recovering"
    /\ live' = <<>> /\ lagged' = FALSE
    /\ pending' = Append(pending, Snapshot(server))
    /\ wire' = Append(wire, ResyncRequired(server))
    /\ task' = [task EXCEPT !.at = "stream"]
    /\ pass' = "poll"
    /\ UNCHANGED <<input, inputQueue, dirty, dropped, lost, pointer, daemon, sampled,
                   cut, server, replay, asked, conns, client, events>>

(***************************************************************************)
(* The connection's task: it waits for the next envelope, the heartbeat's  *)
(* tick and the client's messages at once, and drops the waits that lose.  *)
(***************************************************************************)
aggregator == <<input, inputQueue, dirty, dropped, lost, pointer, daemon, actor, events>>

Open == task.at \in {"stream", "recovering"}
WireHasRoom == Len(wire) < WireCapacity

SendNext ==
    /\ task.at = "stream"
    /\ WireHasRoom
    /\ \/ /\ pending # <<>>
          /\ wire' = Append(wire, Head(pending))
          /\ pending' = Tail(pending)
          /\ UNCHANGED <<live, lagged, task>>
       \/ /\ pending = <<>> /\ lagged
          /\ lagged' = FALSE
          /\ task' = [task EXCEPT !.at = "recovering"]
          /\ UNCHANGED <<wire, pending, live>>
       \/ /\ pending = <<>> /\ ~lagged /\ live # <<>>
          /\ wire' = Append(wire, Head(live))
          /\ live' = Tail(live)
          /\ UNCHANGED <<pending, lagged, task>>
    /\ UNCHANGED <<aggregator, asked, conns, client>>

(* A tick while a lag is being recovered drops the recovery: the receiver  *)
(* goes on behind the envelopes it lost.                                   *)
Tick ==
    /\ Open
    /\ WireHasRoom
    /\ wire' = Append(wire, Heartbeat(server))
    /\ task' = [task EXCEPT !.at = "stream"]
    /\ UNCHANGED <<aggregator, subscriber, asked, conns, client>>

ReadResync ==
    /\ Open
    /\ asked
    /\ asked' = FALSE
    /\ task' = [at |-> "subscribing", cursor |-> NoCursor]
    /\ UNCHANGED <<aggregator, subscriber, wire, conns, client>>

Disconnect ==
    /\ task.at # "down"
    /\ conns < MaxConns
    /\ task' = [at |-> "down", cursor |-> NoCursor]
    /\ wire' = <<>> /\ asked' = FALSE
    /\ pending' = <<>> /\ live' = <<>> /\ lagged' = FALSE
    /\ UNCHANGED <<aggregator, conns, client>>

(***************************************************************************)
(* The client.                                                             *)
(***************************************************************************)
(* attemptConnect: with its cursor, unless it is waiting for a snapshot or *)
(* never had one.                                                          *)
Connect ==
    /\ task.at = "down"
    /\ conns < MaxConns
    /\ conns' = conns + 1
    /\ task' = [at |-> "subscribing",
                cursor |-> IF client.resync \/ client.boot = 0
                           THEN NoCursor ELSE <<client.boot, client.rev>>]
    /\ UNCHANGED <<aggregator, subscriber, wire, asked, client>>

(* requestFullResync asks once, until a snapshot answers. *)
RequestFullResync ==
    /\ client' = [client EXCEPT !.resync = TRUE]
    /\ asked' = (asked \/ ~client.resync)

\* Mutant: a later revision will do.
IsLaterRevision(e) == e.boot = client.boot /\ e.rev > client.rev

IsNextRevision(e) == e.boot = client.boot /\ e.rev = client.rev + 1

Behind(e) ==
    \/ e.boot # client.boot
    \/ e.rev > client.rev

Accept(e, view) ==
    client' = [client EXCEPT !.boot = e.boot, !.rev = e.rev, !.view = view, !.truth = e.view]

\* Mutant: the request that a snapshot has answered stays open.
TakeSnapshotStillAsking(e) == Accept(e, e.view)

TakeSnapshot(e) ==
    client' = [boot |-> e.boot, rev |-> e.rev, view |-> e.view, truth |-> e.view,
               resync |-> FALSE]

HandleEnvelope(e) ==
    CASE e.type = "snapshot" -> TakeSnapshot(e) /\ UNCHANGED asked
      [] e.type = "delta" /\ IsNextRevision(e) ->
            Accept(e, Applied(client.view, e.change)) /\ UNCHANGED asked
      [] e.type = "heartbeat" /\ ~Behind(e) -> UNCHANGED <<client, asked>>
      [] OTHER -> RequestFullResync

Receive ==
    /\ wire # <<>>
    /\ HandleEnvelope(Head(wire))
    /\ wire' = Tail(wire)
    /\ UNCHANGED <<aggregator, subscriber, task, conns>>

(***************************************************************************)
(* The whole.                                                              *)
(***************************************************************************)
InputStep == \/ \E f \in InputFields, v \in BOOLEAN : Publish(f, v)
             \/ TrySend \/ Mark
ActorStep == \/ PollDirty \/ Sleep \/ TakeMutation \/ TakePointer
             \/ StartReconcile \/ ReadBase \/ Rebuild \/ Reconcile
ServeStep == HandleSubscribe \/ HandleRecoverLag
TaskStep == SendNext \/ Tick \/ ReadResync
ClientStep == Connect \/ Receive

Next == \/ InputStep \/ MovePointer \/ ChangeBase
        \/ ActorStep \/ ServeStep \/ TaskStep \/ ClientStep \/ Disconnect

Spec == Init /\ [][Next]_vars

(* Threads and tasks keep running, and the heartbeat ticks.  A select! that *)
(* finds several waits ready picks one at random, so that an envelope that  *)
(* is ready again and again is sent in the end.                             *)
Fairness ==
    /\ WF_vars(TrySend) /\ WF_vars(Mark)
    /\ WF_vars(ActorStep) /\ WF_vars(ServeStep)
    /\ SF_vars(SendNext) /\ WF_vars(Tick) /\ WF_vars(ReadResync)
    /\ WF_vars(Connect) /\ WF_vars(Receive)

FairSpec == Spec /\ Fairness

(***************************************************************************)
(* Properties.                                                             *)
(***************************************************************************)
Deltas == [type : {"delta"}, boot : Nat, rev : Nat,
           change : [field : Fields, value : BOOLEAN], view : Views]
Envelopes == Deltas
    \cup [type : {"snapshot"}, boot : Nat, rev : Nat, view : Views]
    \cup [type : {"heartbeat", "resync"}, boot : Nat, rev : Nat]

(* Every variable has its type, and every queue keeps to its capacity. *)
UiTypeOK ==
    /\ auth.gen \in Nat /\ auth.input \in [InputFields -> BOOLEAN]
    /\ publisher.at \in {"idle", "send", "mark"}
    /\ inputQueue \in Seq(Mutations) /\ Len(inputQueue) <= InputCapacity
    /\ {dirty, lost, base, due, lagged, asked} \subseteq BOOLEAN
    /\ pointer \in [value : BOOLEAN, fresh : BOOLEAN]
    /\ pass \in {"poll", "rest", "rebuild", "reconcile"}
    /\ sampled \in {<<>>, <<TRUE>>, <<FALSE>>}
    /\ {cut, dropped} \subseteq 0 .. auth.gen
    /\ server \in [boot : Nat, rev : Nat, view : Views]
    /\ replay \in Seq(Deltas) /\ Len(replay) <= ReplayCapacity
    /\ task.at \in {"down", "subscribing", "stream", "recovering"}
    /\ task.cursor \in Cursors
    /\ {pending, live, wire} \subseteq Seq(Envelopes)
    /\ Len(live) <= LiveCapacity /\ Len(wire) <= WireCapacity
    /\ client \in [boot : Nat, rev : Nat, view : Views, truth : Views, resync : BOOLEAN]

(* Types and capacities hold; and what the client shows under a boot       *)
(* identity and a revision is what the aggregator showed under them:       *)
(* across lost envelopes, rebuilds, replays, recoveries that a tick drops, *)
(* and reconnections.                                                      *)
ClientMatchesServer == UiTypeOK /\ client.view = client.truth

Drained ==
    /\ publisher.at = "idle" /\ inputQueue = <<>> /\ ~dirty
    /\ pass \in {"poll", "rest"}

(* Once the input mutations are all taken, the view shows the authoritative *)
(* input: none is lost or applied twice across a full queue, a rebuild and  *)
(* the generations that a projection covered.  (Unless a dropped mutation   *)
(* was passed before its mark was seen; see DroppedInputRecovered.)         *)
DrainedShowsInput ==
    Drained /\ ~lost => \A f \in InputFields : server.view[f] = auth.input[f]

(* docs/plans/2026-07-28-low-latency-control-and-display-implementation-   *)
(* plan.md says that reliable mutations cannot be silently lost, nor the   *)
(* dirty signal: a mutation that found the queue full is in the view once  *)
(* everything has come to rest.                                            *)
DroppedInputRecovered ==
    Drained => \A f \in InputFields : server.view[f] = auth.input[f]

(* When changes and disconnections stop, the client comes to show what the *)
(* aggregator shows, also when it was behind and nothing more is sent.     *)
ClientCatchesUp ==
    <>[](/\ <<client.boot, client.rev>> = <<server.boot, server.rev>>
         /\ client.view = server.view)
===========================================================================
