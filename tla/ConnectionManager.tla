------------------------- MODULE ConnectionManager -------------------------
(***************************************************************************)
(* The connections with one peer, from an attempt to the daemon's          *)
(* knowledge of it: crates/rshare-net/src/connection.rs, the forwarder and *)
(* the auto-connect of network_manager.rs, and the daemon's event loop.    *)
(*                                                                         *)
(* A connection gets its generation when it is installed.  From then on    *)
(* its own tasks announce it, forward its frames and retire it; what they  *)
(* do under the lifecycle lock, which nobody holds across an await, is one *)
(* step.  The events go through two bounded channels to the event loop.    *)
(* Attempts are made by three callers: a request of the user (ipc), the    *)
(* auto-connect, and the accept loop.                                      *)
(***************************************************************************)
EXTENDS Integers, Sequences, FiniteSets

CONSTANTS EventCapacity,    \* capacity of the manager's event channel
          NetworkCapacity,  \* capacity of the network manager's event channel
          GenMax,           \* bound: generations
          ApprovalMax       \* bound: approvals asked for

ASSUME ManagerAssumption ==
    {EventCapacity, NetworkCapacity, GenMax, ApprovalMax} \subseteq Nat \ {0}

VARIABLES
    canonical,    \* connections: the peer's generation, 0 if none
    pool,         \* ConnectionPool: the generation of its entry
    registry,     \* ConnectionRegistry (QoS): the same
    next,         \* next_generation
    live,         \* generations whose QUIC connection is up
    publication,  \* GenerationPublication
    publisher,    \* spawn_connected_publisher: its step, and the stale id it sends first
    frames,       \* the event readers of the typed lanes
    reader,       \* the message reader, which retires the generation
    events, hand, network,  \* event_rx, the event in the forwarder, the daemon's receiver
    loop,         \* the event loop: receives, or awaits the outer NetworkManager lock
    known,        \* current_generations
    task,         \* the callers: their step, and the approval their attempt relies on
    approval,     \* PendingApprovalRegistry: the fate of each request for approval
    trusted,      \* the trust store has the peer's certificate
    heard, ended, \* history: last generation the loop was told of, and those it saw end
    overwritten   \* history: a generation was replaced without being ended

tables == <<canonical, pool, registry, next, live>>
tasks == <<publication, publisher, frames, reader>>
channels == <<events, hand, network>>
daemon == <<loop, known, heard, ended>>
trust == <<approval, trusted>>
vars == <<tables, tasks, channels, daemon, task, trust, overwritten>>

Gens == 1 .. GenMax
Ids == 0 .. GenMax
Approvals == 1 .. ApprovalMax
Callers == {"ipc", "auto", "accept"}

Connected(g) == [type |-> "Connected", gen |-> g]
Disconnected(g) == [type |-> "Disconnected", gen |-> g]
Frame(g) == [type |-> "Frame", gen |-> g]
Other == [type |-> "Other", gen |-> 0]   \* of another peer, or a failed attempt's error
Nothing == [type |-> "None", gen |-> 0]
Events == [type : {"Connected", "Disconnected", "Frame", "Other", "None"}, gen : Ids]

NoPublisher == [at |-> "end", stale |-> 0]
Idle == [at |-> "idle", approval |-> 0, event |-> Nothing]

ManagerTypeOK ==
    /\ {canonical, pool, registry, known, heard} \subseteq Ids /\ next \in 1 .. GenMax + 1
    /\ live \subseteq Gens /\ ended \subseteq Gens
    /\ publication \in [Gens -> {"pending", "connected", "cancelled"}]
    /\ publisher \in [Gens -> [at : {"stale", "reserve", "permit", "end"}, stale : Ids]]
    /\ frames \in [Gens -> {"read", "permit", "end"}]
    /\ reader \in [Gens -> {"read", "remove", "announce", "end"}]
    /\ {events, network} \subseteq Seq(Events) /\ hand \in Events
    /\ Len(events) <= EventCapacity /\ Len(network) <= NetworkCapacity
    /\ loop \in {"recv", "lock"}
    /\ task \in [Callers -> [at : {"idle", "connect", "disconnect", "dial", "complete",
                                   "install", "send"},
                             approval : 0 .. ApprovalMax, event : Events]]
    /\ approval \in [Approvals -> {"none", "asked", "approved", "used", "gone"}]
    /\ {trusted, overwritten} \subseteq BOOLEAN

Init ==
    /\ canonical = 0 /\ pool = 0 /\ registry = 0 /\ next = 1 /\ live = {}
    /\ publication = [g \in Gens |-> "pending"]
    /\ publisher = [g \in Gens |-> NoPublisher]
    /\ frames = [g \in Gens |-> "end"] /\ reader = [g \in Gens |-> "end"]
    /\ events = <<>> /\ hand = Nothing /\ network = <<>>
    /\ loop = "recv" /\ known = 0 /\ heard = 0 /\ ended = {}
    /\ task = [t \in Callers |-> Idle]
    /\ approval = [a \in Approvals |-> "none"] /\ trusted \in BOOLEAN
    /\ overwritten = FALSE

(* A permit of the event channel is a place taken in it.                   *)
Permits == {g \in Gens : publisher[g].at = "permit"} \X {"publisher"}
           \cup {g \in Gens : frames[g] = "permit"} \X {"frames"}
HasRoom == Len(events) + Cardinality(Permits) < EventCapacity
Send(e) == HasRoom /\ events' = Append(events, e)

(* The locks: the outer NetworkManager's is held by the user's request for *)
(* its whole length, the inner ConnectionManager's by an attempt or a      *)
(* disconnection until its event is sent.                                  *)
OuterFree == task["ipc"].at = "idle"
InnerFree == \A t \in {"ipc", "auto"} : task[t].at \in {"idle", "connect", "disconnect"}
PoolUp == pool \in live

Become(t, next_step) == task' = [task EXCEPT ![t] = next_step]
Step(t, at) == [task[t] EXCEPT !.at = at]
Sending(e) == [Idle EXCEPT !.at = "send", !.event = e]
Cancel(g) == IF g = 0 THEN publication ELSE [publication EXCEPT ![g] = "cancelled"]

-----------------------------------------------------------------------------
(* Approval of a certificate that the trust store does not have.           *)

Waiting == {a \in Approvals : approval[a] \in {"asked", "approved"}}
Standing == {a \in Approvals : approval[a] = "approved"}
Unused == {a \in Approvals : approval[a] = "none"}
Fate(a, fate) == approval' = [approval EXCEPT ![a] = fate]

(* PendingApprovalRegistry::observe: one request for a certificate.        *)
Observe ==
    IF Waiting = {} /\ Unused # {}
    THEN Fate(CHOOSE a \in Unused : \A b \in Unused : a <= b, "asked")
    ELSE UNCHANGED approval

(* The user approves or rejects, under both locks.                         *)
Decide(a, fate) ==
    /\ OuterFree /\ InnerFree
    /\ approval[a] = "asked" \/ (approval[a] = "approved" /\ fate = "gone")
    /\ Fate(a, fate)
    /\ UNCHANGED <<tables, tasks, channels, daemon, task, trusted, overwritten>>

(* prune: its time is over, approved or not.                               *)
Expire(a) ==
    /\ a \in Waiting
    /\ Fate(a, "gone")
    /\ UNCHANGED <<tables, tasks, channels, daemon, task, trusted, overwritten>>

-----------------------------------------------------------------------------
(* The callers.                                                            *)

(* A request of the user takes the outer lock and waits for the inner one. *)
Ask(what) ==
    /\ task["ipc"] = Idle
    /\ Become("ipc", Step("ipc", what))
    /\ UNCHANGED <<tables, tasks, channels, daemon, trust, overwritten>>

(* connect, up to its first await: of the user's request, or of the        *)
(* auto-connect, which holds nothing while it waits for the inner lock.    *)
BeginConnect(t) ==
    /\ task[t].at = IF t = "ipc" THEN "connect" ELSE "idle"
    /\ t # "accept" /\ InnerFree
    /\ IF PoolUp THEN t = "ipc" /\ Become(t, Idle)
       ELSE \E a \in IF trusted \/ Standing = {} THEN {0} ELSE Standing :
                Become(t, [Step(t, "dial") EXCEPT !.approval = a])
    /\ UNCHANGED <<tables, tasks, channels, daemon, trust, overwritten>>

(* The transport's connection and the handshake.  They fail, for want of   *)
(* an approval or otherwise, and the failure is reported; or it is another *)
(* peer that answers, and nothing is; or they succeed.                     *)
Dial(t) ==
    /\ task[t].at = "dial"
    /\ \/ Become(t, Sending(Other)) /\ UNCHANGED approval
       \/ Become(t, Idle) /\ UNCHANGED approval
       \/ /\ ~trusted /\ task[t].approval = 0
          /\ Observe
          /\ Become(t, Sending(Other))
       \/ /\ trusted \/ task[t].approval # 0
          /\ Become(t, Step(t, "complete"))
          /\ UNCHANGED approval
    /\ UNCHANGED <<tables, tasks, channels, daemon, trusted, overwritten>>

(* start_server's loop takes a connection: authorize_inbound_peer, and the *)
(* answer that completes the handshake.                                    *)
Incoming ==
    /\ task["accept"] = Idle
    /\ IF trusted \/ Standing # {}
       THEN /\ \E a \in IF trusted THEN {0} ELSE Standing :
                   Become("accept", [Step("accept", "complete") EXCEPT !.approval = a])
            /\ UNCHANGED approval
       ELSE Observe /\ UNCHANGED task
    /\ UNCHANGED <<tables, tasks, channels, daemon, trusted, overwritten>>

Refused(t) == IF t = "accept" THEN Idle ELSE Sending(Other)

\* Mutant: what stood when the attempt began is taken to stand.
CommitUnchecked(t) ==
    /\ task[t].at = "complete"
    /\ trusted' = TRUE
    /\ approval' = [a \in Approvals |-> IF a = task[t].approval THEN "used" ELSE approval[a]]
    /\ Become(t, Step(t, "install"))
    /\ UNCHANGED <<tables, tasks, channels, daemon, overwritten>>

(* The trust commit: an attempt that relies on an approval needs one that  *)
(* still stands, and uses it up.                                           *)
Commit(t) ==
    /\ task[t].at = "complete"
    /\ IF task[t].approval = 0 THEN
           Become(t, Step(t, "install")) /\ UNCHANGED trust
       ELSE IF Standing = {} THEN
           Become(t, Refused(t)) /\ UNCHANGED trust
       ELSE
           /\ \E a \in Standing : Fate(a, "used")
           /\ trusted' = TRUE
           /\ Become(t, Step(t, "install"))
    /\ UNCHANGED <<tables, tasks, channels, daemon, overwritten>>

(* The answer of the accept loop does not get through.                     *)
CompleteFails ==
    /\ task["accept"].at = "complete"
    /\ Become("accept", Idle)
    /\ UNCHANGED <<tables, tasks, channels, daemon, trust, overwritten>>

(* A new generation, with its tasks; an entry that is left in the pool is  *)
(* dead and is dropped.                                                    *)
NewGeneration(stale) ==
    /\ next <= GenMax /\ next' = next + 1
    /\ canonical' = next /\ pool' = next /\ registry' = next
    /\ live' = live \cup {next}
    /\ publisher' = [publisher EXCEPT ![next] =
                         [at |-> IF stale = 0 THEN "reserve" ELSE "stale", stale |-> stale]]
    /\ frames' = [frames EXCEPT ![next] = "read"]
    /\ reader' = [reader EXCEPT ![next] = "read"]

(* Installation under the lifecycle lock.  A live connection stays, the    *)
(* candidate is closed; so is one that has failed in the meantime.  The    *)
(* accept loop ends the generation it replaces, an outbound attempt puts   *)
(* the new one over it.                                                    *)
Install(t) ==
    /\ task[t].at = "install"
    /\ Become(t, Idle)
    /\ \/ UNCHANGED <<tables, tasks, overwritten>>
       \/ /\ ~PoolUp
          /\ IF t = "accept"
             THEN /\ NewGeneration(canonical)
                  /\ publication' = Cancel(canonical)
                  /\ UNCHANGED overwritten
             ELSE /\ NewGeneration(0)
                  /\ overwritten' = (overwritten \/ canonical # 0)
                  /\ UNCHANGED publication
    /\ UNCHANGED <<channels, daemon, trust>>

(* disconnect, up to the sending of its event.                             *)
Disconnect ==
    /\ task["ipc"].at = "disconnect" /\ InnerFree
    /\ publication' = Cancel(canonical)
    /\ registry' = IF registry = canonical THEN 0 ELSE registry
    /\ canonical' = 0 /\ pool' = 0
    /\ live' = live \ {pool}
    /\ Become("ipc", IF canonical = 0 THEN Idle ELSE Sending(Disconnected(canonical)))
    /\ UNCHANGED <<next, publisher, frames, reader, channels, daemon, trust, overwritten>>

(* The event of a failed attempt or of a disconnection finds room, and the *)
(* caller lets go of its locks.                                            *)
Report(t) ==
    /\ task[t].at = "send"
    /\ Send(task[t].event)
    /\ Become(t, Idle)
    /\ UNCHANGED <<tables, tasks, hand, network, daemon, trust, overwritten>>

-----------------------------------------------------------------------------
(* The tasks of a generation.                                              *)

(* The connection ends, by its peer or by itself.                          *)
Lose(g) ==
    /\ g \in live
    /\ live' = live \ {g}
    /\ UNCHANGED <<canonical, pool, registry, next, tasks, channels, daemon, task, trust,
                   overwritten>>

PublisherAt(g, at) == publisher' = [publisher EXCEPT ![g].at = at]

(* spawn_connected_publisher: the end of the generation it replaced, ...   *)
SendStale(g) ==
    /\ publisher[g].at = "stale"
    /\ Send(Disconnected(publisher[g].stale))
    /\ PublisherAt(g, "reserve")
    /\ UNCHANGED <<tables, publication, frames, reader, hand, network, daemon, task, trust,
                   overwritten>>

(* ... a place in the channel, unless it is cancelled, ...                 *)
ReservePlace(g) ==
    /\ publisher[g].at = "reserve"
    /\ IF publication[g] = "cancelled" THEN PublisherAt(g, "end")
                                       ELSE HasRoom /\ PublisherAt(g, "permit")
    /\ UNCHANGED <<tables, publication, frames, reader, channels, daemon, task, trust,
                   overwritten>>

\* Mutant: it does not look again when it has its place.
PublishAnyway(g) ==
    /\ publisher[g].at = "permit"
    /\ PublisherAt(g, "end")
    /\ events' = Append(events, Connected(g))
    /\ publication' = [publication EXCEPT ![g] = "connected"]
    /\ UNCHANGED <<tables, frames, reader, hand, network, daemon, task, trust, overwritten>>

(* ... and, if the generation still is the current one, its announcement.  *)
Publish(g) ==
    /\ publisher[g].at = "permit"
    /\ PublisherAt(g, "end")
    /\ IF canonical = g /\ publication[g] = "pending"
       THEN /\ events' = Append(events, Connected(g))
            /\ publication' = [publication EXCEPT ![g] = "connected"]
       ELSE UNCHANGED <<events, publication>>
    /\ UNCHANGED <<tables, frames, reader, hand, network, daemon, task, trust, overwritten>>

(* The readers begin when the generation has been announced                *)
(* (wait_for_connected_generation).  A frame comes out of its lane and     *)
(* gets a place; what a lost connection had delivered can still be read.   *)
(* (One of a cancelled generation could only find that it is not current.) *)
TakeFrame(g) ==
    /\ frames[g] = "read" /\ publication[g] = "connected"
    /\ HasRoom
    /\ frames' = [frames EXCEPT ![g] = "permit"]
    /\ UNCHANGED <<tables, publication, publisher, reader, channels, daemon, task, trust,
                   overwritten>>

(* Under the lifecycle lock, and only of the current generation.           *)
SendFrame(g) ==
    /\ frames[g] = "permit"
    /\ frames' = [frames EXCEPT ![g] = IF canonical = g THEN "read" ELSE "end"]
    /\ events' = IF canonical = g THEN Append(events, Frame(g)) ELSE events
    /\ UNCHANGED <<tables, publication, publisher, reader, hand, network, daemon, task, trust,
                   overwritten>>

(* retire_generation, when the messages have ended: under the lock, and    *)
(* only of the current generation, ...                                     *)
Retire(g) ==
    /\ reader[g] = "read" /\ publication[g] = "connected" /\ g \notin live
    /\ IF canonical = g
       THEN /\ canonical' = 0
            /\ publication' = Cancel(g)
            /\ reader' = [reader EXCEPT ![g] = "remove"]
       ELSE /\ reader' = [reader EXCEPT ![g] = "end"]
            /\ UNCHANGED <<canonical, publication>>
    /\ UNCHANGED <<pool, registry, next, live, publisher, frames, channels, daemon, task, trust,
                   overwritten>>

\* Mutant: whatever is registered for the peer is removed.
RemoveAny(g) ==
    /\ reader[g] = "remove"
    /\ registry' = 0 /\ pool' = 0
    /\ reader' = [reader EXCEPT ![g] = "announce"]
    /\ UNCHANGED <<canonical, next, live, publication, publisher, frames, channels, daemon, task,
                   trust, overwritten>>

(* ... then what is registered of this generation ...                      *)
Remove(g) ==
    /\ reader[g] = "remove"
    /\ registry' = IF registry = g THEN 0 ELSE registry
    /\ pool' = IF pool = g THEN 0 ELSE pool
    /\ reader' = [reader EXCEPT ![g] = "announce"]
    /\ UNCHANGED <<canonical, next, live, publication, publisher, frames, channels, daemon, task,
                   trust, overwritten>>

(* ... and its announcement.                                               *)
Announce(g) ==
    /\ reader[g] = "announce"
    /\ Send(Disconnected(g))
    /\ reader' = [reader EXCEPT ![g] = "end"]
    /\ UNCHANGED <<tables, publication, publisher, frames, hand, network, daemon, task, trust,
                   overwritten>>

-----------------------------------------------------------------------------
(* The way to the event loop.                                              *)

(* The connections of other peers send events at any time.                 *)
OtherPeers ==
    /\ Send(Other)
    /\ UNCHANGED <<tables, tasks, hand, network, daemon, task, trust, overwritten>>

(* spawn_connection_event_forwarder.                                       *)
Forward ==
    /\ \/ /\ hand = Nothing /\ events # <<>>
          /\ hand' = Head(events) /\ events' = Tail(events)
          /\ UNCHANGED network
       \/ /\ hand # Nothing /\ Len(network) < NetworkCapacity
          /\ network' = Append(network, hand) /\ hand' = Nothing
          /\ UNCHANGED events
    /\ UNCHANGED <<tables, tasks, daemon, task, trust, overwritten>>

\* Mutant: the end of any generation is taken for the end of the peer.
HandleUnfiltered ==
    /\ loop = "recv" /\ network # <<>>
    /\ network' = Tail(network)
    /\ LET e == Head(network) IN
       /\ known' = CASE e.type = "Connected" -> e.gen
                     [] e.type = "Disconnected" -> 0
                     [] OTHER -> known
       /\ heard' = IF e.type = "Connected" THEN e.gen ELSE heard
       /\ ended' = IF e.type = "Disconnected" THEN ended \cup {e.gen} ELSE ended
       /\ loop' = IF e.type = "Connected" THEN "lock" ELSE "recv"
    /\ UNCHANGED <<tables, tasks, events, hand, task, trust, overwritten>>

(* The event loop of the daemon handles an event: current_generations      *)
(* filters the ends of connections.  What a connection is told first, and  *)
(* the answers to many frames, need the outer lock.                        *)
Handle ==
    /\ loop = "recv" /\ network # <<>>
    /\ network' = Tail(network)
    /\ LET e == Head(network) IN
       /\ known' = CASE e.type = "Connected" -> e.gen
                     [] e.type = "Disconnected" /\ known = e.gen -> 0
                     [] OTHER -> known
       /\ heard' = IF e.type = "Connected" THEN e.gen ELSE heard
       /\ ended' = IF e.type = "Disconnected" THEN ended \cup {e.gen} ELSE ended
       /\ loop' \in CASE e.type = "Connected" -> {"lock"}
                       [] e.type = "Disconnected" -> {"recv"}
                       [] OTHER -> {"recv", "lock"}
    /\ UNCHANGED <<tables, tasks, events, hand, task, trust, overwritten>>

TakeOuter ==
    /\ loop = "lock" /\ OuterFree
    /\ loop' = "recv"
    /\ UNCHANGED <<tables, tasks, channels, known, heard, ended, task, trust, overwritten>>

-----------------------------------------------------------------------------
Caller(t) == BeginConnect(t) \/ Dial(t) \/ Commit(t) \/ Install(t) \/ Report(t)
PublisherTask(g) == SendStale(g) \/ ReservePlace(g) \/ Publish(g)
FramesTask(g) == TakeFrame(g) \/ SendFrame(g)
ReaderTask(g) == Retire(g) \/ Remove(g) \/ Announce(g)

Next ==
    \/ \E t \in Callers : Caller(t)
    \/ \E what \in {"connect", "disconnect"} : Ask(what)
    \/ Incoming \/ CompleteFails \/ Disconnect
    \/ \E a \in Approvals : Decide(a, "approved") \/ Decide(a, "gone") \/ Expire(a)
    \/ \E g \in Gens : Lose(g) \/ PublisherTask(g) \/ FramesTask(g) \/ ReaderTask(g)
    \/ OtherPeers \/ Forward \/ Handle \/ TakeOuter

Spec == Init /\ [][Next]_vars

(* Each task runs; a lock and a place in a channel are given in the order  *)
(* they were asked for, so that nobody is passed over for ever; an attempt *)
(* to connect ends, in success or by its time-out.                         *)
Fairness ==
    /\ \A t \in {"ipc", "auto"} : SF_vars(Caller(t))
    /\ SF_vars(Disconnect)
    /\ \A g \in Gens : SF_vars(PublisherTask(g)) /\ WF_vars(SendFrame(g)) /\ SF_vars(ReaderTask(g))
    /\ WF_vars(Forward) /\ WF_vars(Handle) /\ SF_vars(TakeOuter)

FairSpec == Spec /\ Fairness

-----------------------------------------------------------------------------
(* Properties.                                                             *)

Path == network \o (IF hand = Nothing THEN <<>> ELSE <<hand>>) \o events
Of(e, g) == e.gen = g /\ e.type \in {"Connected", "Disconnected", "Frame"}

(* Every variable keeps its range, and the three tables agree: the current *)
(* generation is the one that is registered and pooled, and a connection   *)
(* that is up and pooled is the current one, whatever late removals of     *)
(* older generations are still under way.                                  *)
TablesAgree ==
    /\ ManagerTypeOK
    /\ canonical # 0 => registry = canonical /\ pool = canonical
    /\ PoolUp => canonical = pool

(* The daemon hears of each generation in the order of its life: first     *)
(* that it is connected, then its frames, last its end, after which there  *)
(* is nothing; and when one is announced, all that was said before is of   *)
(* older ones.                                                             *)
EventsInOrder ==
    \A i \in DOMAIN Path : \A g \in Gens :
        /\ Of(Path[i], g) => g \notin ended
        /\ Path[i] = Disconnected(g) => \A j \in i + 1 .. Len(Path) : ~Of(Path[j], g)
        /\ Path[i] = Frame(g) => heard = g \/ \E j \in 1 .. i - 1 : Path[j] = Connected(g)
        /\ Path[i] = Connected(g) => heard < g /\ \A j \in 1 .. i - 1 : Path[j].gen < g

Settled ==
    /\ Path = <<>> /\ loop = "recv"
    /\ \A g \in Gens : publisher[g].at = "end" /\ reader[g] \notin {"remove", "announce"}
    /\ \A t \in Callers : task[t].at # "send"

(* When all is said, the daemon knows the connection that there is, unless *)
(* an outbound attempt replaced a generation without a word.               *)
DaemonAgrees == Settled /\ ~overwritten => known = canonical

(* A peer that the trust store does not know is let through only by an     *)
(* approval that stands at that moment, and each one lets one through: not *)
(* by one that was withdrawn, ran out, or was used by another attempt.     *)
ApprovalStands ==
    [][ \A t \in Callers :
          /\ task[t].at = "complete" /\ task[t].approval # 0
          /\ task'[t].at = "install"
          => \E a \in Standing : approval'[a] = "used" ]_vars

(* Everyone waits on everyone: the loop for the outer lock, its holder for *)
(* a place in the events or for one who does, the forwarder for the loop.  *)
Standstill ==
    /\ loop = "lock" /\ hand # Nothing
    /\ Len(network) = NetworkCapacity /\ Len(events) = EventCapacity
    /\ \/ task["ipc"].at = "send"
       \/ task["ipc"].at \in {"connect", "disconnect"} /\ task["auto"].at = "send"

(* A connection that has ended is always retired, as long as the daemon    *)
(* does not come to a standstill.                                          *)
DeadIsRetired ==
    \A g \in Gens : canonical = g /\ g \notin live ~> canonical # g \/ Standstill


(* What the plan asks of connection events (violated): the daemon ends up  *)
(* with the state of the connection manager.                               *)
DaemonAlwaysAgrees == Settled => known = canonical
=============================================================================
