-------------------------- MODULE FolderDragProofs --------------------------
(***************************************************************************)
(* Files go where their own drag ended: the two promises of module         *)
(* FolderDrag, for every capacity and every bound.                         *)
(*                                                                         *)
(* A generation has one press.  Chain follows it from the press to the     *)
(* offer: whatever the task or the channel holds of the current generation *)
(* belongs to the last press, and the first release queued of it, if there *)
(* is one, is the one that ended that press's drag; if there is none, the  *)
(* drag is still under way.  A second release of the same generation finds *)
(* the gesture taken.                                                      *)
(***************************************************************************)
EXTENDS FolderDrag, TLAPS

(* Types, by owner.                                                        *)

Events ==
    [kind : {"Begin"}, press : 0 .. PressMax]
    \cup [kind : {"Cross"}, epoch : 0 .. EpochMax]
    \cup [kind : {"Drop"}, epoch : 0 .. EpochMax, seq : 1 .. ReleaseMax]
Entries == [gen : 1 .. GenMax, of : Events]
Offers == [release : [conn : 0 .. ConnMax, epoch : 0 .. EpochMax, seq : 1 .. ReleaseMax],
           files : 0 .. PressMax, at : {"sent", "placed", "failed"}]
Tasks == {"recv", "begin", "paths", "escape", "offer"}

NetworkTypeOK ==
    /\ made \in 0 .. ConnMax /\ conn \in {0, made}
    /\ epochs \in 0 .. EpochMax /\ session \in [epoch : {0, epochs}, conn : 0 .. ConnMax]
    /\ session.epoch # 0 => session.conn # 0
    /\ presses \in 0 .. PressMax

ObserverTypeOK ==
    /\ generation \in 1 .. GenMax
    /\ channel \in Seq(Entries) /\ Len(channel) <= ChannelCap
    /\ \A i \in DOMAIN channel : channel[i].gen <= generation
    /\ drag \in 0 .. presses
    /\ dropped \in Seq(0 .. PressMax) /\ Len(dropped) <= ReleaseMax

RunTypeOK ==
    /\ candidate \in Gestures /\ gesture \in Gestures
    /\ candidate.gen <= generation /\ gesture.gen <= generation
    /\ task \in Tasks
    /\ task = "recv" => event = NoEvent
    /\ task # "recv" => event \in Entries /\ event.gen <= generation
    /\ task = "begin" => event.of.kind = "Begin"
    /\ task \in {"paths", "escape"} => event.of.kind = "Cross"
    /\ task = "offer" => event.of.kind = "Drop"

PeerTypeOK ==
    /\ wire \in Seq(Releases)
    /\ receipts \in Seq(injected) /\ Len(receipts) <= ReceiptCap
    /\ injected \subseteq Releases
    /\ offers \in Seq(Offers)

Types == NetworkTypeOK /\ ObserverTypeOK /\ RunTypeOK /\ PeerTypeOK

-----------------------------------------------------------------------------
(* The chain.                                                              *)

\* What the task is in the middle of.
AtTask ==
    /\ task \in {"paths", "escape"} => candidate.gen = event.gen
    /\ task = "offer" => /\ event.of.seq \in DOMAIN dropped
                         /\ candidate.paths # 0 /\ dropped[event.of.seq] = candidate.paths

\* A gesture of the last press, whose files, once read, are that press's.
OfPress(g) == g.press = presses /\ g.paths \in {0, presses}

IsBegin(x) == x.of.kind = "Begin" /\ x.gen = generation
IsDrop(x) == x.of.kind = "Drop" /\ x.gen = generation

Began == \E i \in DOMAIN channel : IsBegin(channel[i])

\* Something of the current generation may still become a gesture to drop.
Alive ==
    \/ gesture.gen = generation
    \/ task \in {"paths", "escape"} /\ candidate.gen = generation
    \/ task = "begin" /\ event.gen = generation
    \/ Began

\* A Begin comes before everything else of its generation.
PressInv ==
    /\ gesture.gen = generation => OfPress(gesture)
    /\ task \in {"paths", "escape"} /\ candidate.gen = generation => OfPress(candidate)
    /\ task = "begin" /\ event.gen = generation => event.of.press = presses
    /\ \A i \in DOMAIN channel : IsBegin(channel[i]) =>
          /\ channel[i].of.press = presses
          /\ \A j \in 1 .. (i - 1) : channel[j].gen # generation

FirstDrop(i) == IsDrop(channel[i]) /\ \A j \in 1 .. (i - 1) : ~IsDrop(channel[j])

DragInv ==
    Alive =>
        \/ drag = presses /\ \A i \in DOMAIN channel : ~IsDrop(channel[i])
        \/ \E i \in DOMAIN channel : FirstDrop(i) /\ dropped[channel[i].of.seq] = presses

Drops == {i \in DOMAIN channel : channel[i].of.kind = "Drop"}

\* Releases are numbered upwards along offers, task and channel.
OrderInv ==
    /\ \A i \in Drops : channel[i].of.seq \in DOMAIN dropped
    /\ \A i, j \in Drops : i < j => channel[i].of.seq < channel[j].of.seq
    /\ task = "offer" => \A i \in Drops : event.of.seq < channel[i].of.seq
    /\ \A k \in DOMAIN offers :
          /\ offers[k].release.seq \in DOMAIN dropped
          /\ \A i \in Drops : offers[k].release.seq < channel[i].of.seq
          /\ task = "offer" => offers[k].release.seq < event.of.seq

OffersInv ==
    \A i \in DOMAIN offers :
          /\ offers[i].files # 0 /\ dropped[offers[i].release.seq] = offers[i].files
          /\ \A j \in DOMAIN offers : j # i => offers[j].release.seq # offers[i].release.seq

Chain == AtTask /\ PressInv /\ DragInv /\ OrderInv /\ OffersInv

-----------------------------------------------------------------------------
(* Types are kept.                                                         *)

LEMMA NoEventIsNone == NoEvent \notin Entries
  BY DEF NoEvent, Entries

LEMMA Bounds ==
    /\ ChannelCap \in Nat /\ ReceiptCap \in Nat /\ PressMax \in Nat /\ ReleaseMax \in Nat
    /\ EpochMax \in Nat /\ ConnMax \in Nat /\ GenMax \in Nat
    /\ ChannelCap > 0 /\ ReceiptCap > 0 /\ GenMax > 0
  BY DragAssumption

\* What appending and taking the head do to a sequence, index by index.
LEMMA Appended ==
    ASSUME NEW S, NEW s \in Seq(S), NEW x \in S
    PROVE  /\ Append(s, x) \in Seq(S) /\ Len(Append(s, x)) = Len(s) + 1
           /\ Len(s) + 1 \in DOMAIN Append(s, x) /\ Append(s, x)[Len(s) + 1] = x
           /\ \A i \in DOMAIN Append(s, x) : i # Len(s) + 1 => i \in DOMAIN s
           /\ \A i \in DOMAIN s : /\ i \in DOMAIN Append(s, x) /\ Append(s, x)[i] = s[i]
                                  /\ i \in Nat /\ i < Len(s) + 1
  OBVIOUS

LEMMA Tailed ==
    ASSUME NEW S, NEW s \in Seq(S), s # <<>>
    PROVE  /\ Tail(s) \in Seq(S) /\ Len(Tail(s)) = Len(s) - 1
           /\ 1 \in DOMAIN s /\ Head(s) = s[1] /\ s[1] \in S
           /\ \A i \in DOMAIN Tail(s) : i + 1 \in DOMAIN s /\ i \in Nat /\ i > 0 /\ Tail(s)[i] = s[i + 1]
           /\ \A i \in DOMAIN s : i # 1 => i - 1 \in DOMAIN Tail(s) /\ Tail(s)[i - 1] = s[i]
  OBVIOUS

LEMMA TypesInit == Init => Types
  BY DragAssumption
  DEF Init, Types, NetworkTypeOK, ObserverTypeOK, RunTypeOK, PeerTypeOK, LocalSession, NoGesture,
      Gestures, Tasks

LEMMA NetworkStep == Types /\ [Next]_vars => NetworkTypeOK'
  <1> SUFFICES ASSUME Types, [Next]_vars PROVE NetworkTypeOK'
    OBVIOUS
  <1> USE Bounds DEF Types, NetworkTypeOK, Local
  <1>1. CASE User
    BY <1>1 DEF User, LocalPress, LocalMove, LocalRelease, Escape, Enter, RemotePress, RemoteRelease,
                Leave, network, user, LocalSession
  <1>2. CASE Connect \/ Disconnect
    BY <1>2 DEF Connect, Disconnect, user
  <1>3. CASE UNCHANGED <<network, user>>
    BY <1>3 DEF network, user
  <1>4. Task => UNCHANGED <<network, user>>
    BY DEF Task, Receive, Begun, PathsRead, NativeEnded, Offer, network, user
  <1>5. Peer => UNCHANGED <<network, user>>
    BY DEF Peer, Inject, Expire, Resolve, GiveUp, network, user
  <1> QED
    BY <1>1, <1>2, <1>3, <1>4, <1>5 DEF Next, vars

LEMMA ObserverStep == Types /\ [Next]_vars => ObserverTypeOK'
  <1> SUFFICES ASSUME Types, [Next]_vars PROVE ObserverTypeOK'
    OBVIOUS
  <1> USE Bounds DEF Types, ObserverTypeOK
  <1>1. ASSUME Cancel, UNCHANGED dropped, presses' \in {presses, presses + 1} PROVE ObserverTypeOK'
    <2>1. generation' = generation + 1 /\ generation' \in 1 .. GenMax /\ channel' = channel /\ drag' = 0
      BY <1>1 DEF Cancel, MayRaise
    <2>2. \A i \in DOMAIN channel : channel[i] \in Entries
      OBVIOUS
    <2>3. \A i \in DOMAIN channel : channel[i].gen <= generation'
      BY <2>1, <2>2 DEF Entries
    <2> QED
      BY <1>1, <2>1, <2>3 DEF NetworkTypeOK
  <1>2. ASSUME NEW e \in Events, NEW g \in {generation, generation + 1}, g + 1 <= GenMax, Send(e, g)
        PROVE  /\ generation' \in 1 .. GenMax
               /\ channel' \in Seq(Entries) /\ Len(channel') <= ChannelCap
               /\ \A i \in DOMAIN channel' : channel'[i].gen <= generation'
    <2>1. CASE Len(channel) < ChannelCap
      <3>1. [gen |-> g, of |-> e] \in Entries
        BY <1>2 DEF Entries
      <3>2. channel' = Append(channel, [gen |-> g, of |-> e]) /\ generation' = g
        BY <1>2, <2>1 DEF Send
      <3>3. channel' \in Seq(Entries) /\ Len(channel') <= ChannelCap
        BY <2>1, <3>1, <3>2
      <3>4. \A i \in DOMAIN channel' : channel'[i].gen <= generation'
        <4>1. \A i \in DOMAIN channel : channel[i] \in Entries
          OBVIOUS
        <4>2. \A i \in DOMAIN channel : channel[i].gen <= g
          BY <1>2, <4>1 DEF Entries
        <4> QED
          BY <1>2, <3>1, <3>2, <4>2, Appended
      <3> QED
        BY <1>2, <3>2, <3>3, <3>4, SMTT(60), ZenonT(60)
    <2>2. CASE ~(Len(channel) < ChannelCap)
      <3>1. channel' = channel /\ generation' = g + 1
        BY <1>2, <2>2 DEF Send
      <3>2. generation' \in 1 .. GenMax /\ generation < generation'
        BY <1>2, <3>1
      <3>3. \A i \in DOMAIN channel : channel[i].gen <= generation'
        <4>1. \A i \in DOMAIN channel : channel[i] \in Entries
          OBVIOUS
        <4> QED
          BY <3>2, <4>1 DEF Entries
      <3> QED
        BY <3>1, <3>2, <3>3
    <2> QED
      BY <2>1, <2>2
  <1>3. ASSUME LocalPress PROVE ObserverTypeOK'
    <2>1. CASE Cancel
      BY <1>1, <1>3, <2>1 DEF LocalPress
    <2>2. CASE ~Cancel
      <3>1. Begin(presses + 1) \in Events
        BY <1>3 DEF LocalPress, Begin, Events, NetworkTypeOK
      <3>2. /\ MayRaise(2) /\ Send(Begin(presses + 1), generation + 1)
            /\ drag' = presses + 1 /\ presses' = presses + 1 /\ dropped' = dropped
        BY <1>3, <2>2 DEF LocalPress
      <3>3. generation + 1 + 1 <= GenMax
        BY <3>2 DEF MayRaise
      <3>4. /\ generation' \in 1 .. GenMax
            /\ channel' \in Seq(Entries) /\ Len(channel') <= ChannelCap
            /\ \A i \in DOMAIN channel' : channel'[i].gen <= generation'
        BY <1>2, <3>1, <3>2, <3>3
      <3> QED
        BY <3>2, <3>4, SMTT(60), ZenonT(60) DEF NetworkTypeOK
    <2> QED
      BY <2>1, <2>2
  <1>4. ASSUME LocalRelease \/ Escape \/ Leave PROVE ObserverTypeOK'
    BY <1>1, <1>4 DEF LocalRelease, Escape, Leave, user
  <1>5. ASSUME Enter PROVE ObserverTypeOK'
    <2>1. Crossed(epochs + 1) \in Events
      BY <1>5 DEF Enter, Crossed, Events, NetworkTypeOK
    <2>2. CASE movement = "moved"
      <3>1. generation + 1 <= GenMax /\ Send(Crossed(epochs + 1), generation)
        BY <1>5, <2>2 DEF Enter, MayRaise
      <3> QED
        BY <1>2, <1>5, <2>1, <3>1 DEF Enter
    <2>3. CASE movement # "moved"
      BY <1>5, <2>3 DEF Enter
    <2> QED
      BY <2>2, <2>3
  <1>6. ASSUME RemoteRelease PROVE ObserverTypeOK'
    <2> DEFINE seq == Len(dropped) + 1
    <2>1. Drop(session.epoch, seq) \in Events
      BY <1>6, SMTT(60), ZenonT(60) DEF RemoteRelease, Drop, Events, NetworkTypeOK
    <2>2. generation + 1 <= GenMax /\ Send(Drop(session.epoch, seq), generation)
      BY <1>6 DEF RemoteRelease, MayRaise
    <2>3. /\ generation' \in 1 .. GenMax
          /\ channel' \in Seq(Entries) /\ Len(channel') <= ChannelCap
          /\ \A i \in DOMAIN channel' : channel'[i].gen <= generation'
      BY <1>2, <2>1, <2>2
    <2>4. dropped' = Append(dropped, drag) /\ drag' = 0 /\ presses' = presses /\ seq <= ReleaseMax
      BY <1>6 DEF RemoteRelease
    <2>5. drag \in 0 .. PressMax
      BY DEF NetworkTypeOK
    <2> QED
      BY <2>3, <2>4, <2>5 DEF NetworkTypeOK
  <1>7. ASSUME Receive PROVE ObserverTypeOK'
    <2>1. channel # <<>> /\ channel' = Tail(channel) /\ UNCHANGED <<generation, drag, dropped, presses>>
      BY <1>7 DEF Receive, user
    <2> QED
      BY <2>1
  <1>8. CASE UNCHANGED <<generation, channel, drag, dropped, presses>>
    BY <1>8
  <1>9. LocalMove \/ RemotePress \/ Begun \/ PathsRead \/ NativeEnded \/ Offer \/ Connect \/ Disconnect
        => UNCHANGED <<generation, channel, drag, dropped, presses>>
    BY DEF LocalMove, RemotePress, Begun, PathsRead, NativeEnded, Offer, Connect, Disconnect, user,
           observer
  <1>10. Peer \/ UNCHANGED vars => UNCHANGED <<generation, channel, drag, dropped, presses>>
    BY DEF Peer, Inject, Expire, Resolve, GiveUp, vars, user, observer
  <1> QED
    BY <1>3, <1>4, <1>5, <1>6, <1>7, <1>8, <1>9, <1>10 DEF Next, User, Task

LEMMA StartedGesture ==
    ASSUME NEW n \in 1 .. GenMax, NEW p \in 0 .. PressMax
    PROVE  /\ [NoGesture EXCEPT !.gen = n, !.press = p] \in Gestures
           /\ [NoGesture EXCEPT !.gen = n, !.press = p].gen = n
  <1>1. NoGesture \in Gestures
    BY Bounds DEF NoGesture, Gestures
  <1>2. 1 .. GenMax \subseteq 0 .. GenMax
    BY Bounds
  <1> QED
    BY <1>1, <1>2 DEF Gestures

LEMMA RunStep == Types /\ [Next]_vars => RunTypeOK'
  <1> SUFFICES ASSUME Types, [Next]_vars PROVE RunTypeOK'
    OBVIOUS
  <1> USE Bounds DEF Types, RunTypeOK
  <1>1. generation <= generation' /\ generation \in 1 .. GenMax /\ generation' \in 1 .. GenMax
    <2>1. ObserverTypeOK'
      BY ObserverStep
    <2>2. User => generation <= generation'
      BY DEF User, LocalPress, LocalMove, LocalRelease, Escape, Enter, RemotePress, RemoteRelease,
             Leave, Cancel, Send, observer, ObserverTypeOK
    <2>3. Task => generation' = generation
      <3>1. Receive => generation' = generation
        BY DEF Receive
      <3> QED
        BY <3>1 DEF Task, Begun, PathsRead, NativeEnded, Offer, observer
    <2>4. Peer \/ Connect \/ Disconnect \/ UNCHANGED vars => generation <= generation'
      BY DEF Peer, Inject, Expire, Resolve, GiveUp, Connect, Disconnect, vars, observer, ObserverTypeOK
    <2> QED
      BY <2>1, <2>2, <2>3, <2>4 DEF Next, ObserverTypeOK
  <1>2. NoGesture \in Gestures /\ NoGesture.gen = 0
    BY DEF NoGesture, Gestures
  <1>3. \A g \in Gestures : g.gen \in Nat
    BY DEF Gestures
  <1>4. CASE UNCHANGED run
    <2>1. \A x \in Entries : x.gen \in Nat
      BY DEF Entries
    <2> QED
      BY <1>1, <1>3, <1>4, <2>1 DEF run
  <1>5. ASSUME NEW g \in Gestures, Idle(g), g.gen <= generation' PROVE RunTypeOK'
    BY <1>1, <1>2, <1>5 DEF Idle, Tasks
  <1>6. ASSUME NEW g \in Gestures, g.gen <= generation',
               NEW e \in Entries, e.gen <= generation',
               \/ Handle("paths", e, g) /\ e.of.kind = "Cross"
               \/ Handle("escape", e, g) /\ e.of.kind = "Cross"
               \/ Handle("offer", e, g) /\ e.of.kind = "Drop"
        PROVE  RunTypeOK'
    BY <1>1, <1>2, <1>6 DEF Handle, Tasks
  <1>7. ASSUME Receive PROVE RunTypeOK'
    <2> DEFINE e == Head(channel)
    <2>1. e \in Entries /\ e.gen <= generation /\ task = "recv" /\ UNCHANGED generation
      BY <1>7, Tailed DEF Receive, ObserverTypeOK
    <2>2. \/ Idle(NoGesture)
          \/ task' = "begin" /\ event' = e /\ e.of.kind = "Begin" /\ UNCHANGED <<candidate, gesture>>
          \/ Handle("paths", e, gesture) /\ e.of.kind = "Cross"
          \/ Handle("offer", e, gesture) /\ e.of.kind = "Drop"
      BY <1>7, <2>1 DEF Receive, Entries, Events
    <2> HIDE DEF e
    <2> QED
      BY <1>1, <1>2, <1>5, <1>6, <2>1, <2>2 DEF Tasks
  <1>8. ASSUME Begun PROVE RunTypeOK'
    <2>1. event \in Entries /\ event.gen <= generation /\ event.of.kind = "Begin"
          /\ UNCHANGED generation
      BY <1>8 DEF Begun, observer
    <2> DEFINE g == [NoGesture EXCEPT !.gen = event.gen, !.press = event.of.press]
    <2>2. event.gen \in 1 .. GenMax /\ event.of.press \in 0 .. PressMax
      BY <2>1 DEF Entries, Events
    <2>3. g \in Gestures /\ g.gen = event.gen
      BY <2>2, StartedGesture
    <2> HIDE DEF g
    <2>4. Idle(NoGesture) \/ Idle(g)
      BY <1>8 DEF Begun, g
    <2> QED
      BY <1>1, <1>2, <1>5, <2>1, <2>3, <2>4
  <1>9. ASSUME PathsRead PROVE RunTypeOK'
    <2>1. event \in Entries /\ event.gen <= generation /\ event.of.kind = "Cross"
          /\ UNCHANGED generation /\ candidate.gen <= generation
      BY <1>9 DEF PathsRead, observer
    <2>2. CASE Idle(NoGesture)
      BY <1>1, <1>2, <1>5, <2>2
    <2>3. ASSUME NEW p \in candidate.press .. presses,
                 Handle("escape", event, [candidate EXCEPT !.paths = p])
          PROVE  RunTypeOK'
      <3>1. p \in 0 .. PressMax
        BY DEF NetworkTypeOK, Gestures
      <3>2. [candidate EXCEPT !.paths = p] \in Gestures
            /\ [candidate EXCEPT !.paths = p].gen = candidate.gen
        BY <3>1 DEF Gestures
      <3> QED
        BY <1>6, <2>1, <2>3, <3>2
    <2> QED
      BY <1>9, <2>2, <2>3 DEF PathsRead
  <1>10. ASSUME NativeEnded PROVE RunTypeOK'
    <2> DEFINE g == [candidate EXCEPT !.epoch = event.of.epoch, !.conn = conn]
    <2>1. event \in Entries /\ event.of.kind = "Cross" /\ UNCHANGED generation
      BY <1>10 DEF NativeEnded, observer
    <2>2. event.of.epoch \in 0 .. EpochMax /\ conn \in 0 .. ConnMax
      BY <2>1 DEF Entries, Events, NetworkTypeOK
    <2>3. g \in Gestures /\ g.gen = candidate.gen
      BY <2>2 DEF Gestures
    <2> HIDE DEF g
    <2>4. Idle(NoGesture) \/ Idle(g)
      BY <1>10 DEF NativeEnded, g
    <2> QED
      BY <1>1, <1>2, <1>5, <2>1, <2>3, <2>4
  <1>11. ASSUME Offer PROVE RunTypeOK'
    BY <1>1, <1>2, <1>5, <1>11 DEF Offer
  <1>12. (User \/ Peer \/ Connect \/ Disconnect \/ UNCHANGED vars) => UNCHANGED run
    BY DEF User, LocalPress, LocalMove, LocalRelease, Escape, Enter, RemotePress, RemoteRelease, Leave,
           Peer, Inject, Expire, Resolve, GiveUp, Connect, Disconnect, vars
  <1> QED
    BY <1>4, <1>7, <1>8, <1>9, <1>10, <1>11, <1>12 DEF Next, Task

LEMMA EndedOffers ==
    ASSUME offers \in Seq(Offers), NEW i \in DOMAIN offers, NEW end \in {"placed", "failed"}
    PROVE  [offers EXCEPT ![i].at = end] \in Seq(Offers)
  <1>1. [offers[i] EXCEPT !.at = end] \in Offers
    <2>1. offers[i] \in Offers
      OBVIOUS
    <2> QED
      BY <2>1 DEF Offers
  <1> QED
    BY <1>1

LEMMA PeerStep == Types /\ [Next]_vars => PeerTypeOK'
  <1> SUFFICES ASSUME Types, [Next]_vars PROVE PeerTypeOK'
    OBVIOUS
  <1> USE Bounds DEF Types, PeerTypeOK
  <1>1. ASSUME RemoteRelease PROVE PeerTypeOK'
    <2> DEFINE seq == Len(dropped) + 1
               r == Release(conn, session.epoch, seq)
    <2>1. CASE conn = session.conn
      <3>1. session.epoch \in 1 .. EpochMax /\ session.conn \in 1 .. ConnMax
        BY <1>1, SMTT(60), ZenonT(60) DEF RemoteRelease, NetworkTypeOK, Local
      <3>2. seq \in 1 .. ReleaseMax
        BY <1>1 DEF RemoteRelease, ObserverTypeOK
      <3>3. r \in Releases
        BY <2>1, <3>1, <3>2 DEF Release, Releases
      <3> QED
        BY <1>1, <2>1, <3>3 DEF RemoteRelease
    <2>2. CASE conn # session.conn
      BY <1>1, <2>2 DEF RemoteRelease
    <2> QED
      BY <2>1, <2>2
  <1>2. ASSUME Inject PROVE PeerTypeOK'
    <2>1. /\ wire' \in Seq(Releases) /\ Head(wire) \in Releases /\ offers' = offers
      BY <1>2 DEF Inject
    <2>2. CASE UNCHANGED <<receipts, injected>>
      BY <2>1, <2>2
    <2>3. CASE /\ receipts' = Keep(Append(receipts, Head(wire)), ReceiptCap)
               /\ injected' = injected \cup {Head(wire)}
      <3>1. injected' \subseteq Releases /\ Append(receipts, Head(wire)) \in Seq(injected')
            /\ Len(Append(receipts, Head(wire))) <= ReceiptCap + 1
        BY <2>1, <2>3
      <3>2. receipts' \in Seq(injected') /\ Len(receipts') <= ReceiptCap
        BY <2>3, <3>1 DEF Keep
      <3> QED
        BY <2>1, <3>1, <3>2
    <2> QED
      BY <1>2, <2>2, <2>3 DEF Inject
  <1>3. ASSUME Expire PROVE PeerTypeOK'
    BY <1>3 DEF Expire
  <1>4. ASSUME NEW i \in DOMAIN offers, Resolve(i) PROVE PeerTypeOK'
    <2>1. PICK r \in DOMAIN receipts : receipts' = RemoveAt(receipts, r)
      BY <1>4 DEF Resolve
    <2>2. receipts' \in Seq(injected) /\ Len(receipts') <= ReceiptCap
      BY <2>1, SMTT(60), ZenonT(60) DEF RemoveAt
    <2>3. offers' \in Seq(Offers)
      BY <1>4, EndedOffers DEF Resolve
    <2> QED
      BY <1>4, <2>2, <2>3 DEF Resolve
  <1>5. ASSUME NEW i \in DOMAIN offers, GiveUp(i) PROVE PeerTypeOK'
    BY <1>5, EndedOffers DEF GiveUp, peer
  <1>6. ASSUME Offer PROVE PeerTypeOK'
    <2> DEFINE o == [release |-> Release(conn, event.of.epoch, event.of.seq),
                     files |-> candidate.paths, at |-> "sent"]
    <2>1. event.of.epoch \in 0 .. EpochMax /\ event.of.seq \in 1 .. ReleaseMax
      BY <1>6 DEF Offer, RunTypeOK, Entries, Events
    <2>2. candidate.paths \in 0 .. PressMax /\ conn \in 0 .. ConnMax
      BY SMTT(60), ZenonT(60) DEF NetworkTypeOK, RunTypeOK, Gestures
    <2>3. o \in Offers
      BY <2>1, <2>2 DEF Offers, Release
    <2> QED
      BY <1>6, <2>3 DEF Offer, peer
  <1>7. CASE UNCHANGED <<peer, offers>>
    BY <1>7 DEF peer
  <1>8. \/ LocalPress \/ LocalMove \/ LocalRelease \/ Escape \/ Enter \/ RemotePress \/ Leave
        \/ Receive \/ Begun \/ PathsRead \/ NativeEnded \/ Connect \/ Disconnect \/ UNCHANGED vars
        => UNCHANGED <<peer, offers>>
    BY DEF LocalPress, LocalMove, LocalRelease, Escape, Enter, RemotePress, Leave, Receive, Begun,
           PathsRead, NativeEnded, Connect, Disconnect, vars
  <1> QED
    BY <1>1, <1>2, <1>3, <1>4, <1>5, <1>6, <1>7, <1>8 DEF Next, User, Task, Peer

LEMMA TypesStep == Types /\ [Next]_vars => Types'
  BY NetworkStep, ObserverStep, RunStep, PeerStep DEF Types

-----------------------------------------------------------------------------
(* The chain from a press to the offer, kept by every step.                *)

LEMMA GenTypes ==
    ASSUME Types
    PROVE  /\ generation \in Nat /\ generation > 0
           /\ \A i \in DOMAIN channel : channel[i] \in Entries /\ channel[i].gen \in Nat
                                        /\ channel[i].gen <= generation
           /\ gesture.gen \in Nat /\ candidate.gen \in Nat
           /\ gesture.gen <= generation /\ candidate.gen <= generation
           /\ task # "recv" => event \in Entries /\ event.gen \in Nat /\ event.gen <= generation
  <1>1. \A x \in Entries : x.gen \in Nat
    BY DEF Entries
  <1>2. \A i \in DOMAIN channel : channel[i] \in Entries
    BY DEF Types, ObserverTypeOK
  <1> QED
    BY <1>1, <1>2, SMTT(60), ZenonT(60) DEF Types, ObserverTypeOK, RunTypeOK, Gestures

DroppedGrows == \A k \in DOMAIN dropped : k \in DOMAIN dropped' /\ dropped'[k] = dropped[k]

\* The generation is raised: nothing under way belongs to it.
LEMMA RaisedStep ==
    ASSUME Types, Chain, generation' > generation, generation' \in Nat, DroppedGrows,
           UNCHANGED <<channel, run, offers>>
    PROVE  Chain'
  <1> USE GenTypes DEF Chain, run
  <1>1. ~Alive' /\ PressInv'
    BY DEF Alive, Began, IsBegin, PressInv
  <1>2. DragInv'
    BY <1>1 DEF DragInv
  <1>3. AtTask'
    BY DEF AtTask, DroppedGrows
  <1>4. OrderInv' /\ OffersInv'
    BY DEF OrderInv, OffersInv, Drops, DroppedGrows
  <1> QED
    BY <1>1, <1>2, <1>3, <1>4

\* Nothing of the chain changes but the end of an offer.
LEMMA QuietStep ==
    ASSUME Types, Chain, UNCHANGED <<channel, generation, run, presses, drag, dropped>>,
           DOMAIN offers' = DOMAIN offers,
           \A i \in DOMAIN offers : /\ offers'[i].release = offers[i].release
                                    /\ offers'[i].files = offers[i].files
    PROVE  Chain'
  <1> USE DEF Chain, run
  <1>1. AtTask' /\ PressInv'
    BY DEF AtTask, PressInv, IsBegin, OfPress
  <1>2. DragInv'
    BY DEF DragInv, Alive, Began, IsBegin, IsDrop, FirstDrop
  <1>3. OrderInv' /\ OffersInv'
    BY DEF OrderInv, OffersInv, Drops
  <1> QED
    BY <1>1, <1>2, <1>3

LEMMA PressStep ==
    ASSUME Types, Types', Chain, LocalPress
    PROVE  Chain'
  <1> USE DEF run
  <1>1. UNCHANGED <<run, offers, dropped>> /\ generation' \in Nat
    BY GenTypes DEF LocalPress, Types, ObserverTypeOK
  <1>2. CASE generation' > generation /\ UNCHANGED channel
    BY <1>1, <1>2, RaisedStep DEF DroppedGrows
  <1>3. ASSUME generation' = generation + 1, drag' = presses + 1, presses' = presses + 1,
               channel' = Append(channel, [gen |-> generation + 1, of |-> Begin(presses + 1)])
        PROVE  Chain'
    <2> DEFINE n == Len(channel) + 1
               x == [gen |-> generation + 1, of |-> Begin(presses + 1)]
    <2>1. /\ channel \in Seq(Entries) /\ x \in Entries /\ x.gen = generation'
          /\ x.of.kind = "Begin" /\ x.of.press = presses'
      <3>1. channel' \in Seq(Entries) /\ channel'[n] = x /\ n \in DOMAIN channel'
        BY <1>3 DEF Types, ObserverTypeOK
      <3> QED
        BY <1>3, <3>1 DEF Types, ObserverTypeOK, Begin
    <2> HIDE DEF x
    <2>2. \A i \in DOMAIN channel' :
             \/ i = n /\ channel'[i] = x
             \/ i \in DOMAIN channel /\ channel'[i] = channel[i] /\ i < n
      BY <1>3, <2>1, Appended DEF x
    <2>3. \A i \in DOMAIN channel : channel'[i] = channel[i] /\ channel[i].gen < generation'
      BY <1>3, <2>1, Appended, GenTypes DEF x
    <2>4. gesture'.gen # generation' /\ candidate'.gen # generation'
          /\ (task' # "recv" => event'.gen # generation')
      BY <1>1, <1>3, GenTypes
    <2>5. PressInv'
      <3>1. \A i \in DOMAIN channel' : IsBegin(channel[i])' => i = n
        BY <1>3, <2>2, <2>3 DEF IsBegin
      <3>2. \A j \in 1 .. (n - 1) : j \in DOMAIN channel /\ channel'[j].gen # generation'
        BY <2>1, <2>3, GenTypes, <1>3
      <3>3. \A i \in DOMAIN channel' : IsBegin(channel[i])' =>
              /\ channel'[i].of.press = presses'
              /\ \A j \in 1 .. (i - 1) : channel'[j].gen # generation'
        BY <2>1, <2>2, <3>1, <3>2
      <3> QED
        BY <2>4, <3>3 DEF PressInv
    <2>6. DragInv'
      BY <1>3, <2>1, <2>2, <2>3 DEF DragInv, IsDrop
    <2>7. AtTask'
      BY <1>1 DEF AtTask, Chain
    <2>8. Drops' = Drops /\ \A i \in Drops : channel'[i] = channel[i]
      BY <1>3, <2>1, <2>2, <2>3, Appended DEF Drops, x
    <2>9. OrderInv' /\ OffersInv'
      BY <1>1, <2>8 DEF OrderInv, OffersInv, Chain
    <2> QED
      BY <2>5, <2>6, <2>7, <2>9 DEF Chain
  <1> QED
    BY <1>2, <1>3, GenTypes DEF LocalPress, Cancel, Send

LEMMA EnterStep ==
    ASSUME Types, Types', Chain, Enter
    PROVE  Chain'
  <1>1. UNCHANGED <<run, offers, dropped, drag, presses>> /\ generation' \in Nat
    BY GenTypes DEF Enter, Types, ObserverTypeOK
  <1>2. CASE generation' > generation /\ UNCHANGED channel
    BY <1>1, <1>2, RaisedStep DEF DroppedGrows
  <1>3. CASE UNCHANGED <<generation, channel>>
    BY <1>1, <1>3, QuietStep
  <1>4. ASSUME UNCHANGED generation,
               channel' = Append(channel, [gen |-> generation, of |-> Crossed(epochs + 1)])
        PROVE  Chain'
    <2> DEFINE n == Len(channel) + 1
               x == [gen |-> generation, of |-> Crossed(epochs + 1)]
    <2>1. channel \in Seq(Entries) /\ x \in Entries /\ x.of.kind = "Cross"
      <3>1. channel' \in Seq(Entries) /\ channel'[n] = x /\ n \in DOMAIN channel'
        BY <1>4 DEF Types, ObserverTypeOK
      <3> QED
        BY <1>4, <3>1 DEF Types, ObserverTypeOK, Crossed
    <2> HIDE DEF x
    <2>2. \A i \in DOMAIN channel' :
             \/ i = n /\ channel'[i] = x
             \/ i \in DOMAIN channel /\ channel'[i] = channel[i] /\ i < n
      BY <1>4, <2>1, Appended DEF x
    <2>3. \A i \in DOMAIN channel : i \in DOMAIN channel' /\ channel'[i] = channel[i]
                                    /\ \A k \in 1 .. (i - 1) : k \in DOMAIN channel
      BY <1>4, <2>1, Appended DEF x
    <2>4. \A i \in DOMAIN channel' : channel'[i].of.kind \in {"Begin", "Drop"} => i \in DOMAIN channel
      BY <2>1, <2>2
    <2>5. PressInv'
      BY <1>1, <1>4, <2>3, <2>4 DEF PressInv, IsBegin, OfPress, Chain, run
    <2>6. DragInv'
      <3>1. Alive' => Alive
        BY <1>1, <1>4, <2>3, <2>4 DEF Alive, Began, IsBegin, run
      <3>2. \A i \in DOMAIN channel : FirstDrop(i) => FirstDrop(i)'
        BY <1>4, <2>3 DEF FirstDrop, IsDrop
      <3>3. \A i \in DOMAIN channel' : IsDrop(channel[i])' => i \in DOMAIN channel /\ IsDrop(channel[i])
        BY <1>4, <2>3, <2>4 DEF IsDrop
      <3> QED
        BY <1>1, <2>3, <3>1, <3>2, <3>3 DEF DragInv, Chain
    <2>7. AtTask'
      BY <1>1 DEF AtTask, Chain, run
    <2>8. Drops' = Drops /\ \A i \in Drops : channel'[i] = channel[i]
      BY <2>3, <2>4 DEF Drops
    <2>9. OrderInv' /\ OffersInv'
      BY <1>1, <2>8 DEF OrderInv, OffersInv, Chain, run
    <2> QED
      BY <2>5, <2>6, <2>7, <2>9 DEF Chain
  <1> QED
    BY <1>2, <1>3, <1>4, GenTypes DEF Enter, Send

LEMMA ReleaseStep ==
    ASSUME Types, Types', Chain, RemoteRelease
    PROVE  Chain'
  <1> DEFINE seq == Len(dropped) + 1
             x == [gen |-> generation, of |-> Drop(session.epoch, seq)]
  <1> PICK n : n = Len(channel) + 1
    OBVIOUS
  <1>1. /\ UNCHANGED <<run, offers, presses>> /\ generation' \in Nat
        /\ dropped' = Append(dropped, drag)
    BY GenTypes DEF RemoteRelease, Types, ObserverTypeOK
  <1>2. /\ DroppedGrows /\ seq \in DOMAIN dropped' /\ dropped'[seq] = drag
        /\ \A k \in DOMAIN dropped : k < seq
    <2>1. dropped \in Seq(0 .. PressMax) /\ drag \in 0 .. PressMax
      <3>1. presses \in 0 .. PressMax /\ drag \in 0 .. presses
        BY DEF Types, ObserverTypeOK, NetworkTypeOK
      <3>2. drag \in 0 .. PressMax
        BY <3>1, Bounds
      <3> QED
        BY <3>2 DEF Types, ObserverTypeOK
    <2> QED
      BY <1>1, <2>1, Appended DEF DroppedGrows
  <1> HIDE DEF seq
  <1>3. CASE generation' > generation /\ UNCHANGED channel
    BY <1>1, <1>2, <1>3, RaisedStep
  <1>4. ASSUME UNCHANGED generation, channel' = Append(channel, x) PROVE Chain'
    <2>1. channel \in Seq(Entries) /\ x \in Entries /\ x.of.kind = "Drop" /\ x.of.seq = seq
          /\ x.gen = generation
      <3>1. channel' \in Seq(Entries) /\ channel'[n] = x /\ n \in DOMAIN channel'
        BY <1>4 DEF Types, ObserverTypeOK
      <3> QED
        BY <1>4, <3>1 DEF Types, ObserverTypeOK, Drop
    <2> HIDE DEF x
    <2>2. \A i \in DOMAIN channel' :
             \/ i = n /\ channel'[i] = x
             \/ i \in DOMAIN channel /\ channel'[i] = channel[i] /\ i < n
      BY <1>4, <2>1, Appended
    <2>3. \A i \in DOMAIN channel : i \in DOMAIN channel' /\ channel'[i] = channel[i]
                                    /\ \A k \in 1 .. (i - 1) : k \in DOMAIN channel
      BY <1>4, <2>1, Appended
    <2>4. n \in DOMAIN channel' /\ channel'[n] = x /\ \A k \in 1 .. (n - 1) : k \in DOMAIN channel
      BY <1>4, <2>1, Appended
    <2>5. PressInv'
      <3>1. \A i \in DOMAIN channel' : IsBegin(channel[i])' => i \in DOMAIN channel
        BY <2>1, <2>2 DEF IsBegin
      <3> QED
        BY <1>1, <1>4, <2>3, <3>1 DEF PressInv, IsBegin, OfPress, Chain, run
    <2>6. DragInv'
      <3>1. Alive' => Alive
        BY <1>1, <1>4, <2>1, <2>2 DEF Alive, Began, IsBegin, run
      <3>2. CASE drag = presses /\ \A i \in DOMAIN channel : ~IsDrop(channel[i])
        <4>1. FirstDrop(n)'
          BY <1>4, <2>1, <2>3, <2>4, <3>2 DEF FirstDrop, IsDrop
        <4>2. dropped'[channel'[n].of.seq] = presses'
          BY <1>1, <1>2, <2>1, <2>4, <3>2
        <4> QED
          BY <2>4, <4>1, <4>2 DEF DragInv
      <3>3. ASSUME NEW i \in DOMAIN channel, FirstDrop(i), dropped[channel[i].of.seq] = presses
            PROVE  DragInv'
        <4>1. FirstDrop(i)'
          BY <1>4, <2>3, <3>3 DEF FirstDrop, IsDrop
        <4>2. channel[i].of.seq \in DOMAIN dropped
          BY <3>3 DEF Chain, OrderInv, Drops, FirstDrop, IsDrop
        <4>3. dropped'[channel'[i].of.seq] = presses'
          BY <1>1, <1>2, <2>3, <3>3, <4>2 DEF DroppedGrows
        <4> QED
          BY <2>3, <4>1, <4>3 DEF DragInv
      <3> QED
        BY <3>1, <3>2, <3>3 DEF DragInv, Chain
    <2>7. AtTask'
      BY <1>1, <1>2 DEF AtTask, Chain, run, DroppedGrows
    <2>8. OrderInv'
      <3>1. \A i \in Drops' : \/ i = n /\ channel'[i].of.seq = seq
                              \/ i \in Drops /\ channel'[i] = channel[i] /\ i < n
        BY <2>1, <2>2 DEF Drops
      <3>2. \A i \in Drops : channel[i].of.seq \in DOMAIN dropped
        BY DEF Chain, OrderInv
      <3>3. \A i \in Drops' : channel'[i].of.seq \in DOMAIN dropped'
        BY <1>2, <3>1, <3>2 DEF DroppedGrows
      <3>4. \A i, j \in Drops' : i < j => channel'[i].of.seq < channel'[j].of.seq
        <4> SUFFICES ASSUME NEW i \in Drops', NEW j \in Drops', i < j
                     PROVE  channel'[i].of.seq < channel'[j].of.seq
          OBVIOUS
        <4>1. i \in Drops /\ channel'[i] = channel[i]
          <5>1. i # n
            <6>1. n \in Nat /\ i \in Nat /\ j \in Nat /\ j <= n
              BY <2>1, <3>1, SMTT(60), ZenonT(60) DEF Drops, Types, ObserverTypeOK
            <6> QED
              BY <6>1
          <5> QED
            BY <3>1, <5>1
        <4> QED
          BY <1>2, <3>1, <3>2, <4>1 DEF Chain, OrderInv
      <3>5. task' = "offer" => \A i \in Drops' : event'.of.seq < channel'[i].of.seq
        BY <1>1, <1>2, <3>1 DEF Chain, OrderInv, AtTask, run
      <3>6. \A k \in DOMAIN offers' :
              /\ offers'[k].release.seq \in DOMAIN dropped'
              /\ \A i \in Drops' : offers'[k].release.seq < channel'[i].of.seq
              /\ task' = "offer" => offers'[k].release.seq < event'.of.seq
        BY <1>1, <1>2, <3>1 DEF Chain, OrderInv, run, DroppedGrows
      <3> QED
        BY <3>3, <3>4, <3>5, <3>6 DEF OrderInv
    <2>9. OffersInv'
      BY <1>1, <1>2 DEF OrderInv, OffersInv, Chain, DroppedGrows
    <2> QED
      BY <2>5, <2>6, <2>7, <2>8, <2>9 DEF Chain
  <1> QED
    BY <1>3, <1>4, GenTypes DEF RemoteRelease, Send, seq

\* The task takes the next event.
LEMMA ReceiveStep ==
    ASSUME Types, Types', Chain, Receive
    PROVE  Chain'
  <1> PICK e : e = channel[1]
    OBVIOUS
  <1>1. /\ task = "recv" /\ channel # <<>> /\ channel' = Tail(channel) /\ e = Head(channel)
        /\ UNCHANGED <<generation, presses, drag, dropped, offers>>
    BY Tailed DEF Receive, user, Types, ObserverTypeOK
  <1>2. e \in Entries /\ 1 \in DOMAIN channel /\ e.gen <= generation
    BY <1>1, Tailed DEF Types, ObserverTypeOK
  <1>3. \A i \in DOMAIN channel' : /\ i + 1 \in DOMAIN channel /\ channel'[i] = channel[i + 1]
                                   /\ i \in Nat /\ i > 0
                                   /\ \A k \in 1 .. (i - 1) : k \in DOMAIN channel' /\ k + 1 \in 1 .. i
    BY <1>1, Tailed DEF Types, ObserverTypeOK
  <1>4. \A i \in DOMAIN channel : /\ i # 1 => i - 1 \in DOMAIN channel' /\ channel'[i - 1] = channel[i]
                                  /\ i \in Nat /\ i > 0
    BY <1>1, Tailed DEF Types, ObserverTypeOK
  <1>5. \/ e.gen # generation /\ Idle(NoGesture)
        \/ /\ e.gen = generation /\ e.of.kind = "Begin"
           /\ task' = "begin" /\ event' = e /\ UNCHANGED <<candidate, gesture>>
        \/ e.gen = generation /\ e.of.kind = "Cross" /\ Idle(NoGesture)
        \/ /\ e.gen = generation /\ e.of.kind = "Cross" /\ gesture.gen = e.gen
           /\ Handle("paths", e, gesture)
        \/ e.gen = generation /\ e.of.kind = "Drop" /\ Idle(NoGesture)
        \/ /\ e.gen = generation /\ e.of.kind = "Drop" /\ Handle("offer", e, gesture)
           /\ gesture.gen = e.gen /\ gesture.paths # 0
    BY <1>1, <1>2 DEF Receive, Matches, Entries, Events
  <1>6. NoGesture.gen # generation' /\ NoGesture.gen # generation
    BY <1>1 DEF NoGesture, Types, ObserverTypeOK
  <1>7. \A i \in DOMAIN channel' : IsBegin(channel[i])' => IsBegin(channel[i + 1])
    BY <1>1, <1>3 DEF IsBegin
  <1>8. \A i \in DOMAIN channel' : IsBegin(channel[i])' => e.gen # generation
    <2> SUFFICES ASSUME NEW i \in DOMAIN channel', IsBegin(channel[i])' PROVE e.gen # generation
      OBVIOUS
    <2>1. i + 1 \in DOMAIN channel /\ IsBegin(channel[i + 1]) /\ 1 \in 1 .. ((i + 1) - 1)
      BY <1>3, <1>7
    <2> QED
      BY <2>1 DEF Chain, PressInv
  <1>9. PressInv'
    <2>1. \A i \in DOMAIN channel' : IsBegin(channel[i])' =>
            /\ channel'[i].of.press = presses'
            /\ \A j \in 1 .. (i - 1) : channel'[j].gen # generation'
      <3> SUFFICES ASSUME NEW i \in DOMAIN channel', IsBegin(channel[i])'
                   PROVE  /\ channel'[i].of.press = presses'
                          /\ \A j \in 1 .. (i - 1) : channel'[j].gen # generation'
        OBVIOUS
      <3>1. i + 1 \in DOMAIN channel /\ IsBegin(channel[i + 1]) /\ channel'[i] = channel[i + 1]
        BY <1>3, <1>7
      <3>2. /\ channel[i + 1].of.press = presses
            /\ \A j \in 1 .. i : channel[j].gen # generation
        BY <1>3, <3>1 DEF Chain, PressInv
      <3>3. \A j \in 1 .. (i - 1) : channel'[j] = channel[j + 1] /\ j + 1 \in 1 .. i
        BY <1>3
      <3> QED
        BY <1>1, <3>1, <3>2, <3>3
    <2>2. gesture'.gen = generation' => OfPress(gesture)'
      BY <1>1, <1>5, <1>6 DEF Idle, Handle, Chain, PressInv, OfPress
    <2>3. task' \in {"paths", "escape"} => OfPress(candidate)'
      BY <1>1, <1>5 DEF Idle, Handle, Chain, PressInv, OfPress
    <2>4. task' = "begin" => event'.of.press = presses'
      <3>1. e.gen = generation /\ e.of.kind = "Begin" => e.of.press = presses
        BY <1>2 DEF Chain, PressInv, IsBegin
      <3> QED
        BY <1>1, <1>5, <3>1 DEF Idle, Handle
    <2> QED
      BY <2>1, <2>2, <2>3, <2>4 DEF PressInv
  <1>10. DragInv'
    <2> SUFFICES ASSUME Alive' PROVE DragInv'
      BY DEF DragInv
    <2>1. Began' => Began
      BY <1>3, <1>7 DEF Began
    <2>2. Alive /\ ~IsDrop(e)
      <3>1. CASE e.gen # generation
        BY <1>1, <1>5, <1>6, <2>1, <3>1 DEF Alive, Idle, IsDrop
      <3>2. CASE e.gen = generation
        <4>1. ~Began'
          BY <1>8, <3>2 DEF Began
        <4>2. e.of.kind = "Begin" => Began
          BY <1>2, <3>2 DEF Began, IsBegin
        <4> QED
          BY <1>1, <1>5, <1>6, <3>2, <4>1, <4>2 DEF Alive, Idle, Handle, IsDrop
      <3> QED
        BY <3>1, <3>2
    <2>3. CASE drag = presses /\ \A i \in DOMAIN channel : ~IsDrop(channel[i])
      BY <1>1, <1>3, <2>3 DEF DragInv, IsDrop
    <2>4. ASSUME NEW i \in DOMAIN channel, FirstDrop(i), dropped[channel[i].of.seq] = presses
          PROVE  DragInv'
      <3>1. i # 1
        BY <2>2, <2>4 DEF FirstDrop
      <3> PICK k : k = i - 1
        OBVIOUS
      <3>2. k \in DOMAIN channel' /\ channel'[k] = channel[i]
        BY <1>4, <3>1
      <3>3. FirstDrop(k)'
        <4>1. IsDrop(channel[k])'
          BY <1>1, <2>4, <3>2 DEF FirstDrop, IsDrop
        <4>2. \A j \in 1 .. (k - 1) : channel'[j] = channel[j + 1] /\ j + 1 \in 1 .. (i - 1)
          BY <1>3, <1>4, <3>2
        <4>3. \A j \in 1 .. (k - 1) : ~IsDrop(channel[j])'
          BY <1>1, <2>4, <4>2 DEF FirstDrop, IsDrop
        <4> QED
          BY <4>1, <4>3 DEF FirstDrop
      <3> QED
        BY <1>1, <2>4, <3>2, <3>3 DEF DragInv
    <2> QED
      BY <2>2, <2>3, <2>4 DEF Chain, DragInv
  <1>11. \A i \in Drops' : i + 1 \in Drops /\ channel'[i] = channel[i + 1]
    BY <1>3 DEF Drops
  <1>12. AtTask'
    <2>1. task' \in {"paths", "escape"} => candidate'.gen = event'.gen
      BY <1>5 DEF Idle, Handle
    <2>2. ASSUME task' = "offer"
          PROVE  /\ event'.of.seq \in DOMAIN dropped'
                 /\ candidate'.paths # 0 /\ dropped'[event'.of.seq] = candidate'.paths
      <3>1. /\ IsDrop(e) /\ event' = e /\ candidate' = gesture
            /\ gesture.gen = generation /\ gesture.paths # 0
        BY <1>5, <2>2 DEF Idle, Handle, IsDrop
      <3>2. gesture.paths = presses /\ Alive
        BY <3>1 DEF Chain, PressInv, OfPress, Alive
      <3>3. FirstDrop(1) /\ \A i \in DOMAIN channel : FirstDrop(i) => i = 1
        BY <1>2, <1>4, <3>1 DEF FirstDrop
      <3>4. dropped[e.of.seq] = presses
        BY <1>2, <3>1, <3>2, <3>3 DEF Chain, DragInv
      <3>5. e.of.seq \in DOMAIN dropped
        BY <1>2, <3>1 DEF Chain, OrderInv, Drops, IsDrop
      <3> QED
        BY <1>1, <3>1, <3>2, <3>4, <3>5
    <2> QED
      BY <2>1, <2>2 DEF AtTask
  <1>13. OrderInv'
    <2>1. task' = "offer" => 1 \in Drops /\ event' = channel[1]
      BY <1>2, <1>5 DEF Idle, Handle, Drops
    <2>2. task' = "offer" => \A i \in Drops' : event'.of.seq < channel'[i].of.seq
      BY <1>3, <1>11, <2>1 DEF Chain, OrderInv, Drops
    <2>3. \A i \in Drops' : channel'[i].of.seq \in DOMAIN dropped'
      BY <1>1, <1>11 DEF Chain, OrderInv
    <2>4. \A i, j \in Drops' : i < j => channel'[i].of.seq < channel'[j].of.seq
      <3>1. \A i, j \in Drops' : i < j => i + 1 < j + 1
        BY <1>3 DEF Drops
      <3> QED
        BY <1>11, <3>1 DEF Chain, OrderInv
    <2>5. \A k \in DOMAIN offers' :
            /\ offers'[k].release.seq \in DOMAIN dropped'
            /\ \A i \in Drops' : offers'[k].release.seq < channel'[i].of.seq
            /\ task' = "offer" => offers'[k].release.seq < event'.of.seq
      BY <1>1, <1>11, <2>1 DEF Chain, OrderInv
    <2> QED
      BY <2>2, <2>3, <2>4, <2>5 DEF OrderInv
  <1>14. OffersInv'
    BY <1>1 DEF Chain, OffersInv
  <1> QED
    BY <1>9, <1>10, <1>12, <1>13, <1>14 DEF Chain

\* The task comes back from an await, or finishes.
LEMMA TaskStep ==
    ASSUME Types, Types', Chain, Begun \/ PathsRead \/ NativeEnded \/ Offer
    PROVE  Chain'
  <1>1. UNCHANGED <<channel, generation, presses, drag, dropped>>
    BY DEF Begun, PathsRead, NativeEnded, Offer, observer, user
  <1>2. NoGesture.gen # generation' /\ NoGesture.gen # generation /\ task \in {"begin", "paths", "escape", "offer"}
    BY <1>1 DEF NoGesture, Types, ObserverTypeOK, Begun, PathsRead, NativeEnded, Offer
  <1>3. \A i \in DOMAIN channel : channel'[i] = channel[i]
    BY <1>1
  <1>4. task' # "begin" /\ task' # "offer"
    BY DEF Begun, PathsRead, NativeEnded, Offer, Idle, Handle
  \* What it keeps is of the generation of what it held, and as good.
  <1>5. gesture'.gen = generation => Alive /\ OfPress(gesture')
    <2>1. ASSUME task = "begin", gesture' = [NoGesture EXCEPT !.gen = event.gen, !.press = event.of.press],
                 gesture'.gen = generation
          PROVE  Alive /\ OfPress(gesture')
      <3>1. gesture'.gen = event.gen /\ gesture'.press = event.of.press /\ gesture'.paths = 0
        BY <2>1 DEF NoGesture
      <3> QED
        BY <2>1, <3>1 DEF Chain, PressInv, Alive, OfPress
    <2>2. ASSUME task = "escape", gesture' = [candidate EXCEPT !.epoch = event.of.epoch, !.conn = conn],
                 gesture'.gen = generation
          PROVE  Alive /\ OfPress(gesture')
      <3>1. /\ gesture'.gen = candidate.gen /\ gesture'.press = candidate.press
            /\ gesture'.paths = candidate.paths
        BY <2>2 DEF Types, RunTypeOK, Gestures
      <3> QED
        BY <2>2, <3>1 DEF Chain, PressInv, Alive, OfPress
    <2> QED
      BY <1>2, <2>1, <2>2 DEF Begun, PathsRead, NativeEnded, Offer, Idle, Handle
  <1>6. task' \in {"paths", "escape"} =>
          /\ candidate'.gen = event'.gen
          /\ candidate'.gen = generation => Alive /\ OfPress(candidate')
    <2> SUFFICES ASSUME PathsRead, NEW p \in candidate.press .. presses, generation = event.gen,
                        Handle("escape", event, [candidate EXCEPT !.paths = p])
                 PROVE  /\ candidate'.gen = event'.gen
                        /\ candidate'.gen = generation => Alive /\ OfPress(candidate')
      BY DEF Begun, PathsRead, NativeEnded, Offer, Idle
    <2>1. /\ candidate'.gen = candidate.gen /\ candidate'.press = candidate.press
          /\ candidate'.paths = p /\ event' = event
      BY DEF Handle, Types, RunTypeOK, Gestures
    <2>2. candidate.gen = event.gen
      BY DEF PathsRead, Chain, AtTask
    <2>3. candidate.gen = generation => Alive /\ candidate.press = presses
      BY DEF PathsRead, Chain, PressInv, Alive, OfPress
    <2>4. presses \in Nat
      BY DEF Types, NetworkTypeOK
    <2> QED
      BY <2>1, <2>2, <2>3, <2>4 DEF OfPress
  <1>7. PressInv'
    BY <1>1, <1>3, <1>4, <1>5, <1>6 DEF Chain, PressInv, OfPress, IsBegin
  <1>8. DragInv'
    <2>1. Alive' => Alive
      BY <1>1, <1>3, <1>4, <1>5, <1>6 DEF Alive, Began, IsBegin
    <2> QED
      BY <1>1, <1>3, <2>1 DEF Chain, DragInv, FirstDrop, IsDrop
  <1>9. AtTask'
    BY <1>4, <1>6 DEF AtTask
  <1>10. CASE UNCHANGED offers
    <2>1. OrderInv' /\ OffersInv'
      BY <1>1, <1>4, <1>10 DEF Chain, OrderInv, OffersInv, Drops
    <2> QED
      BY <1>7, <1>8, <1>9, <2>1 DEF Chain
  <1>11. ASSUME Offer, NEW o,
                o = [release |-> Release(conn, event.of.epoch, event.of.seq),
                     files |-> candidate.paths, at |-> "sent"],
                offers' = Append(offers, o)
         PROVE  Chain'
    <2> PICK n : n = Len(offers) + 1
      OBVIOUS
    <2>1. o.release.seq = event.of.seq /\ o.files = candidate.paths /\ task = "offer"
      BY <1>11 DEF Release, Offer
    <2>2. offers \in Seq(Offers) /\ o \in Offers
      <3>1. offers' \in Seq(Offers) /\ n \in DOMAIN offers' /\ offers'[n] = o
        BY <1>11 DEF Types, PeerTypeOK
      <3> QED
        BY <3>1 DEF Types, PeerTypeOK
    <2>3. \A k \in DOMAIN offers' : \/ k = n /\ offers'[k] = o
                                    \/ k \in DOMAIN offers /\ offers'[k] = offers[k] /\ k # n
      BY <1>11, <2>2, Appended
    <2>4. \A k \in DOMAIN offers : offers[k].release.seq < event.of.seq
      BY <2>1 DEF Chain, OrderInv
    <2>5. OrderInv'
      BY <1>1, <1>3, <1>4, <2>1, <2>3 DEF Chain, OrderInv, AtTask, Drops
    <2>6. OffersInv'
      <3>1. \A k \in DOMAIN offers' :
              offers'[k].files # 0 /\ dropped'[offers'[k].release.seq] = offers'[k].files
        BY <1>1, <2>1, <2>3 DEF Chain, OffersInv, AtTask
      <3>2. \A i, k \in DOMAIN offers' : k # i => offers'[k].release.seq # offers'[i].release.seq
        <4>1. event.of.seq \in Nat /\ \A k \in DOMAIN offers : offers[k].release.seq # event.of.seq
          <5>1. event.of.seq \in Nat
            BY <2>1, <2>2 DEF Offers
          <5>2. \A k \in DOMAIN offers : offers[k] \in Offers
            BY <2>2
          <5>3. \A k \in DOMAIN offers : offers[k].release.seq \in Nat
            BY <5>2 DEF Offers
          <5> QED
            BY <2>4, <5>1, <5>3
        <4> QED
          BY <2>1, <2>3, <4>1 DEF Chain, OffersInv
      <3> QED
        BY <3>1, <3>2 DEF OffersInv
    <2> QED
      BY <1>7, <1>8, <1>9, <2>5, <2>6 DEF Chain
  <1> QED
    BY <1>10, <1>11 DEF Begun, PathsRead, NativeEnded, Offer

LEMMA ChainStep == Types /\ Types' /\ Chain /\ [Next]_vars => Chain'
  <1> SUFFICES ASSUME Types, Types', Chain, [Next]_vars PROVE Chain'
    OBVIOUS
  <1>1. ASSUME Cancel, UNCHANGED <<run, offers, dropped>> PROVE Chain'
    BY <1>1, RaisedStep, GenTypes DEF Cancel, DroppedGrows, Types, ObserverTypeOK
  <1>2. LocalRelease \/ Escape \/ Leave => Cancel /\ UNCHANGED <<run, offers, dropped>>
    BY DEF LocalRelease, Escape, Leave
  <1>3. ASSUME UNCHANGED <<generation, channel, run, presses, drag, dropped, offers>> PROVE Chain'
    BY <1>3, QuietStep
  <1>4. LocalMove \/ RemotePress \/ Connect \/ Disconnect \/ Inject \/ Expire \/ UNCHANGED vars
        => UNCHANGED <<generation, channel, run, presses, drag, dropped, offers>>
    BY DEF LocalMove, RemotePress, Connect, Disconnect, Inject, Expire, vars, user, observer
  <1>5. ASSUME NEW i \in DOMAIN offers, Resolve(i) \/ GiveUp(i) PROVE Chain'
    <2>1. UNCHANGED <<generation, channel, run, presses, drag, dropped>>
      BY <1>5 DEF Resolve, GiveUp, user, observer
    <2>2. PICK end : offers' = [offers EXCEPT ![i].at = end]
      BY <1>5 DEF Resolve, GiveUp
    <2>3. \A k \in DOMAIN offers : offers[k] \in Offers
      BY DEF Types, PeerTypeOK
    <2>4. /\ DOMAIN offers' = DOMAIN offers
          /\ \A k \in DOMAIN offers : /\ offers'[k].release = offers[k].release
                                      /\ offers'[k].files = offers[k].files
      BY <2>2, <2>3 DEF Offers
    <2> QED
      BY <2>1, <2>4, QuietStep
  <1> QED
    BY <1>1, <1>2, <1>3, <1>4, <1>5, PressStep, EnterStep, ReleaseStep, ReceiveStep, TaskStep
    DEF Next, User, Task, Peer

-----------------------------------------------------------------------------
(* The theorems.                                                           *)

LEMMA ChainInit == Init => Chain
  BY DEF Init, Chain, AtTask, PressInv, DragInv, OrderInv, OffersInv, Alive, Began, Drops, NoGesture

(* Types and the chain hold throughout: what run() awaits, and what the     *)
(* channel has lost, leave no event of an earlier press behind.            *)
THEOREM DragInvariant == Spec => [](Types /\ Chain)
  <1>1. Types /\ Chain /\ [Next]_vars => (Types /\ Chain)'
    BY TypesStep, ChainStep
  <1> QED
    BY TypesInit, ChainInit, <1>1, PTL DEF Spec

(* What is offered is what was dragged with the press that the release     *)
(* ended, and it is offered once (FolderDragRuntime::send and cancel,      *)
(* run, release_matches).                                                  *)
THEOREM DropsFollowDrags == Spec => []DropFollowsDrag
  <1>1. Types /\ Chain => DropFollowsDrag
    <2> SUFFICES ASSUME Types, Chain PROVE DropFollowsDrag
      OBVIOUS
    <2>1. task = "recv" <=> event = NoEvent
      BY NoEventIsNone DEF Types, RunTypeOK
    <2>2. \A i \in DOMAIN receipts : receipts[i] \in injected
      BY DEF Types, PeerTypeOK
    <2>3. conn \in {0, made} /\ made \in 0 .. ConnMax /\ session.epoch \in {0, epochs}
      BY DEF Types, NetworkTypeOK
    <2>4. DragTypeOK
      BY <2>1, <2>2, <2>3 DEF DragTypeOK, Types, ObserverTypeOK, RunTypeOK, PeerTypeOK
    <2> QED
      BY <2>4 DEF DropFollowsDrag, Chain, OffersInv
  <1> QED
    BY <1>1, DragInvariant, PTL

LEMMA PlacedStep ==
    ASSUME Types, PlacedWhereReleased, [Next]_vars
    PROVE  PlacedWhereReleased'
  <1>1. injected \subseteq injected'
    <2>1. User \/ Task \/ Connect \/ Disconnect \/ Expire \/ UNCHANGED vars => UNCHANGED injected
      BY DEF User, LocalPress, LocalMove, LocalRelease, Escape, Enter, RemotePress, RemoteRelease, Leave,
             Task, Receive, Begun, PathsRead, NativeEnded, Offer, Connect, Disconnect, Expire, vars, peer
    <2> QED
      BY <2>1 DEF Next, Peer, Inject, Resolve, GiveUp, peer
  <1>2. \A k \in DOMAIN offers : offers[k] \in Offers
    BY DEF Types, PeerTypeOK
  <1>3. CASE UNCHANGED offers
    BY <1>1, <1>3 DEF PlacedWhereReleased
  <1>4. ASSUME NEW i \in DOMAIN offers, Resolve(i) PROVE PlacedWhereReleased'
    <2>1. /\ \E r \in DOMAIN receipts : receipts[r] = offers[i].release
          /\ \E end : offers' = [offers EXCEPT ![i].at = end]
      BY <1>4 DEF Resolve, Same
    <2>2. offers[i].release \in injected
      BY <2>1 DEF Types, PeerTypeOK
    <2>3. \A k \in DOMAIN offers' : /\ k \in DOMAIN offers /\ offers'[k].release = offers[k].release
                                    /\ k # i => offers'[k].at = offers[k].at
      BY <1>2, <2>1 DEF Offers
    <2> QED
      BY <1>1, <2>2, <2>3 DEF PlacedWhereReleased
  <1>5. ASSUME NEW i \in DOMAIN offers, GiveUp(i) PROVE PlacedWhereReleased'
    <2>1. \A k \in DOMAIN offers' : /\ k \in DOMAIN offers /\ offers'[k].release = offers[k].release
                                    /\ offers'[k].at = "placed" => offers[k].at = "placed"
      BY <1>2, <1>5 DEF GiveUp, Offers
    <2> QED
      BY <1>1, <2>1 DEF PlacedWhereReleased
  <1>6. ASSUME Offer PROVE PlacedWhereReleased'
    <2>1. CASE UNCHANGED offers
      BY <1>3, <2>1
    <2>2. ASSUME NEW o, o.at = "sent", offers' = Append(offers, o) PROVE PlacedWhereReleased'
      <3>1. \A k \in DOMAIN offers' : offers'[k].at = "placed" =>
              k \in DOMAIN offers /\ offers'[k] = offers[k]
        BY <2>2 DEF Types, PeerTypeOK
      <3> QED
        BY <1>1, <3>1 DEF PlacedWhereReleased
    <2> QED
      BY <1>6, <2>1, <2>2 DEF Offer
  <1>7. \/ User \/ Receive \/ Begun \/ PathsRead \/ NativeEnded \/ Inject \/ Expire \/ Connect
        \/ Disconnect \/ UNCHANGED vars
        => UNCHANGED offers
    BY DEF User, LocalPress, LocalMove, LocalRelease, Escape, Enter, RemotePress, RemoteRelease, Leave,
           Receive, Begun, PathsRead, NativeEnded, Inject, Expire, Connect, Disconnect, vars
  <1> QED
    BY <1>3, <1>4, <1>5, <1>6, <1>7 DEF Next, Task, Peer

(* The peer places files only where it has itself injected the release     *)
(* that dropped them (NativeFolderResolver::resolve, FolderDropReceipts).  *)
THEOREM PlacementNeedsRelease == Spec => []PlacedWhereReleased
  <1>1. Init => PlacedWhereReleased
    BY DEF Init, PlacedWhereReleased
  <1>2. Types /\ PlacedWhereReleased /\ [Next]_vars => PlacedWhereReleased'
    BY PlacedStep
  <1> QED
    BY <1>1, <1>2, DragInvariant, PTL DEF Spec
=============================================================================
