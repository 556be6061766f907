------------------------- MODULE PeerInputLanesProofs -------------------------
(***************************************************************************)
(* What holds of PeerInputLanes for any number of controllers, connections *)
(* and epochs, any capacity of the queue, and whether or not the bounded   *)
(* queues outside may be full.                                             *)
(*                                                                         *)
(* The inductive invariant IInv has a part for the links between the       *)
(* connections (LinkInv), one for the actor's session (SessionInv), and    *)
(* one for each connection (Local): what kinds of frames are where, that   *)
(* nothing speaks of an epoch before the receiving half has seen it, that  *)
(* the frames of an epoch come from one stream, what the sending half      *)
(* still knows of its streams, that frames follow each other from the      *)
(* readers to the hand of the worker without a gap (Row), and that what    *)
(* ends a session comes to the worker behind it (AllAnswered).  A step of  *)
(* one connection leaves Local of the others alone (AlikeKeeps).           *)
(***************************************************************************)
EXTENDS PeerInputLanes, FiniteSetTheorems, TLAPS

StreamStates == [frames : Seq(Frames), cut : BOOLEAN, epoch : Epochs, held : Frames, gone : BOOLEAN]
Nets == [streams : Seq(StreamStates), urgent : SUBSET Epochs, rushed : SUBSET Epochs,
         datagrams : SUBSET Epochs]
Inbounds == [active : Epochs, last : 0..SendMax, retired : Epochs, terminal : BOOLEAN]
Emitters == [due : SUBSET Epochs, high : Epochs]
Workers == [pc : {"off", "wait", "hold", "end", "done"}, active : Epochs, frame : Frames,
            failed : BOOLEAN]
Sessions == [owner : 0..ConnMax, epoch : Epochs, open : BOOLEAN, lapsed : BOOLEAN,
             rel : 0..(SendMax + 1)]

\* A session under way is later than every retired one.
Sane(in) == in.active # 0 => in.active > in.retired /\ ~in.terminal

Types ==
    /\ peer \in [Conns -> Peers \cup {None}]
    /\ phase \in [Conns -> {"none", "open", "closed", "ended"}]
    /\ entered \in [Peers -> Epochs] /\ lane \in [Conns -> LaneStates(Epochs)]
    /\ sends \in 0..SendMax /\ sent \in [Conns -> 0..SendMax]
    /\ \A c \in Conns : sent[c] <= sends
    /\ net \in [Conns -> Nets] /\ inbound \in [Conns -> Inbounds]
    /\ releases \in [Conns -> Emitters]
    /\ queue \in [Conns -> Seq(Frames)] /\ mailbox \in [Conns -> Frames]
    /\ worker \in [Conns -> Workers]
    /\ news \in [Conns -> {"none", "up", "down"}]
    /\ current \in [Peers -> 0..ConnMax] /\ known \in [Peers -> 0..ConnMax]
    /\ session \in Sessions
    /\ \A c \in Conns : /\ Sane(inbound[c]) /\ releases[c].due \subseteq 1..releases[c].high
                        /\ Len(queue[c]) <= QueueCap

Unmade(c) ==
    /\ phase[c] = "none" /\ lane[c] = FreshLane
    /\ net[c] = [streams |-> <<>>, urgent |-> {}, rushed |-> {}, datagrams |-> {}]
    /\ inbound[c] = FreshInbound /\ releases[c] = [due |-> {}, high |-> 0]
    /\ queue[c] = <<>> /\ mailbox[c] = NoFrame /\ worker[c] = FreshWorker

\* Connections of a controller follow each other, and are served in order.
LinkInv ==
    /\ \A c \in Conns : peer[c] = None => Unmade(c)
    /\ \A c, d \in Conns : c < d /\ peer[d] # None => peer[c] # None
    /\ \A c, d \in Conns : c < d /\ peer[c] = peer[d] => ~Open(c)
    /\ \A c, d \in Conns : c < d /\ worker[d].pc # "off" => worker[c].pc # "off"
    /\ \A p \in Peers : current[p] # 0 =>
          peer[current[p]] = p /\ worker[current[p]].pc \in {"wait", "hold", "end"}
    /\ \A c \in Conns : worker[c].pc = "end" /\ ~worker[c].failed => phase[c] = "ended" \/ ~IsCurrent(c)

\* The session belongs to the worker that began it.
SessionInv ==
    /\ session.open => session.owner # 0 /\ session.epoch # 0
    /\ \A c \in Conns :
        /\ session.owner = c /\ worker[c].pc \in {"wait", "hold"} => worker[c].active = session.epoch
        /\ session.owner = c => worker[c].pc # "off"
        /\ worker[c].active <= session.epoch

Input(f) == f.kind \in {"Enter", "Key"}
WellWritten(f) == Input(f) /\ f.epoch # 0 /\ (f.kind = "Enter" => f.seq = 0)

\* What kinds of frames are where.
Kinds(c) ==
    /\ \A i \in Streams(c) :
          /\ LET s == net[c].streams[i].frames IN  \A k \in DOMAIN s : WellWritten(s[k])
          /\ net[c].streams[i].held = NoFrame \/ WellWritten(net[c].streams[i].held)
    /\ \A k \in DOMAIN queue[c] : queue[c][k].kind \in {"Enter", "Key", "ReleaseAll"}
                                   /\ queue[c][k].epoch # 0
    /\ mailbox[c] = NoFrame \/ (mailbox[c].kind = "Motion" /\ mailbox[c].epoch # 0)
    /\ worker[c].pc = "hold" => worker[c].frame.kind # "None" /\ worker[c].frame.epoch # 0
    /\ worker[c].pc # "hold" => worker[c].frame = NoFrame
    /\ 0 \notin net[c].urgent \cup net[c].rushed \cup net[c].datagrams

Heard(c) == Larger(inbound[c].active, inbound[c].retired)

\* Nothing speaks of an epoch the receiving half has not seen, and no release
\* of one that it has not retired.
HeardOf(c) ==
    /\ \A i \in Streams(c) : /\ net[c].streams[i].epoch <= Heard(c)
                              /\ net[c].streams[i].held.epoch <= Heard(c)
    /\ \A k \in DOMAIN queue[c] : queue[c][k].epoch <= Heard(c)
    /\ mailbox[c].epoch <= Heard(c) /\ worker[c].frame.epoch <= Heard(c)
    /\ session.owner = c => session.epoch <= Heard(c)
    /\ \A e \in net[c].rushed : e <= inbound[c].retired
    /\ \A k \in DOMAIN queue[c] :
          queue[c][k].kind = "ReleaseAll" => queue[c][k].epoch <= inbound[c].retired
    /\ worker[c].frame.kind = "ReleaseAll" => worker[c].frame.epoch <= inbound[c].retired
    /\ releases[c].high <= inbound[c].retired
    /\ inbound[c].terminal => ~Open(c)

Owns(s, e) == s.epoch = e \/ s.held.epoch = e

\* The frames of an epoch come from one stream.
OwnedOnce(c) ==
    \A i, j \in Streams(c) : \A e \in 1..EpochMax :
        Owns(net[c].streams[i], e) /\ Owns(net[c].streams[j], e) => i = j

SentThrough(l) == Larger(l.active, l.retired)

\* What the sending half of an open connection knows of one of its streams.
Accounted(c, s, l) ==
    LET through == IF s.cut THEN l.retired ELSE SentThrough(l)
    IN  /\ s.epoch <= through /\ s.held.epoch <= through
        /\ \A k \in DOMAIN s.frames :
              /\ s.frames[k].epoch <= through
              /\ \/ s.frames[k].epoch = l.active
                 \/ s.frames[k].epoch \in net[c].urgent
                 \/ s.frames[k].epoch <= inbound[c].retired

SenderKnows(c) ==
    Open(c) =>
        /\ lane[c].active # 0 => lane[c].active > lane[c].retired
        /\ inbound[c].active # 0 => inbound[c].active = lane[c].active \/ inbound[c].active \in net[c].urgent
        /\ \A i \in Streams(c) : Accounted(c, net[c].streams[i], lane[c])

\* The worker of c still takes what is queued for it.
Serving(c) == worker[c].pc = "off" \/ (worker[c].pc \in {"wait", "hold"} /\ IsCurrent(c))

InHand(c, f) == worker[c].pc = "hold" /\ worker[c].frame = f
InQueue(c, f) == \E k \in DOMAIN queue[c] : queue[c][k] = f
InReader(c, f) == \E i \in Streams(c) : net[c].streams[i].held = f
OnItsWay(c, f) == InHand(c, f) \/ InQueue(c, f) \/ InReader(c, f)

\* The actor's session has come to sequence s of epoch e, or is past the epoch.
Reached(c, e, s) ==
    session.epoch > e \/ (session.epoch = e /\ session.owner = c /\ session.rel = s)

NotPast(c, f) == session.owner = c /\ session.epoch = f.epoch => session.rel <= f.seq

Before(f, g) == f.epoch = g.epoch => f.seq < g.seq

\* f follows what the session has come to, or another frame on its way.
Follows(c, f) ==
    \/ f.seq = 0 \/ Reached(c, f.epoch, f.seq)
    \/ \E g \in Frames : Input(g) /\ OnItsWay(c, g) /\ g.epoch = f.epoch /\ g.seq = f.seq - 1

\* The frames of an epoch go through reader, queue and hand in order and
\* without a gap, from what the session expects to what was taken in last.
HandFits(c) ==
    worker[c].pc = "hold" /\ Input(worker[c].frame) =>
        /\ worker[c].frame.seq = 0 \/ Reached(c, worker[c].frame.epoch, worker[c].frame.seq)
        /\ NotPast(c, worker[c].frame)

Gapless(c) ==
    \A f \in Frames : Input(f) /\ OnItsWay(c, f) =>
        Follows(c, f) /\ NotPast(c, f) /\ (f.epoch = inbound[c].active => f.seq <= inbound[c].last)

InOrder(c) ==
    /\ \A f, g \in Frames : Input(f) /\ Input(g) =>
          /\ InHand(c, f) /\ (InQueue(c, g) \/ InReader(c, g)) => Before(f, g)
          /\ InQueue(c, f) /\ InReader(c, g) => Before(f, g)
    /\ \A k, l \in DOMAIN queue[c] :
          k < l /\ Input(queue[c][k]) /\ Input(queue[c][l]) => Before(queue[c][k], queue[c][l])

UpToLast(c) ==
    inbound[c].active # 0 =>
        \/ Reached(c, inbound[c].active, inbound[c].last + 1)
        \/ \E f \in Frames : Input(f) /\ OnItsWay(c, f) /\ f.epoch = inbound[c].active
                                 /\ f.seq = inbound[c].last

Row(c) == HandFits(c) /\ (Serving(c) => Gapless(c) /\ InOrder(c) /\ UpToLast(c))

\* Something on its way ends a session of epoch e, or it is still under way.
Answered(c, e) ==
    \/ ~Open(c)
    \/ inbound[c].active = e
    \/ \E f \in Frames : OnItsWay(c, f) /\ Ends(f, e)
    \/ \E f \in net[c].urgent \cup net[c].rushed : f >= e

AllAnswered(c) ==
    Serving(c) =>
        /\ session.open /\ session.owner = c => Answered(c, session.epoch)
        /\ \A f \in Frames :
              (OnItsWay(c, f) \/ mailbox[c] = f) /\ f.epoch > session.epoch => Answered(c, f.epoch)

Local(c) == Kinds(c) /\ HeardOf(c) /\ OwnedOnce(c) /\ SenderKnows(c) /\ Row(c) /\ AllAnswered(c)

IInv == Types /\ LinkInv /\ SessionInv /\ \A c \in Conns : Local(c)

-----------------------------------------------------------------------------
(* Helpers: typed values, and what the operators on a connection do.       *)

LEMMA FramesTyped ==
    /\ NoFrame \in Frames /\ 0 \in Epochs /\ 0 \in 0..SendMax
    /\ NoFrame.kind = "None" /\ NoFrame.epoch = 0 /\ NoFrame.seq = 0 /\ ~Input(NoFrame)
    /\ \A kind \in {"Enter", "Key", "ReleaseAll", "Motion"}, e \in Epochs, s \in 0..SendMax :
          Frame(kind, e, s) \in Frames
  BY LanesConstantsAssumption DEF Frames, Epochs, Frame, NoFrame, Input

LEMMA FrameEpochs ==
    \A f \in Frames : f.epoch \in Nat /\ f.epoch \in Epochs
  BY LanesConstantsAssumption DEF Frames, Epochs

LEMMA Appends ==
    ASSUME NEW S, NEW s \in Seq(S), NEW x \in S
    PROVE  /\ Append(s, x) \in Seq(S) /\ Len(Append(s, x)) = Len(s) + 1
           /\ DOMAIN s = 1..Len(s) /\ DOMAIN Append(s, x) = 1..Len(s) + 1
           /\ \A i \in 1..Len(s) : Append(s, x)[i] = s[i]
           /\ Append(s, x)[Len(s) + 1] = x /\ Len(s) \in Nat
  OBVIOUS

LEMMA Pops ==
    ASSUME NEW S, NEW s \in Seq(S), s # <<>>
    PROVE  /\ Tail(s) \in Seq(S) /\ Head(s) = s[1] /\ Head(s) \in S /\ 1 \in DOMAIN s
           /\ Len(Tail(s)) = Len(s) - 1 /\ Len(s) \in Nat /\ Len(s) > 0
           /\ DOMAIN s = 1..Len(s) /\ DOMAIN Tail(s) = 1..Len(s) - 1
           /\ \A i \in DOMAIN Tail(s) : i + 1 \in DOMAIN s /\ Tail(s)[i] = s[i + 1]
  <1>1. /\ Tail(s) \in Seq(S) /\ Head(s) = s[1] /\ Head(s) \in S /\ 1 \in DOMAIN s
        /\ Len(Tail(s)) = Len(s) - 1 /\ Len(s) \in Nat /\ Len(s) > 0
        /\ DOMAIN s = 1..Len(s)
    OBVIOUS
  <1>2. DOMAIN Tail(s) = 1..Len(s) - 1
    BY <1>1
  <1>3. \A i \in 1..Len(s) - 1 : Tail(s)[i] = s[i + 1]
    OBVIOUS
  <1> QED
    BY <1>1, <1>2, <1>3

LEMMA Cuts ==
    ASSUME NEW S, NEW s \in Seq(S), NEW k \in 0..Len(s)
    PROVE  /\ SubSeq(s, 1, k) \in Seq(S) /\ DOMAIN SubSeq(s, 1, k) = 1..k
           /\ DOMAIN s = 1..Len(s) /\ Len(s) \in Nat
           /\ \A i \in 1..k : SubSeq(s, 1, k)[i] = s[i]
  OBVIOUS

LEMMA Updates ==
    ASSUME NEW S, NEW s \in Seq(S), NEW i \in DOMAIN s, NEW x \in S
    PROVE  /\ [s EXCEPT ![i] = x] \in Seq(S) /\ DOMAIN [s EXCEPT ![i] = x] = DOMAIN s
           /\ \A j \in DOMAIN s : [s EXCEPT ![i] = x][j] = IF j = i THEN x ELSE s[j]
  OBVIOUS

LEMMA RetiresInbound ==
    ASSUME NEW in \in Inbounds, NEW e \in Epochs
    PROVE  RetireInbound(in, e) = [active |-> IF in.active <= e THEN 0 ELSE in.active, last |-> in.last,
                                   retired |-> Larger(in.retired, e), terminal |-> in.terminal]
  <1> DEFINE a == IF in.active <= e THEN 0 ELSE in.active
             r == [active |-> in.active, last |-> in.last, retired |-> Larger(in.retired, e),
                   terminal |-> in.terminal]
  <1>1. RetireInbound(in, e) = [in EXCEPT !.retired = Larger(in.retired, e), !.active = a]
    BY DEF Inbounds, RetireInbound
  <1>2. [in EXCEPT !.retired = Larger(in.retired, e)] = r
    BY DEF Inbounds
  <1>3. [in EXCEPT !.retired = Larger(in.retired, e), !.active = a] = [r EXCEPT !.active = a]
    BY <1>2, ZenonT(60), SMTT(60)
  <1>4. [r EXCEPT !.active = a] = [active |-> a, last |-> in.last, retired |-> Larger(in.retired, e),
                                   terminal |-> in.terminal]
    OBVIOUS
  <1> QED
    BY <1>1, <1>3, <1>4, ZenonT(60), SMTT(60)

LEMMA Terminalizes ==
    ASSUME NEW in \in Inbounds
    PROVE  Terminalize(in) = [active |-> 0, last |-> in.last,
                              retired |-> Larger(in.retired, in.active), terminal |-> TRUE]
  <1> DEFINE r == [active |-> 0, last |-> in.last, retired |-> Larger(in.retired, in.active),
                   terminal |-> in.terminal]
  <1>1. in.active \in Nat /\ in.active \in Epochs
    BY LanesConstantsAssumption DEF Inbounds, Epochs
  <1>2. RetireInbound(in, in.active) =
          [active |-> IF in.active <= in.active THEN 0 ELSE in.active, last |-> in.last,
           retired |-> Larger(in.retired, in.active), terminal |-> in.terminal]
    BY <1>1, RetiresInbound
  <1>3. RetireInbound(in, in.active) = r
    BY <1>1, <1>2
  <1>4. Terminalize(in) = [r EXCEPT !.terminal = TRUE]
    BY <1>3, ZenonT(60), SMTT(60) DEF Terminalize
  <1> QED
    BY <1>4

LEMMA Largers ==
    ASSUME NEW a \in Epochs, NEW b \in Epochs
    PROVE  /\ Larger(a, b) \in Epochs /\ Larger(a, b) >= a /\ Larger(a, b) >= b
           /\ Larger(a, b) \in {a, b} /\ a \in Nat /\ b \in Nat /\ Larger(a, b) \in Nat
  BY LanesConstantsAssumption DEF Epochs, Larger

LEMMA InboundsTyped ==
    ASSUME NEW in \in Inbounds, Sane(in), NEW e \in Epochs
    PROVE  /\ RetireInbound(in, e) \in Inbounds /\ Sane(RetireInbound(in, e))
           /\ Terminalize(in) \in Inbounds /\ Sane(Terminalize(in))
           /\ in.active \in Epochs /\ in.retired \in Epochs /\ in.last \in Nat /\ in.terminal \in BOOLEAN
           /\ in.last \in 0..SendMax /\ in.active \in Nat /\ in.retired \in Nat
  <1>1. /\ in.active \in Epochs /\ in.retired \in Epochs /\ in.last \in Nat /\ in.terminal \in BOOLEAN
        /\ in.last \in 0..SendMax /\ in.active \in Nat /\ in.retired \in Nat /\ 0 \in Epochs /\ e \in Nat
    BY LanesConstantsAssumption DEF Inbounds, Epochs
  <1>2. Larger(in.retired, e) \in Epochs /\ Larger(in.retired, in.active) \in Epochs
    BY <1>1, Largers
  <1>3. Terminalize(in) \in Inbounds /\ Sane(Terminalize(in))
    <2>1. Terminalize(in) = [active |-> 0, last |-> in.last,
                             retired |-> Larger(in.retired, in.active), terminal |-> TRUE]
      BY Terminalizes
    <2> QED
      BY <1>1, <1>2, <2>1 DEF Inbounds, Sane
  <1>4. RetireInbound(in, e) \in Inbounds
    BY <1>1, <1>2, RetiresInbound DEF Inbounds
  <1>5. Sane(RetireInbound(in, e))
    <2> DEFINE r == RetireInbound(in, e)
    <2>1. /\ r.active = (IF in.active <= e THEN 0 ELSE in.active) /\ r.terminal = in.terminal
          /\ r.retired = Larger(in.retired, e)
      BY <1>1, RetiresInbound
    <2> SUFFICES Sane(r)
      OBVIOUS
    <2> HIDE DEF r
    <2>2. CASE in.active <= e
      BY <2>1, <2>2 DEF Sane
    <2>3. CASE ~(in.active <= e)
      <3>1. in.active # 0 => in.active > Larger(in.retired, e) /\ ~in.terminal
        BY <1>1, <2>3 DEF Sane, Larger
      <3> QED
        BY <2>1, <2>3, <3>1 DEF Sane
    <2> QED
      BY <2>2, <2>3
  <1> QED
    BY <1>1, <1>3, <1>4, <1>5

LEMMA TerminalTyped ==
    ASSUME NEW in \in Inbounds, Sane(in)
    PROVE  /\ Terminalize(in) \in Inbounds /\ Sane(Terminalize(in))
           /\ Terminalize(in).active = 0 /\ Terminalize(in).terminal
           /\ Terminalize(in).retired = Larger(in.retired, in.active)
           /\ Terminalize(in).last = in.last
  <1>1. 0 \in Epochs
    BY LanesConstantsAssumption DEF Epochs
  <1>2. Terminalize(in) \in Inbounds /\ Sane(Terminalize(in))
    BY <1>1, InboundsTyped
  <1> QED
    BY <1>2, Terminalizes

LEMMA Emits ==
    ASSUME NEW r \in Emitters, r.due \subseteq 1..r.high, NEW e \in Epochs
    PROVE  /\ Emitted(r, e) \in Emitters /\ Emitted(r, e).due \subseteq 1..Emitted(r, e).high
           /\ Emitted(r, e).high = Larger(r.high, e)
  <1>1. r.high \in Nat /\ e \in Nat /\ r.due \in SUBSET Epochs
    BY LanesConstantsAssumption DEF Emitters, Epochs
  <1>2. CASE e > r.high
    BY <1>1, <1>2 DEF Emitted, Larger, Emitters
  <1>3. CASE ~(e > r.high)
    BY <1>1, <1>3 DEF Emitted, Larger, Emitters
  <1> QED
    BY <1>2, <1>3

(* What taking a reliable frame in may come to.                            *)

LEMMA RefusesSafely ==
    ASSUME NEW in \in Inbounds, Sane(in), NEW e \in Epochs
    PROVE  /\ Refused(in, e).as = "Violation" /\ Refused(in, e).event = e
           /\ Refused(in, e).in \in Inbounds /\ Sane(Refused(in, e).in)
           /\ Refused(in, e).in.active = 0 /\ Refused(in, e).in.terminal
           /\ Refused(in, e).in.retired >= Larger(in.active, in.retired)
           /\ Refused(in, e).in.retired >= e
  <1> DEFINE r == RetireInbound(in, e)
             t == Terminalize(r)
  <1>1. r \in Inbounds /\ Sane(r)
    BY InboundsTyped
  <1>2. t \in Inbounds /\ Sane(t)
    BY <1>1, InboundsTyped
  <1>3. t.active = 0 /\ t.terminal /\ t.retired = Larger(r.retired, r.active)
    BY <1>1, Terminalizes
  <1>4. r.retired = Larger(in.retired, e) /\ r.active = (IF in.active <= e THEN 0 ELSE in.active)
    BY RetiresInbound
  <1>5. /\ in.active \in Nat /\ in.retired \in Nat /\ e \in Nat /\ r.retired \in Nat /\ r.active \in Nat
    BY <1>1, InboundsTyped, Largers
  <1>6. t.retired >= Larger(in.active, in.retired) /\ t.retired >= e
    BY <1>3, <1>4, <1>5 DEF Larger
  <1>7. Refused(in, e) = [in |-> t, as |-> "Violation", event |-> e]
    BY DEF Refused, Verdict
  <1> QED
    BY <1>2, <1>3, <1>6, <1>7

Starts(in, f, v) ==
    /\ v.event <= v.in.retired /\ v.in.active = f.epoch /\ v.in.last = f.seq
    /\ ~in.terminal
    /\ \/ /\ f.kind = "Enter" /\ f.epoch > in.active /\ f.epoch > in.retired
          /\ v.in.retired = IF in.active = 0 THEN in.retired ELSE in.active
       \/ /\ f.kind # "Enter" /\ in.active = f.epoch /\ f.seq = in.last + 1
          /\ v.in.retired = in.retired

Fails(in, v) ==
    /\ v.in.active = 0 /\ v.in.terminal
    /\ v.in.retired >= Larger(in.active, in.retired) /\ v.event <= v.in.retired

LEMMA Accepts ==
    ASSUME NEW in \in Inbounds, Sane(in), NEW f \in Frames, f.epoch # 0, NEW v, v = Accept(in, f)
    PROVE  /\ v.in \in Inbounds /\ Sane(v.in) /\ v.event \in Epochs
           /\ \/ v.as = "Accepted" /\ Starts(in, f, v)
              \/ v.as = "Dropped" /\ v.in = in /\ v.event = 0
              \/ v.as = "Violation" /\ Fails(in, v)
  <1> DEFINE superseded == f.epoch <= in.retired /\ in.active > f.epoch
             blamed == IF in.active # 0 THEN in.active ELSE f.epoch
             started == [in EXCEPT !.active = f.epoch, !.last = f.seq]
             fresh == [active |-> f.epoch, last |-> f.seq, retired |-> in.retired, terminal |-> in.terminal]
             next == [active |-> f.epoch, last |-> f.seq, retired |-> in.active, terminal |-> in.terminal]
             same == [active |-> in.active, last |-> f.seq, retired |-> in.retired, terminal |-> in.terminal]
  <1>0. /\ in.active \in Nat /\ in.retired \in Nat /\ f.epoch \in Nat /\ f.seq \in 0..SendMax
        /\ in.active \in Epochs /\ in.retired \in Epochs /\ f.epoch \in Epochs /\ in.terminal \in BOOLEAN
        /\ blamed \in Epochs /\ 0 \in Epochs /\ in.last \in Nat
        /\ in.active # 0 => in.active > in.retired /\ ~in.terminal
    BY LanesConstantsAssumption DEF Sane, Inbounds, Frames, Epochs
  <1>1. CASE in.terminal \/ superseded
    <2>1. Accept(in, f) = Verdict(in, "Dropped", 0)
      <3>1. ~(~in.terminal /\ f.epoch > in.retired)
        BY <1>0, <1>1
      <3> QED
        BY <1>1, <3>1 DEF Accept
    <2> QED
      BY <1>0, <2>1 DEF Verdict
  <1>2. CASE ~in.terminal /\ ~superseded /\ f.epoch <= in.retired
    <2> DEFINE t == Terminalize(in)
    <2>1. Accept(in, f) = [in |-> t, as |-> "Violation", event |-> f.epoch]
      BY <1>2, <1>0 DEF Accept, Verdict
    <2>2. t \in Inbounds /\ Sane(t)
      BY <1>0, InboundsTyped
    <2>3. t.active = 0 /\ t.terminal /\ t.retired = Larger(in.retired, in.active)
      BY Terminalizes
    <2> HIDE DEF t
    <2> QED
      BY <1>0, <1>2, <2>1, <2>2, <2>3 DEF Larger, Fails
  <1>3. CASE ~in.terminal /\ f.epoch > in.retired /\ f.kind = "Enter"
    <2>1. Accept(in, f) = IF in.active = 0 THEN Verdict(started, "Accepted", 0)
                ELSE IF f.epoch > in.active
                THEN Verdict([started EXCEPT !.retired = in.active], "Accepted", in.active)
                ELSE Refused(in, blamed)
      <3>1. ~(in.terminal \/ superseded) /\ ~(f.epoch <= in.retired)
        BY <1>0, <1>3
      <3> QED
        BY <1>3, <3>1 DEF Accept
    <2>2. started = fresh
      <3> DEFINE r == [active |-> f.epoch, last |-> in.last, retired |-> in.retired, terminal |-> in.terminal]
      <3>1. [in EXCEPT !.active = f.epoch] = r
        BY DEF Inbounds
      <3>2. started = [r EXCEPT !.last = f.seq]
        BY <3>1, ZenonT(60), SMTT(60)
      <3> QED
        BY <3>2
    <2>3. [started EXCEPT !.retired = in.active] = next
      <3>1. [started EXCEPT !.retired = in.active] = [fresh EXCEPT !.retired = in.active]
        BY <2>2, ZenonT(60), SMTT(60)
      <3> QED
        BY <3>1
    <2> HIDE DEF started
    <2>4. CASE in.active = 0
      <3>1. Accept(in, f) = [in |-> fresh, as |-> "Accepted", event |-> 0]
        BY <2>1, <2>2, <2>4 DEF Verdict
      <3> QED
        BY <1>0, <1>3, <2>4, <3>1 DEF Sane, Inbounds, Starts
    <2>5. CASE in.active # 0 /\ f.epoch > in.active
      <3>1. Accept(in, f) = [in |-> next, as |-> "Accepted", event |-> in.active]
        BY <2>1, <2>3, <2>5 DEF Verdict
      <3> QED
        BY <1>0, <1>3, <2>5, <3>1 DEF Sane, Inbounds, Starts
    <2>6. CASE in.active # 0 /\ ~(f.epoch > in.active)
      <3>1. Accept(in, f) = Refused(in, blamed)
        BY <2>1, <2>6
      <3>2. v = Refused(in, blamed)
        BY <3>1
      <3> HIDE DEF blamed
      <3> QED
        BY <1>0, <3>2, RefusesSafely DEF Fails, Larger
    <2> QED
      BY <2>4, <2>5, <2>6
  <1>4. CASE ~in.terminal /\ f.epoch > in.retired /\ f.kind # "Enter"
    <2>1. Accept(in, f) = IF in.active = f.epoch /\ f.seq = in.last + 1
                THEN Verdict([in EXCEPT !.last = f.seq], "Accepted", 0)
                ELSE Refused(in, blamed)
      <3>1. ~(in.terminal \/ superseded) /\ ~(f.epoch <= in.retired)
        BY <1>0, <1>4
      <3> QED
        BY <1>4, <3>1 DEF Accept
    <2>2. CASE in.active = f.epoch /\ f.seq = in.last + 1
      <3>1. [in EXCEPT !.last = f.seq] = same
        BY DEF Inbounds
      <3>2. Accept(in, f) = [in |-> same, as |-> "Accepted", event |-> 0]
        BY <2>1, <2>2, <3>1 DEF Verdict
      <3> QED
        BY <1>0, <1>4, <2>2, <3>2 DEF Sane, Inbounds, Starts
    <2>3. CASE ~(in.active = f.epoch /\ f.seq = in.last + 1)
      <3>1. v = Refused(in, blamed)
        BY <2>1, <2>3
      <3> HIDE DEF blamed
      <3> QED
        BY <1>0, <3>1, RefusesSafely DEF Fails, Larger
    <2> QED
      BY <2>2, <2>3
  <1> QED
    BY <1>0, <1>1, <1>2, <1>3, <1>4

\* What connection d has is left alone.
Same(d) ==
    /\ phase'[d] = phase[d] /\ lane'[d] = lane[d] /\ net'[d] = net[d]
    /\ inbound'[d] = inbound[d] /\ releases'[d] = releases[d]
    /\ queue'[d] = queue[d] /\ mailbox'[d] = mailbox[d] /\ worker'[d] = worker[d]

\* The session is another's, or still d's and at most closed.
Milder(d) ==
    \/ session'.epoch > session.epoch /\ session'.owner # d
    \/ /\ session'.epoch = session.epoch /\ session'.owner = session.owner
       /\ session.owner = d => session'.rel = session.rel /\ (session'.open => session.open)

\* What connection d has is left alone, events due apart.
Alike(d) ==
    /\ phase'[d] = phase[d] /\ lane'[d] = lane[d] /\ net'[d] = net[d]
    /\ inbound'[d] = inbound[d] /\ releases'[d].high = releases[d].high
    /\ queue'[d] = queue[d] /\ mailbox'[d] = mailbox[d] /\ worker'[d] = worker[d]

LEMMA AlikeKeeps ==
    ASSUME Types, Types', NEW d \in Conns, Local(d), Alike(d), Milder(d), Serving(d)' => Serving(d)
    PROVE  Local(d)'
  <1> USE DEF Alike
  <1>1. session \in Sessions /\ session' \in Sessions /\ session.epoch \in Nat /\ session'.epoch \in Nat
        /\ session'.epoch >= session.epoch
    BY LanesConstantsAssumption, SMTT(60), ZenonT(60) DEF Types, Sessions, Epochs, Milder
  <1>2. Kinds(d)'
    BY DEF Kinds, Local, Streams
  <1>3. HeardOf(d)'
    BY <1>1 DEF HeardOf, Local, Streams, Heard, Milder, Open
  <1>4. OwnedOnce(d)'
    BY DEF OwnedOnce, Local, Streams
  <1>5. SenderKnows(d)'
    BY DEF SenderKnows, Accounted, Local, Streams, Open
  <1>6. \A f : OnItsWay(d, f)' <=> OnItsWay(d, f)
    BY DEF OnItsWay, InHand, InQueue, InReader, Streams
  <1>7. \A e \in Nat : \A s : Reached(d, e, s) => Reached(d, e, s)'
    BY <1>1 DEF Reached, Milder
  <1>8. \A f : NotPast(d, f) => NotPast(d, f)'
    BY <1>1 DEF NotPast, Milder
  <1>9. \A e : Answered(d, e) => Answered(d, e)'
    BY <1>6 DEF Answered, Open
  <1>10. Row(d)'
    <2>0. Row(d) /\ worker[d].frame \in Frames /\ inbound[d].active \in Nat
          /\ \A f \in Frames : f.epoch \in Nat
      BY LanesConstantsAssumption, SMTT(60), ZenonT(60) DEF Types, Workers, Inbounds, Frames, Epochs, Local
    <2>1. HandFits(d)'
      BY <1>7, <1>8, <2>0 DEF HandFits, Row
    <2>2. Gapless(d) => Gapless(d)'
      BY <1>6, <1>7, <1>8, <2>0 DEF Gapless, Follows
    <2>3. InOrder(d) => InOrder(d)'
      BY DEF InOrder, InHand, InQueue, InReader, Streams
    <2>4. UpToLast(d) => UpToLast(d)'
      BY <1>6, <1>7, <2>0 DEF UpToLast
    <2> QED
      BY <2>0, <2>1, <2>2, <2>3, <2>4 DEF Row
  <1>11. AllAnswered(d)'
    <2>1. \A f \in Frames : f.epoch \in Nat
      BY LanesConstantsAssumption DEF Frames, Epochs
    <2>2. session'.open /\ session'.owner = d => session.open /\ session.owner = d /\ session'.epoch = session.epoch
      BY <1>1 DEF Milder
    <2> QED
      BY <1>1, <1>6, <1>9, <2>1, <2>2 DEF AllAnswered, Local
  <1> QED
    BY <1>2, <1>3, <1>4, <1>5, <1>10, <1>11 DEF Local

LEMMA OthersKeep ==
    ASSUME Types, Types', NEW d \in Conns, Local(d), Same(d), Milder(d), Serving(d)' => Serving(d)
    PROVE  Local(d)'
  BY AlikeKeeps DEF Same, Alike

\* m has the streams of n and perhaps new ones; the readers are where they were.
Extends(n, m) ==
    /\ DOMAIN n.streams \subseteq DOMAIN m.streams
    /\ \A i \in DOMAIN n.streams :
          m.streams[i].epoch = n.streams[i].epoch /\ m.streams[i].held = n.streams[i].held
    /\ \A i \in DOMAIN m.streams : i \notin DOMAIN n.streams =>
          m.streams[i].epoch = 0 /\ m.streams[i].held = NoFrame

LEMMA Streamings ==
    ASSUME NEW n \in Nets, NEW i \in DOMAIN n.streams, NEW s \in StreamStates, NEW m,
           m = [n EXCEPT !.streams = [n.streams EXCEPT ![i] = s]]
    PROVE  /\ m \in Nets /\ DOMAIN m.streams = DOMAIN n.streams
           /\ m.urgent = n.urgent /\ m.rushed = n.rushed /\ m.datagrams = n.datagrams
           /\ \A j \in DOMAIN n.streams : m.streams[j] = IF j = i THEN s ELSE n.streams[j]
  <1>1. n.streams \in Seq(StreamStates)
    BY DEF Nets
  <1> DEFINE t == [n.streams EXCEPT ![i] = s]
  <1>2. t \in Seq(StreamStates) /\ DOMAIN t = DOMAIN n.streams
        /\ \A j \in DOMAIN n.streams : t[j] = IF j = i THEN s ELSE n.streams[j]
    BY <1>1, Updates
  <1>3. m = [n EXCEPT !.streams = t]
    OBVIOUS
  <1> HIDE DEF t
  <1>4. m.streams = t /\ m.urgent = n.urgent /\ m.rushed = n.rushed /\ m.datagrams = n.datagrams
    BY <1>3 DEF Nets
  <1>5. m \in Nets
    BY <1>2, <1>3 DEF Nets
  <1> QED
    BY <1>2, <1>4, <1>5

LEMMA StreamsTyped ==
    ASSUME NEW n \in Nets, NEW i \in DOMAIN n.streams
    PROVE  /\ n.streams \in Seq(StreamStates) /\ DOMAIN n.streams = 1..Len(n.streams)
           /\ Len(n.streams) \in Nat /\ n.streams[i] \in StreamStates
           /\ n.streams[i].frames \in Seq(Frames) /\ n.streams[i].epoch \in Epochs
           /\ n.streams[i].held \in Frames /\ n.streams[i].cut \in BOOLEAN
           /\ n.streams[i].epoch \in Nat /\ n.streams[i].held.epoch \in Nat
           /\ n.streams[i].held.epoch \in Epochs
  <1>1. n.streams \in Seq(StreamStates)
    BY DEF Nets
  <1>2. n.streams[i] \in StreamStates /\ DOMAIN n.streams = 1..Len(n.streams) /\ Len(n.streams) \in Nat
    BY <1>1
  <1>3. /\ n.streams[i].frames \in Seq(Frames) /\ n.streams[i].epoch \in Epochs
        /\ n.streams[i].held \in Frames /\ n.streams[i].cut \in BOOLEAN
    BY <1>2 DEF StreamStates
  <1>4. n.streams[i].held.epoch \in Epochs
    BY <1>3 DEF Frames, Epochs
  <1>5. Epochs \subseteq Nat
    BY LanesConstantsAssumption DEF Epochs
  <1> QED
    BY <1>1, <1>2, <1>3, <1>4, <1>5

LEMMA Last ==
    ASSUME NEW n \in Nets, n.streams # <<>>
    PROVE  Len(n.streams) \in DOMAIN n.streams
  BY DEF Nets

LEMMA Writes ==
    ASSUME Types, NEW c \in Conns, NEW f \in Frames, NEW m, m = Written(c, f)
    PROVE  /\ m \in Nets /\ Extends(net[c], m)
           /\ m.urgent = net[c].urgent /\ m.rushed = net[c].rushed /\ m.datagrams = net[c].datagrams
           /\ \A i \in DOMAIN m.streams :
                 /\ i \in Streams(c) => m.streams[i].cut = net[c].streams[i].cut
                 /\ \A k \in DOMAIN m.streams[i].frames :
                       \/ m.streams[i].frames[k] = f /\ ~m.streams[i].cut
                       \/ /\ i \in Streams(c) /\ k \in DOMAIN net[c].streams[i].frames
                          /\ m.streams[i].frames[k] = net[c].streams[i].frames[k]
  <1> DEFINE n == net[c]
             t == Len(n.streams)
             s == n.streams[t]
             w == [s EXCEPT !.frames = Append(s.frames, f)]
             x == NewStream(f)
  <1>0. n \in Nets /\ n.streams \in Seq(StreamStates) /\ Streams(c) = DOMAIN n.streams
    BY SMTT(60), ZenonT(60) DEF Types, Nets, Streams
  <1>1. CASE HasStream(c)
    <2>1. t \in DOMAIN n.streams /\ ~s.cut
      BY <1>0, <1>1, Last DEF HasStream
    <2>2. s \in StreamStates /\ s.frames \in Seq(Frames)
      BY <1>0, <2>1, StreamsTyped
    <2>3. m = [n EXCEPT !.streams = [n.streams EXCEPT ![t] = w]]
      BY <1>1 DEF Written
    <2>4. w \in StreamStates /\ w.epoch = s.epoch /\ w.held = s.held /\ w.cut = s.cut
          /\ w.frames = Append(s.frames, f)
      BY <2>2, Appends DEF StreamStates
    <2>5. /\ m \in Nets /\ DOMAIN m.streams = DOMAIN n.streams
          /\ m.urgent = n.urgent /\ m.rushed = n.rushed /\ m.datagrams = n.datagrams
          /\ \A j \in DOMAIN n.streams : m.streams[j] = IF j = t THEN w ELSE n.streams[j]
      <3> HIDE DEF w, s, t, n
      <3> QED
        BY <1>0, <2>1, <2>3, <2>4, Streamings
    <2>6. \A k \in DOMAIN w.frames : w.frames[k] = f \/ (k \in DOMAIN s.frames /\ w.frames[k] = s.frames[k])
      <3>1. /\ DOMAIN s.frames = 1..Len(s.frames) /\ DOMAIN Append(s.frames, f) = 1..Len(s.frames) + 1
            /\ \A k \in 1..Len(s.frames) : Append(s.frames, f)[k] = s.frames[k]
            /\ Append(s.frames, f)[Len(s.frames) + 1] = f /\ Len(s.frames) \in Nat
        <4> HIDE DEF s, t, n
        <4> QED
          BY <2>2, Appends
      <3>2. w.frames = Append(s.frames, f)
        BY <2>4
      <3> HIDE DEF w, s, t, n
      <3>3. DOMAIN w.frames = 1..Len(s.frames) + 1
        BY <3>1, <3>2
      <3>4. \A k \in 1..Len(s.frames) + 1 : k \in 1..Len(s.frames) \/ k = Len(s.frames) + 1
        BY <3>1
      <3> QED
        BY <3>1, <3>2, <3>3, <3>4
    <2> HIDE DEF w
    <2> QED
      BY <1>0, <2>1, <2>4, <2>5, <2>6, ZenonT(60), SMTT(60) DEF Extends
  <1>2. CASE ~HasStream(c)
    <2>1. m = [n EXCEPT !.streams = Append(n.streams, x)]
      BY <1>2 DEF Written
    <2>2. x \in StreamStates /\ x.frames = <<f>> /\ x.epoch = 0 /\ x.held = NoFrame /\ ~x.cut
      BY FramesTyped DEF NewStream, StreamStates
    <2> HIDE DEF x
    <2>3. /\ Append(n.streams, x) \in Seq(StreamStates)
          /\ DOMAIN n.streams = 1..t /\ DOMAIN Append(n.streams, x) = 1..t + 1 /\ t \in Nat
          /\ \A i \in 1..t : Append(n.streams, x)[i] = n.streams[i]
          /\ Append(n.streams, x)[t + 1] = x
      BY <1>0, <2>2, Appends
    <2>4. m \in Nets /\ m.streams = Append(n.streams, x)
          /\ m.urgent = n.urgent /\ m.rushed = n.rushed /\ m.datagrams = n.datagrams
      BY <1>0, <2>1, <2>3 DEF Nets
    <2>5. \A k \in DOMAIN x.frames : x.frames[k] = f
      BY <2>2
    <2> QED
      BY <1>0, <2>2, <2>3, <2>4, <2>5 DEF Extends
  <1> QED
    BY <1>1, <1>2

LEMMA Outdated ==
    ASSUME NEW q \in Seq(Frames), NEW e
    PROVE  Cardinality({i \in DOMAIN q : q[i].epoch < e}) \in Nat
  <1>1. DOMAIN q = 1..Len(q) /\ Len(q) \in Int /\ 1 \in Int
    OBVIOUS
  <1>2. IsFiniteSet(DOMAIN q)
    BY <1>1, FS_Interval
  <1>3. {i \in DOMAIN q : q[i].epoch < e} \subseteq DOMAIN q
    OBVIOUS
  <1> QED
    BY <1>2, <1>3, FS_Subset, FS_CardinalityType

LEMMA Cancels ==
    ASSUME Types, NEW c \in Conns, NEW e, NEW m \in Cancelled(c, e)
    PROVE  /\ m \in Nets /\ Extends(net[c], m) /\ DOMAIN m.streams = Streams(c)
           /\ m.urgent = net[c].urgent /\ m.rushed = net[c].rushed /\ m.datagrams = net[c].datagrams
           /\ \A i \in Streams(c) : \A k \in DOMAIN m.streams[i].frames :
                 /\ k \in DOMAIN net[c].streams[i].frames
                 /\ m.streams[i].frames[k] = net[c].streams[i].frames[k]
  <1> DEFINE n == net[c]
             t == Len(n.streams)
             s == n.streams[t]
             older == Cardinality({i \in DOMAIN s.frames : s.frames[i].epoch < e})
  <1>0. n \in Nets /\ n.streams \in Seq(StreamStates) /\ Streams(c) = DOMAIN n.streams
    BY DEF Types, Nets, Streams
  <1>1. CASE ~HasStream(c)
    BY <1>0, <1>1 DEF Cancelled, Extends
  <1>2. CASE HasStream(c)
    <2>1. t \in DOMAIN n.streams
      BY <1>0, <1>2, Last DEF HasStream
    <2>2. s \in StreamStates /\ s.frames \in Seq(Frames) /\ Len(s.frames) \in Nat
      BY <1>0, <2>1, StreamsTyped, SMTT(60), ZenonT(60)
    <2>3. older \in Nat
      BY <2>2, Outdated
    <2>4. \E k \in 0..Len(s.frames), cut \in BOOLEAN :
             m = [n EXCEPT !.streams = [n.streams EXCEPT ![t] = [s EXCEPT !.frames = SubSeq(s.frames, 1, k), !.cut = cut]]]
      <3> DEFINE A == {[n EXCEPT !.streams[t].frames = SubSeq(@, 1, k)] : k \in older..Len(s.frames)}
                 B == {[n EXCEPT !.streams[t].frames = SubSeq(@, 1, k), !.streams[t].cut = TRUE]
                        : k \in 0..(Len(s.frames) - 1)}
      <3>1. m \in A \cup B
        <4>1. Cancelled(c, e) = A \cup B
          BY <1>2, ZenonT(60), SMTT(60) DEF Cancelled
        <4> HIDE DEF A, B
        <4> QED
          BY <4>1
      <3>2. CASE m \in A
        <4>1. PICK k \in older..Len(s.frames) : m = [n EXCEPT !.streams[t].frames = SubSeq(@, 1, k)]
          BY <3>2
        <4>2. k \in 0..Len(s.frames)
          BY <2>2, <2>3
        <4>3. [s EXCEPT !.frames = SubSeq(s.frames, 1, k), !.cut = s.cut] = [s EXCEPT !.frames = SubSeq(s.frames, 1, k)]
          BY <2>2 DEF StreamStates
        <4>4. m = [n EXCEPT !.streams = [n.streams EXCEPT ![t] = [s EXCEPT !.frames = SubSeq(s.frames, 1, k)]]]
          BY <4>1
        <4>5. s.cut \in BOOLEAN
          BY <2>2 DEF StreamStates
        <4> QED
          BY <4>2, <4>3, <4>4, <4>5
      <3>3. CASE m \in B
        <4>1. PICK k \in 0..(Len(s.frames) - 1) :
                 m = [n EXCEPT !.streams[t].frames = SubSeq(@, 1, k), !.streams[t].cut = TRUE]
          BY <3>3
        <4>2. k \in 0..Len(s.frames)
          BY <2>2
        <4>3. m = [n EXCEPT !.streams = [n.streams EXCEPT ![t] = [s EXCEPT !.frames = SubSeq(s.frames, 1, k), !.cut = TRUE]]]
          BY <4>1, <2>1, <1>0 DEF Nets
        <4> QED
          BY <4>2, <4>3, ZenonT(60), SMTT(60)
      <3> HIDE DEF A, B, n, s, t, older
      <3> QED
        BY <3>1, <3>2, <3>3
    <2>5. PICK k \in 0..Len(s.frames), cut \in BOOLEAN :
             m = [n EXCEPT !.streams = [n.streams EXCEPT ![t] = [s EXCEPT !.frames = SubSeq(s.frames, 1, k), !.cut = cut]]]
      BY <2>4
    <2> DEFINE q == SubSeq(s.frames, 1, k)
               w == [s EXCEPT !.frames = q, !.cut = cut]
    <2>6. q \in Seq(Frames) /\ DOMAIN q = 1..k /\ DOMAIN s.frames = 1..Len(s.frames)
          /\ \A i \in 1..k : q[i] = s.frames[i]
      BY <2>2, Cuts
    <2> HIDE DEF q
    <2>7. w \in StreamStates /\ w.epoch = s.epoch /\ w.held = s.held /\ w.frames = q
      BY <2>2, <2>6 DEF StreamStates
    <2>8. /\ m \in Nets /\ DOMAIN m.streams = DOMAIN n.streams
          /\ m.urgent = n.urgent /\ m.rushed = n.rushed /\ m.datagrams = n.datagrams
          /\ \A j \in DOMAIN n.streams : m.streams[j] = IF j = t THEN w ELSE n.streams[j]
      <3>1. m = [n EXCEPT !.streams = [n.streams EXCEPT ![t] = w]]
        BY <2>5 DEF q
      <3> HIDE DEF w, s, t, n
      <3> QED
        BY <1>0, <2>1, <2>7, <3>1, Streamings
    <2>9. \A i \in DOMAIN q : i \in DOMAIN s.frames /\ q[i] = s.frames[i]
      BY <2>2, <2>6
    <2> HIDE DEF w
    <2> QED
      BY <1>0, <2>1, <2>7, <2>8, <2>9 DEF Extends
  <1> QED
    BY <1>1, <1>2

\* The receiving half of c and the worker are left alone.
Receiver(c) == <<peer, current, session, phase[c], inbound[c], releases[c], queue[c], mailbox[c], worker[c]>>

LEMMA SendingKeeps ==
    ASSUME Types, Types', NEW c \in Conns, Local(c), UNCHANGED Receiver(c),
           Extends(net[c], net'[c]), net'[c].rushed = net[c].rushed,
           net[c].urgent \subseteq net'[c].urgent, 0 \notin net'[c].urgent \cup net'[c].datagrams,
           \A i \in DOMAIN net'[c].streams : \A k \in DOMAIN net'[c].streams[i].frames :
               WellWritten(net'[c].streams[i].frames[k]),
           SenderKnows(c)'
    PROVE  Local(c)'
  <1> USE DEF Receiver
  <1>0. /\ session \in Sessions /\ session.epoch \in Nat /\ \A f \in Frames : f.epoch \in Nat
        /\ inbound[c].active \in Nat /\ inbound[c].retired \in Nat /\ net[c] \in Nets /\ net'[c] \in Nets
        /\ Heard(c) \in Nat
    BY LanesConstantsAssumption, SMTT(60), ZenonT(60) DEF Types, Sessions, Epochs, Frames, Inbounds,
       Heard, Larger
  <1>1. \A i \in Streams(c)' : \/ /\ i \in Streams(c) /\ net'[c].streams[i].epoch = net[c].streams[i].epoch
                                  /\ net'[c].streams[i].held = net[c].streams[i].held
                               \/ net'[c].streams[i].epoch = 0 /\ net'[c].streams[i].held = NoFrame
    BY DEF Extends, Streams
  <1>2. Kinds(c)'
    BY <1>1 DEF Kinds, Local, Streams
  <1>3. HeardOf(c)'
    BY <1>0, <1>1, FramesTyped DEF HeardOf, Local, Heard, Open
  <1>4. OwnedOnce(c)'
    <2> SUFFICES ASSUME NEW i \in Streams(c)', NEW j \in Streams(c)', NEW e \in 1..EpochMax,
                        Owns(net'[c].streams[i], e), Owns(net'[c].streams[j], e)
                 PROVE  i = j
      BY DEF OwnedOnce
    <2>1. e # 0
      OBVIOUS
    <2> QED
      BY <1>1, <2>1, FramesTyped, SMTT(60), ZenonT(60) DEF OwnedOnce, Local, Owns
  <1>5. \A f \in Frames : f.epoch # 0 => (OnItsWay(c, f)' <=> OnItsWay(c, f))
    <2> SUFFICES ASSUME NEW f \in Frames, f.epoch # 0
                 PROVE  InReader(c, f)' <=> InReader(c, f)
      BY DEF OnItsWay, InHand, InQueue
    <2> QED
      BY <1>1, FramesTyped DEF InReader, Streams, Extends
  <1>6. \A f \in Frames : Input(f) => (OnItsWay(c, f)' <=> OnItsWay(c, f))
    BY <1>1, FramesTyped DEF InReader, Streams, Extends, OnItsWay, InHand, InQueue
  <1>7. \A f \in Frames : Input(f) => (InReader(c, f)' <=> InReader(c, f))
    BY <1>1, FramesTyped DEF InReader, Streams, Extends
  <1>8. Row(c)'
    <2>0. Row(c) /\ (Serving(c)' <=> Serving(c))
      BY DEF Local, Serving, IsCurrent
    <2>1. HandFits(c)'
      BY <2>0 DEF Row, HandFits, Reached, NotPast
    <2>2. Gapless(c) => Gapless(c)'
      BY <1>6 DEF Gapless, Follows, Reached, NotPast
    <2>3. InOrder(c) => InOrder(c)'
      BY <1>7 DEF InOrder, InHand, InQueue
    <2>4. UpToLast(c) => UpToLast(c)'
      BY <1>6 DEF UpToLast, Reached
    <2> QED
      BY <2>0, <2>1, <2>2, <2>3, <2>4 DEF Row
  <1>9. \A e \in Nat : Answered(c, e) => Answered(c, e)'
    <2> SUFFICES ASSUME NEW e \in Nat, NEW f \in Frames, OnItsWay(c, f), Ends(f, e)
                 PROVE  \E g \in Frames : OnItsWay(c, g)' /\ Ends(g, e)
      BY DEF Answered, Open
    <2>1. CASE f.epoch # 0
      BY <1>5, <2>1
    <2>2. CASE InHand(c, f) \/ InQueue(c, f)
      BY <2>2 DEF InHand, InQueue, OnItsWay
    <2>3. CASE InReader(c, f)
      <3>1. PICK i \in Streams(c) : net[c].streams[i].held = f
        BY <2>3 DEF InReader
      <3>2. i \in Streams(c)' /\ net'[c].streams[i].held = f
        BY <3>1 DEF Extends, Streams
      <3> QED
        BY <3>2 DEF InReader, OnItsWay
    <2> QED
      BY <2>2, <2>3 DEF OnItsWay
  <1>10. AllAnswered(c)'
    <2>1. Serving(c)' <=> Serving(c)
      BY DEF Serving, IsCurrent
    <2>2. \A f \in Frames : f.epoch > session.epoch => f.epoch # 0 /\ f.epoch \in Nat
      BY <1>0
    <2> QED
      BY <1>0, <1>5, <1>9, <2>1, <2>2 DEF AllAnswered, Local
  <1> QED
    BY <1>2, <1>3, <1>4, <1>8, <1>10 DEF Local

\* What a connection's half keeps of the epoch e it gives up, or f it writes.
GivenUp(l, e, runs) == [Retire(l, e) EXCEPT !.open = runs]

LEMMA Retires ==
    ASSUME NEW l \in LaneStates(Epochs), NEW e \in Epochs, NEW runs \in BOOLEAN
    PROVE  /\ GivenUp(l, e, runs) \in LaneStates(Epochs)
           /\ GivenUp(l, e, runs).retired = Larger(l.retired, e)
           /\ GivenUp(l, e, runs).active = IF l.active = e THEN 0 ELSE l.active
  <1> DEFINE r == Retire(l, e)
             m == GivenUp(l, e, runs)
  <1>0. 0 \in Epochs /\ l.retired \in Nat /\ e \in Nat
    BY LanesConstantsAssumption DEF Epochs, LaneStates
  <1>1. r.retired = IF e > l.retired THEN e ELSE l.retired
    BY DEF Retire, LaneStates
  <1>2. r.active = IF l.active = e THEN 0 ELSE l.active
    BY DEF Retire, LaneStates
  <1>3. r \in LaneStates(Epochs)
    BY <1>0 DEF Retire, LaneStates
  <1>4. m.retired = r.retired /\ m.active = r.active /\ m \in LaneStates(Epochs)
    <2> HIDE DEF r
    <2>1. m = [r EXCEPT !.open = runs]
      BY DEF r, GivenUp
    <2> QED
      BY <1>3, <2>1 DEF LaneStates
  <1> QED
    BY <1>0, <1>1, <1>2, <1>4 DEF Larger

\* What a sending step does to the connection c, and that it is c's alone.
SentWell(c) ==
    /\ lane' \in [Conns -> LaneStates(Epochs)] /\ net' \in [Conns -> Nets]
    /\ \A d \in Conns : d # c => lane'[d] = lane[d] /\ net'[d] = net[d]
    /\ Extends(net[c], net'[c]) /\ net'[c].rushed = net[c].rushed
    /\ net[c].urgent \subseteq net'[c].urgent /\ 0 \notin net'[c].urgent \cup net'[c].datagrams
    /\ \A i \in DOMAIN net'[c].streams : \A k \in DOMAIN net'[c].streams[i].frames :
           WellWritten(net'[c].streams[i].frames[k])
    /\ SenderKnows(c)'

LEMMA GivesUpWell ==
    ASSUME Types, NEW c \in Conns, Local(c), Open(c), UNCHANGED <<phase, inbound>>,
           NEW e \in Epochs, e # 0, e > lane[c].retired, lane[c].active \in {0, e},
           NEW runs \in BOOLEAN, GivesUp(c, e, runs)
    PROVE  SentWell(c)
  <1> DEFINE l == lane[c]
             o == GivenUp(l, e, runs)
  <1>0. /\ l \in LaneStates(Epochs) /\ l.retired \in Nat /\ l.active \in Nat /\ e \in Nat
        /\ net[c] \in Nets /\ inbound[c].retired \in Nat /\ inbound[c].active \in Nat
        /\ l.active \in Epochs /\ l.retired \in Epochs
    BY LanesConstantsAssumption, SMTT(60), ZenonT(60) DEF Types, LaneStates, Epochs, Inbounds
  <1>1. lane' = [lane EXCEPT ![c] = o]
    BY DEF GivesUp, GivenUp
  <1>2. o \in LaneStates(Epochs) /\ o.retired = e /\ o.active = 0
    <2>1. /\ o \in LaneStates(Epochs) /\ o.retired = Larger(l.retired, e)
          /\ o.active = IF l.active = e THEN 0 ELSE l.active
      BY <1>0, Retires
    <2> HIDE DEF o
    <2> QED
      BY <1>0, <2>1 DEF Larger
  <1>3. PICK m \in Cancelled(c, e) : net' = [net EXCEPT ![c] = [m EXCEPT !.urgent = @ \cup {e}]]
    BY DEF GivesUp, Hurried
  <1>4. /\ m \in Nets /\ Extends(net[c], m) /\ DOMAIN m.streams = Streams(c)
        /\ m.urgent = net[c].urgent /\ m.rushed = net[c].rushed /\ m.datagrams = net[c].datagrams
        /\ \A i \in Streams(c) : \A k \in DOMAIN m.streams[i].frames :
              /\ k \in DOMAIN net[c].streams[i].frames
              /\ m.streams[i].frames[k] = net[c].streams[i].frames[k]
    BY Cancels
  <1> DEFINE w == [m EXCEPT !.urgent = m.urgent \cup {e}]
  <1>5. /\ w \in Nets /\ w.streams = m.streams /\ w.rushed = m.rushed /\ w.datagrams = m.datagrams
        /\ w.urgent = m.urgent \cup {e}
    BY <1>4 DEF Nets
  <1>6. net' = [net EXCEPT ![c] = w]
    BY <1>3
  <1> HIDE DEF o, w
  <1>7. /\ lane' \in [Conns -> LaneStates(Epochs)] /\ net' \in [Conns -> Nets]
        /\ \A d \in Conns : d # c => lane'[d] = lane[d] /\ net'[d] = net[d]
        /\ lane'[c] = o /\ net'[c] = w
    BY <1>1, <1>2, <1>5, <1>6 DEF Types
  <1>8. Extends(net[c], w)
    BY <1>4, <1>5 DEF Extends
  <1>9. \A i \in DOMAIN w.streams : \A k \in DOMAIN w.streams[i].frames : WellWritten(w.streams[i].frames[k])
    BY <1>4, <1>5 DEF Local, Kinds
  <1>10. w.rushed = net[c].rushed /\ net[c].urgent \subseteq w.urgent /\ 0 \notin w.urgent \cup w.datagrams
    BY <1>4, <1>5, SMTT(60), ZenonT(60) DEF Local, Kinds
  <1>11. SenderKnows(c)'
    <2>0. SenderKnows(c) /\ SentThrough(l) \in Nat /\ SentThrough(l) <= e /\ l.retired <= e
          /\ SentThrough(o) = e
      BY <1>0, <1>2 DEF Local, SentThrough, Larger
    <2>1. inbound[c].active # 0 => inbound[c].active \in w.urgent
      BY <1>4, <1>5, <2>0 DEF SenderKnows
    <2>2. ASSUME NEW i \in Streams(c)
          PROVE  Accounted(c, net[c].streams[i], l)' = Accounted(c, net[c].streams[i], l)'
      OBVIOUS
    <2>3. ASSUME NEW i \in DOMAIN w.streams
          PROVE  /\ w.streams[i].epoch <= e /\ w.streams[i].held.epoch <= e
                 /\ \A k \in DOMAIN w.streams[i].frames :
                       /\ w.streams[i].frames[k].epoch <= e
                       /\ \/ w.streams[i].frames[k].epoch \in w.urgent
                          \/ w.streams[i].frames[k].epoch <= inbound[c].retired
      <3>1. i \in Streams(c) /\ w.streams[i] = m.streams[i]
        BY <1>4, <1>5
      <3>2. Accounted(c, net[c].streams[i], l)
        BY <2>0, <3>1 DEF SenderKnows
      <3>3. w.streams[i].epoch = net[c].streams[i].epoch /\ w.streams[i].held = net[c].streams[i].held
        BY <1>4, <3>1 DEF Extends, Streams
      <3>4. net[c].streams[i].epoch \in Nat /\ net[c].streams[i].held.epoch \in Nat
            /\ net[c].streams[i].frames \in Seq(Frames)
        BY <1>0, <3>1, StreamsTyped, SMTT(60), ZenonT(60) DEF Streams
      <3>5. w.streams[i].epoch <= e /\ w.streams[i].held.epoch <= e
        BY <1>0, <2>0, <3>2, <3>3, <3>4, SMTT(60), ZenonT(60) DEF Accounted
      <3>6. ASSUME NEW k \in DOMAIN w.streams[i].frames
            PROVE  /\ w.streams[i].frames[k].epoch <= e
                   /\ \/ w.streams[i].frames[k].epoch \in w.urgent
                      \/ w.streams[i].frames[k].epoch <= inbound[c].retired
        <4> DEFINE f == net[c].streams[i].frames[k]
        <4>1. k \in DOMAIN net[c].streams[i].frames /\ w.streams[i].frames[k] = f
          BY <1>4, <3>1, <3>6
        <4>2. f \in Frames
          BY <3>4, <4>1
        <4>3. f.epoch \in Nat /\ f.epoch # 0
          <5>1. f.epoch \in Nat
            BY <4>2, FrameEpochs
          <5>2. WellWritten(f)
            BY <3>1, <4>1 DEF Local, Kinds
          <5> HIDE DEF f
          <5> QED
            BY <5>1, <5>2 DEF WellWritten
        <4>4. /\ f.epoch <= IF net[c].streams[i].cut THEN l.retired ELSE SentThrough(l)
              /\ f.epoch = l.active \/ f.epoch \in net[c].urgent \/ f.epoch <= inbound[c].retired
          BY <3>2, <4>1 DEF Accounted
        <4>5. f.epoch <= e
          BY <1>0, <2>0, <4>3, <4>4
        <4> HIDE DEF f
        <4> QED
          BY <1>4, <1>5, <4>1, <4>3, <4>4, <4>5
      <3> QED
        BY <3>5, <3>6
    <2> QED
      BY <1>0, <1>2, <1>7, <2>0, <2>1, <2>3 DEF SenderKnows, Accounted, Streams, SentThrough, Open
  <1> QED
    BY <1>7, <1>8, <1>9, <1>10, <1>11 DEF SentWell

LEMMA WritesWell ==
    ASSUME Types, NEW c \in Conns, Local(c), Open(c), UNCHANGED <<phase, inbound>>,
           NEW f \in Frames, WellWritten(f), Admits(lane[c], f),
           lane' = [lane EXCEPT ![c].active = f.epoch], net' = [net EXCEPT ![c] = Written(c, f)]
    PROVE  SentWell(c)
  <1> DEFINE l == lane[c]
             o == [l EXCEPT !.active = f.epoch]
             w == Written(c, f)
  <1>0. /\ l \in LaneStates(Epochs) /\ l.retired \in Nat /\ l.active \in Nat /\ f.epoch \in Nat
        /\ net[c] \in Nets /\ inbound[c].retired \in Nat /\ inbound[c].active \in Nat
        /\ f.epoch # 0 /\ f.epoch \in Epochs
    BY LanesConstantsAssumption, SMTT(60), ZenonT(60) DEF Types, LaneStates, Epochs, Inbounds, Frames,
       WellWritten
  <1>1. f.epoch > l.retired /\ l.active \in {0, f.epoch}
    BY <1>0 DEF Local, SenderKnows, Admits
  <1>2. o \in LaneStates(Epochs) /\ o.retired = l.retired /\ o.active = f.epoch
    BY <1>0 DEF LaneStates
  <1>4. /\ w \in Nets /\ Extends(net[c], w)
        /\ w.urgent = net[c].urgent /\ w.rushed = net[c].rushed /\ w.datagrams = net[c].datagrams
        /\ \A i \in DOMAIN w.streams :
              /\ i \in Streams(c) => w.streams[i].cut = net[c].streams[i].cut
              /\ \A k \in DOMAIN w.streams[i].frames :
                    \/ w.streams[i].frames[k] = f /\ ~w.streams[i].cut
                    \/ /\ i \in Streams(c) /\ k \in DOMAIN net[c].streams[i].frames
                       /\ w.streams[i].frames[k] = net[c].streams[i].frames[k]
    BY Writes
  <1> HIDE DEF o, w
  <1>7. /\ lane' \in [Conns -> LaneStates(Epochs)] /\ net' \in [Conns -> Nets]
        /\ \A d \in Conns : d # c => lane'[d] = lane[d] /\ net'[d] = net[d]
        /\ lane'[c] = o /\ net'[c] = w
    <2>1. lane' = [lane EXCEPT ![c] = o]
      BY DEF o
    <2>2. net' = [net EXCEPT ![c] = w]
      BY DEF w
    <2>3. lane \in [Conns -> LaneStates(Epochs)] /\ net \in [Conns -> Nets]
      BY DEF Types
    <2>4. lane' \in [Conns -> LaneStates(Epochs)] /\ lane'[c] = o
          /\ \A d \in Conns : d # c => lane'[d] = lane[d]
      BY <1>2, <2>1, <2>3
    <2>5. net' \in [Conns -> Nets] /\ net'[c] = w /\ \A d \in Conns : d # c => net'[d] = net[d]
      BY <1>4, <2>2, <2>3
    <2> QED
      BY <2>4, <2>5
  <1>9. \A i \in DOMAIN w.streams : \A k \in DOMAIN w.streams[i].frames : WellWritten(w.streams[i].frames[k])
    BY <1>4 DEF Local, Kinds
  <1>10. w.rushed = net[c].rushed /\ net[c].urgent \subseteq w.urgent /\ 0 \notin w.urgent \cup w.datagrams
    BY <1>4 DEF Local, Kinds
  <1>11. SenderKnows(c)'
    <2>0. SenderKnows(c) /\ SentThrough(l) \in Nat /\ SentThrough(l) <= f.epoch
          /\ SentThrough(o) = f.epoch /\ o.active > o.retired
      BY <1>0, <1>1, <1>2 DEF Local, SentThrough, Larger
    <2>1. inbound[c].active # 0 => inbound[c].active = o.active \/ inbound[c].active \in w.urgent
      BY <1>0, <1>1, <1>2, <1>4, <2>0 DEF SenderKnows
    <2>3. ASSUME NEW i \in DOMAIN w.streams, NEW through,
                 through = IF w.streams[i].cut THEN o.retired ELSE f.epoch
          PROVE  /\ w.streams[i].epoch <= through /\ w.streams[i].held.epoch <= through
                 /\ \A k \in DOMAIN w.streams[i].frames :
                       /\ w.streams[i].frames[k].epoch <= through
                       /\ \/ w.streams[i].frames[k].epoch = o.active
                          \/ w.streams[i].frames[k].epoch \in w.urgent
                          \/ w.streams[i].frames[k].epoch <= inbound[c].retired
      <3> DEFINE before == IF net[c].streams[i].cut THEN l.retired ELSE SentThrough(l)
      <3>0. through \in Nat
        BY <1>0, <1>2, <2>3
      <3>1. CASE i \in Streams(c)
        <4>1. Accounted(c, net[c].streams[i], l)
          BY <2>0, <3>1 DEF SenderKnows
        <4>2. w.streams[i].epoch = net[c].streams[i].epoch /\ w.streams[i].held = net[c].streams[i].held
              /\ w.streams[i].cut = net[c].streams[i].cut
          BY <1>4, <3>1 DEF Extends, Streams
        <4>3. net[c].streams[i].epoch \in Nat /\ net[c].streams[i].held.epoch \in Nat
              /\ net[c].streams[i].frames \in Seq(Frames) /\ net[c].streams[i].cut \in BOOLEAN
          BY <1>0, <3>1, StreamsTyped DEF Streams
        <4>4. before \in Nat /\ before <= through
          BY <1>0, <1>2, <2>0, <2>3, <4>2, <4>3, SMTT(60), ZenonT(60)
        <4>5. net[c].streams[i].epoch <= before /\ net[c].streams[i].held.epoch <= before
          BY <4>1 DEF Accounted
        <4>6. w.streams[i].epoch <= through /\ w.streams[i].held.epoch <= through
          BY <3>0, <4>2, <4>3, <4>4, <4>5, SMTT(60), ZenonT(60)
        <4>7. ASSUME NEW k \in DOMAIN w.streams[i].frames
              PROVE  /\ w.streams[i].frames[k].epoch <= through
                     /\ \/ w.streams[i].frames[k].epoch = o.active
                        \/ w.streams[i].frames[k].epoch \in w.urgent
                        \/ w.streams[i].frames[k].epoch <= inbound[c].retired
          <5>1. CASE w.streams[i].frames[k] = f /\ ~w.streams[i].cut
            BY <1>0, <1>2, <2>3, <5>1
          <5>2. CASE /\ k \in DOMAIN net[c].streams[i].frames
                     /\ w.streams[i].frames[k] = net[c].streams[i].frames[k]
            <6> DEFINE g == net[c].streams[i].frames[k]
            <6>1. g \in Frames /\ g.epoch # 0
              BY <3>1, <4>3, <5>2 DEF Local, Kinds, WellWritten
            <6>2. g.epoch \in Nat
              BY <6>1, FrameEpochs
            <6>3. g.epoch <= before
              BY <4>1, <5>2, SMTT(60), ZenonT(60) DEF Accounted
            <6>4. g.epoch = l.active \/ g.epoch \in net[c].urgent \/ g.epoch <= inbound[c].retired
              BY <4>1, <5>2 DEF Accounted
            <6> HIDE DEF g, before
            <6>5. g.epoch <= through
              BY <3>0, <4>4, <6>2, <6>3
            <6> QED
              BY <1>1, <1>2, <1>4, <5>2, <6>1, <6>4, <6>5, SMTT(60), ZenonT(60) DEF g
          <5> QED
            BY <1>4, <4>7, <5>1, <5>2
        <4> QED
          BY <4>6, <4>7
      <3>2. CASE i \notin Streams(c)
        <4>1. w.streams[i].epoch = 0 /\ w.streams[i].held = NoFrame
          BY <1>4, <3>2 DEF Extends, Streams
        <4>2. \A k \in DOMAIN w.streams[i].frames : w.streams[i].frames[k] = f /\ ~w.streams[i].cut
          BY <1>4, <3>2
        <4>3. w.streams[i].epoch <= through /\ w.streams[i].held.epoch <= through
          <5>1. 0 <= through
            BY <3>0
          <5> QED
            BY <4>1, <5>1, FramesTyped
        <4>4. \A k \in DOMAIN w.streams[i].frames :
                 w.streams[i].frames[k].epoch <= through /\ w.streams[i].frames[k].epoch = o.active
          BY <1>0, <1>2, <2>3, <4>2, SMTT(60), ZenonT(60)
        <4> QED
          BY <4>3, <4>4
      <3> QED
        BY <3>1, <3>2
    <2>4. ASSUME NEW i \in DOMAIN w.streams
          PROVE  Accounted(c, net[c].streams[i], lane[c])'
      <3>1. lane'[c] = o /\ net'[c] = w /\ inbound'[c] = inbound[c] /\ SentThrough(o) = f.epoch
        BY <1>7, <2>0
      <3> DEFINE through == IF w.streams[i].cut THEN o.retired ELSE f.epoch
      <3>2. /\ w.streams[i].epoch <= through /\ w.streams[i].held.epoch <= through
            /\ \A k \in DOMAIN w.streams[i].frames :
                  /\ w.streams[i].frames[k].epoch <= through
                  /\ \/ w.streams[i].frames[k].epoch = o.active
                     \/ w.streams[i].frames[k].epoch \in w.urgent
                     \/ w.streams[i].frames[k].epoch <= inbound[c].retired
        BY <2>3
      <3> QED
        BY <3>1, <3>2, <1>2 DEF Accounted, SentThrough
    <2> QED
      BY <1>7, <2>0, <2>1, <2>4 DEF SenderKnows, Streams, Open
  <1> QED
    BY <1>4, <1>7, <1>9, <1>10, <1>11 DEF SentWell

\* A step of c that leaves the workers and the session alone.
NetStep(c) ==
    /\ UNCHANGED <<peer, current, session, worker>> /\ peer[c] # None
    /\ \A d \in Conns : d # c => Same(d)
    /\ Open(c)' => Open(c)
    /\ phase[c] = "ended" => phase'[c] = "ended"

LEMMA NetStepKeeps ==
    ASSUME IInv, Types', NEW c \in Conns, NetStep(c), Local(c)'
    PROVE  IInv'
  <1>1. LinkInv'
    <2>1. \A d \in Conns : peer'[d] = None => Unmade(d)'
      BY DEF IInv, LinkInv, NetStep, Same, Unmade
    <2>2. \A d \in Conns : Open(d)' => Open(d)
      BY DEF NetStep, Same, Open
    <2>3. \A d \in Conns : phase[d] = "ended" => phase'[d] = "ended"
      BY DEF NetStep, Same
    <2>4. LinkInv
      BY DEF IInv
    <2> QED
      BY <2>1, <2>2, <2>3, <2>4 DEF LinkInv, NetStep, IsCurrent
  <1>2. SessionInv'
    BY DEF IInv, SessionInv, NetStep
  <1>3. ASSUME NEW d \in Conns, d # c PROVE Local(d)'
    <2>1. Same(d) /\ Milder(d) /\ (Serving(d)' => Serving(d))
      BY <1>3 DEF NetStep, Milder, Serving, IsCurrent
    <2> QED
      BY <2>1, OthersKeep DEF IInv
  <1> QED
    BY <1>1, <1>2, <1>3 DEF IInv

LEMMA Made ==
    ASSUME IInv, NEW c \in Conns,
           \/ phase[c] # "none" \/ worker[c].pc # "off" \/ net[c].rushed # {} \/ releases[c].due # {}
           \/ queue[c] # <<>> \/ lane[c].active # 0 \/ \E i \in Streams(c) : TRUE
    PROVE  peer[c] # None /\ peer[c] \in Peers
  <1>1. peer[c] \in Peers \cup {None}
    BY DEF IInv, Types
  <1>2. ~Unmade(c)
    BY DEF Unmade, FreshWorker, FreshLane, Streams
  <1> QED
    BY <1>1, <1>2 DEF IInv, LinkInv

\* What a sending step keeps besides what SentWell says.
SendingStep(c) ==
    /\ UNCHANGED <<peer, recvVars, laneVars, mainVars, session>>
    /\ sends' \in 0..SendMax /\ sent' \in [Conns -> 0..SendMax] /\ \A d \in Conns : sent'[d] <= sends'
    /\ entered' \in [Peers -> Epochs]

LEMMA SendingStepKeeps ==
    ASSUME IInv, NEW c \in Conns, Open(c), SendingStep(c), SentWell(c)
    PROVE  IInv'
  <1> USE DEF recvVars, laneVars, mainVars
  <1>1. Types'
    BY DEF IInv, Types, SendingStep, SentWell
  <1>2. peer[c] # None
    BY Made DEF Open
  <1>3. NetStep(c)
    BY <1>2 DEF NetStep, SendingStep, SentWell, Same, Open
  <1>4. Local(c)'
    BY <1>1, SendingKeeps DEF IInv, SendingStep, SentWell, Receiver
  <1> QED
    BY <1>1, <1>3, <1>4, NetStepKeeps

LEMMA SendReliableWell ==
    ASSUME IInv, NEW c \in Conns, NEW f \in Frames, WellWritten(f), SendReliable(c, f)
    PROVE  SentWell(c) /\ Open(c)
  <1>0. Types /\ Local(c) /\ Open(c) /\ Admits(lane[c], f) /\ lane[c] \in LaneStates(Epochs)
    BY DEF IInv, SendReliable, Types
  <1>1. UNCHANGED <<phase, inbound>>
    BY DEF SendReliable, recvVars
  <1>2. /\ f.epoch \in Epochs /\ f.epoch # 0 /\ lane[c].active \in Nat /\ lane[c].retired \in Nat
        /\ f.epoch \in Nat /\ lane[c].open \in BOOLEAN
    BY <1>0, LanesConstantsAssumption DEF WellWritten, Frames, Epochs, LaneStates
  <1>3. f.epoch > lane[c].retired /\ lane[c].active \in {0, f.epoch}
    BY <1>0, <1>2 DEF Local, SenderKnows, Admits
  <1>4. CASE lane' = [lane EXCEPT ![c].active = f.epoch] /\ net' = [net EXCEPT ![c] = Written(c, f)]
    BY <1>0, <1>1, <1>4, WritesWell
  <1>5. CASE GivesUp(c, f.epoch, FALSE)
    BY <1>0, <1>1, <1>2, <1>3, <1>5, GivesUpWell
  <1>6. CASE GivesUp(c, f.epoch, lane[c].open)
    BY <1>0, <1>1, <1>2, <1>3, <1>6, GivesUpWell
  <1> QED
    BY <1>0, <1>4, <1>5, <1>6 DEF SendReliable

LEMMA SendEnterKeeps ==
    ASSUME IInv, NEW c \in Conns, SendEnter(c)
    PROVE  IInv'
  <1> DEFINE f == Frame("Enter", entered[peer[c]] + 1, 0)
  <1>1. peer[c] \in Peers /\ entered[peer[c]] \in Epochs /\ entered[peer[c]] < EpochMax
    BY DEF SendEnter, IInv, Types
  <1>2. entered[peer[c]] + 1 \in Epochs /\ entered[peer[c]] + 1 # 0 /\ 0 \in 0..SendMax
    BY <1>1, LanesConstantsAssumption DEF Epochs
  <1>3. f \in Frames /\ WellWritten(f)
    BY <1>2, FramesTyped DEF WellWritten, Input, Frame
  <1>4. SentWell(c) /\ Open(c)
    BY <1>3, SendReliableWell DEF SendEnter
  <1>5. SendingStep(c)
    <2>1. UNCHANGED <<peer, recvVars, laneVars, mainVars, session>>
      BY DEF SendEnter, SendReliable
    <2>2. entered' \in [Peers -> Epochs]
      BY <1>1, <1>2 DEF SendEnter, IInv, Types
    <2>3. /\ sends < SendMax /\ sends' = sends + 1 /\ sent' = [sent EXCEPT ![c] = 0]
          /\ sends \in 0..SendMax /\ sent \in [Conns -> 0..SendMax] /\ \A d \in Conns : sent[d] <= sends
      BY DEF SendEnter, Counted, IInv, Types
    <2>4. /\ sends' \in 0..SendMax /\ sent' \in [Conns -> 0..SendMax] /\ \A d \in Conns : sent'[d] <= sends'
      BY <2>3, LanesConstantsAssumption
    <2> QED
      BY <2>1, <2>2, <2>4 DEF SendingStep
  <1> QED
    BY <1>4, <1>5, SendingStepKeeps

LEMMA SendKeyKeeps ==
    ASSUME IInv, NEW c \in Conns, SendKey(c)
    PROVE  IInv'
  <1> DEFINE f == Frame("Key", lane[c].active, sent[c] + 1)
  <1>1. /\ sends < SendMax /\ sends' = sends + 1 /\ sent' = [sent EXCEPT ![c] = sent[c] + 1]
        /\ sends \in 0..SendMax /\ sent \in [Conns -> 0..SendMax] /\ \A d \in Conns : sent[d] <= sends
    BY DEF SendKey, Counted, IInv, Types
  <1>2. sent[c] + 1 \in 0..SendMax /\ sent[c] + 1 <= sends'
    BY <1>1, LanesConstantsAssumption
  <1>3. lane[c].active \in Epochs /\ lane[c].active # 0
    BY DEF SendKey, IInv, Types, LaneStates
  <1>4. f \in Frames /\ WellWritten(f)
    BY <1>2, <1>3, FramesTyped DEF WellWritten, Input, Frame
  <1>5. SentWell(c) /\ Open(c)
    BY <1>4, SendReliableWell DEF SendKey
  <1>6. SendingStep(c)
    <2>1. UNCHANGED <<peer, recvVars, laneVars, mainVars, session, entered>>
      BY DEF SendKey, SendReliable
    <2>2. /\ sends' \in 0..SendMax /\ sent' \in [Conns -> 0..SendMax] /\ \A d \in Conns : sent'[d] <= sends'
      BY <1>1, <1>2, LanesConstantsAssumption
    <2> QED
      BY <2>1, <2>2 DEF SendingStep, IInv, Types
  <1> QED
    BY <1>5, <1>6, SendingStepKeeps

LEMMA SendReleaseKeeps ==
    ASSUME IInv, NEW c \in Conns, SendRelease(c)
    PROVE  IInv'
  <1>0. Types /\ Local(c) /\ Open(c) /\ lane[c] \in LaneStates(Epochs) /\ lane[c].active # 0
        /\ GivesUp(c, lane[c].active, lane[c].open)
    BY DEF IInv, SendRelease, Types
  <1>1. UNCHANGED <<phase, inbound>>
    BY DEF SendRelease, recvVars
  <1>2. lane[c].active \in Epochs /\ lane[c].active > lane[c].retired /\ lane[c].open \in BOOLEAN
    BY <1>0 DEF LaneStates, Local, SenderKnows
  <1>3. SentWell(c)
    BY <1>0, <1>1, <1>2, GivesUpWell
  <1>4. SendingStep(c)
    BY DEF SendRelease, SendingStep, IInv, Types
  <1> QED
    BY <1>0, <1>3, <1>4, SendingStepKeeps

LEMMA SendMotionKeeps ==
    ASSUME IInv, NEW c \in Conns, SendMotion(c)
    PROVE  IInv'
  <1> DEFINE n == net[c]
             m == [n EXCEPT !.datagrams = n.datagrams \cup {lane[c].active}]
  <1>1. /\ Open(c) /\ lane[c].active # 0 /\ lane[c].active \in Epochs /\ n \in Nets /\ Local(c)
        /\ net' = [net EXCEPT ![c] = m] /\ UNCHANGED lane
    BY DEF SendMotion, IInv, Types, LaneStates
  <1>2. m \in Nets /\ m.streams = n.streams /\ m.urgent = n.urgent /\ m.rushed = n.rushed
        /\ m.datagrams = n.datagrams \cup {lane[c].active}
    BY <1>1 DEF Nets
  <1>3. sends < SendMax /\ sends' = sends + 1 /\ UNCHANGED <<sent, inbound, phase>>
    BY DEF SendMotion, Counted, recvVars
  <1> HIDE DEF m
  <1>4. net' \in [Conns -> Nets] /\ net'[c] = m /\ \A d \in Conns : d # c => net'[d] = net[d]
    BY <1>1, <1>2 DEF IInv, Types
  <1>5. SentWell(c)
    <2>1. Extends(net[c], net'[c])
      BY <1>2, <1>4 DEF Extends
    <2>2. SenderKnows(c)'
      BY <1>1, <1>2, <1>3, <1>4 DEF Local, SenderKnows, Streams, Accounted, Open
    <2> QED
      BY <1>1, <1>2, <1>4, <2>1, <2>2 DEF SentWell, IInv, Types, Local, Kinds, Streams
  <1>6. SendingStep(c)
    <2>1. UNCHANGED <<peer, recvVars, laneVars, mainVars, session, entered>>
      BY DEF SendMotion
    <2>2. /\ sends \in 0..SendMax /\ sent \in [Conns -> 0..SendMax] /\ \A d \in Conns : sent[d] <= sends
      BY DEF IInv, Types
    <2>3. /\ sends' \in 0..SendMax /\ sent' \in [Conns -> 0..SendMax] /\ \A d \in Conns : sent'[d] <= sends'
      BY <1>3, <2>2, LanesConstantsAssumption
    <2> QED
      BY <2>1, <2>3 DEF SendingStep, IInv, Types
  <1> QED
    BY <1>1, <1>5, <1>6, SendingStepKeeps

\* Whatever frames of input are on their way stay where they are, and the session
\* under way is over or has taken no more in.
LEMMA RowKeeps ==
    ASSUME Types, Types', NEW c \in Conns, Row(c), UNCHANGED <<peer, current, session, worker>>,
           queue'[c] = queue[c] \/ \E g \in Frames : ~Input(g) /\ queue'[c] = Append(queue[c], g),
           \A f \in Frames : Input(f) => (InReader(c, f)' <=> InReader(c, f)),
           \A f \in Frames : Input(f) /\ OnItsWay(c, f) => f.epoch # 0,
           \/ inbound'[c].active = 0
           \/ inbound'[c].active = inbound[c].active /\ inbound'[c].last = inbound[c].last
    PROVE  Row(c)'
  <1>1. /\ DOMAIN queue[c] = 1..Len(queue[c]) /\ Len(queue[c]) \in Nat
        /\ \/ queue'[c] = queue[c]
           \/ /\ DOMAIN queue'[c] = 1..Len(queue[c]) + 1 /\ ~Input(queue'[c][Len(queue[c]) + 1])
              /\ \A k \in 1..Len(queue[c]) : queue'[c][k] = queue[c][k]
    <2>1. queue[c] \in Seq(Frames)
      BY DEF Types
    <2>2. CASE queue'[c] = queue[c]
      BY <2>1, <2>2
    <2>3. CASE \E g \in Frames : ~Input(g) /\ queue'[c] = Append(queue[c], g)
      <3>1. PICK g \in Frames : ~Input(g) /\ queue'[c] = Append(queue[c], g)
        BY <2>3
      <3>2. /\ DOMAIN queue[c] = 1..Len(queue[c]) /\ Len(queue[c]) \in Nat
            /\ DOMAIN Append(queue[c], g) = 1..Len(queue[c]) + 1
            /\ \A k \in 1..Len(queue[c]) : Append(queue[c], g)[k] = queue[c][k]
            /\ Append(queue[c], g)[Len(queue[c]) + 1] = g
        BY <2>1, Appends
      <3> QED
        BY <3>1, <3>2
    <2> QED
      BY <2>2, <2>3
  <1>2. \A f \in Frames : Input(f) => (InQueue(c, f)' <=> InQueue(c, f))
    <2> SUFFICES ASSUME NEW f \in Frames, Input(f)
                 PROVE  (\E k \in DOMAIN queue'[c] : queue'[c][k] = f) <=> (\E k \in DOMAIN queue[c] : queue[c][k] = f)
      BY DEF InQueue
    <2>1. CASE queue'[c] = queue[c]
      BY <2>1
    <2>2. CASE /\ DOMAIN queue'[c] = 1..Len(queue[c]) + 1 /\ ~Input(queue'[c][Len(queue[c]) + 1])
               /\ \A k \in 1..Len(queue[c]) : queue'[c][k] = queue[c][k]
      <3>1. \A k \in 1..Len(queue[c]) + 1 : k \in 1..Len(queue[c]) \/ k = Len(queue[c]) + 1
        BY <1>1
      <3>2. \A k \in 1..Len(queue[c]) : k \in 1..Len(queue[c]) + 1
        BY <1>1
      <3> QED
        BY <1>1, <2>2, <3>1, <3>2
    <2> QED
      BY <1>1, <2>1, <2>2
  <1>3. \A f \in Frames : Input(f) => (OnItsWay(c, f)' <=> OnItsWay(c, f))
    BY <1>2 DEF OnItsWay, InHand
  <1>4. HandFits(c)'
    BY DEF Row, HandFits, Reached, NotPast
  <1>5. Serving(c)' <=> Serving(c)
    BY DEF Serving, IsCurrent
  <1>6. Gapless(c) => Gapless(c)'
    BY <1>3 DEF Gapless, Follows, Reached, NotPast
  <1>7. InOrder(c) => InOrder(c)'
    <2>1. ASSUME InOrder(c)
          PROVE  \A f, g \in Frames : Input(f) /\ Input(g) =>
                    /\ InHand(c, f)' /\ (InQueue(c, g)' \/ InReader(c, g)') => Before(f, g)
                    /\ InQueue(c, f)' /\ InReader(c, g)' => Before(f, g)
      BY <1>2, <2>1 DEF InOrder, InHand
    <2>2. ASSUME InOrder(c)
          PROVE  \A k, l \in DOMAIN queue'[c] :
                    k < l /\ Input(queue'[c][k]) /\ Input(queue'[c][l]) => Before(queue'[c][k], queue'[c][l])
      <3>1. CASE queue'[c] = queue[c]
        BY <2>2, <3>1 DEF InOrder
      <3>2. CASE /\ DOMAIN queue'[c] = 1..Len(queue[c]) + 1 /\ ~Input(queue'[c][Len(queue[c]) + 1])
                 /\ \A k \in 1..Len(queue[c]) : queue'[c][k] = queue[c][k]
        <4>1. \A k \in 1..Len(queue[c]) + 1 : k \in 1..Len(queue[c]) \/ k = Len(queue[c]) + 1
          BY <1>1
        <4> QED
          BY <1>1, <2>2, <3>2, <4>1, SMTT(60), ZenonT(60) DEF InOrder
      <3> QED
        BY <1>1, <3>1, <3>2
    <2> QED
      BY <2>1, <2>2 DEF InOrder
  <1>8. UpToLast(c) => UpToLast(c)'
    BY <1>3 DEF UpToLast, Reached
  <1> QED
    BY <1>4, <1>5, <1>6, <1>7, <1>8 DEF Row

LEMMA InputsCount ==
    ASSUME Types, NEW c \in Conns, Kinds(c)
    PROVE  \A f \in Frames : Input(f) /\ OnItsWay(c, f) => f.epoch # 0
  BY FramesTyped DEF Kinds, OnItsWay, InHand, InQueue, InReader, WellWritten, Streams

\* A connection that is not up owes its session nothing.
LEMMA ClosedOwesNothing ==
    ASSUME NEW c \in Conns, ~Open(c)'
    PROVE  AllAnswered(c)' /\ SenderKnows(c)'
  BY DEF AllAnswered, Answered, SenderKnows

LEMMA LoseKeeps ==
    ASSUME IInv, NEW c \in Conns, Lose(c)
    PROVE  IInv'
  <1> USE DEF Lose, sendVars, laneVars, mainVars
  <1>0. IInv /\ Types /\ Local(c) /\ Open(c)
    BY DEF IInv
  <1>1. Types'
    BY <1>0 DEF Types
  <1>2. ~Open(c)'
    BY <1>0 DEF Open, Types
  <1>3. NetStep(c)
    BY <1>0, Made DEF NetStep, Same, Open, Types
  <1>4. Kinds(c)' /\ OwnedOnce(c)'
    BY <1>0 DEF Local, Kinds, OwnedOnce, Streams
  <1>5. HeardOf(c)'
    BY <1>0, <1>2 DEF Local, HeardOf, Heard, Streams
  <1>6. Row(c)'
    BY <1>0, <1>1, RowKeeps, InputsCount DEF Local, InReader, Streams
  <1>7. AllAnswered(c)' /\ SenderKnows(c)'
    BY <1>2, ClosedOwesNothing
  <1> QED
    BY <1>0, <1>1, <1>3, <1>4, <1>5, <1>6, <1>7, NetStepKeeps DEF Local

LEMMA ConnectKeeps ==
    ASSUME IInv, NEW c \in Conns, NEW p \in Peers, NEW e \in Epochs, Connect(c, p, e)
    PROVE  IInv'
  <1> USE DEF recvVars, laneVars, mainVars
  <1>0. /\ Types /\ LinkInv /\ SessionInv /\ Local(c) /\ peer[c] = None /\ Unmade(c)
        /\ peer' = [peer EXCEPT ![c] = p] /\ phase' = [phase EXCEPT ![c] = "open"]
        /\ entered' = [entered EXCEPT ![p] = e] /\ p # None
        /\ UNCHANGED <<lane, sent, sends, net, inbound, releases, laneVars, mainVars, session>>
    BY LanesConstantsAssumption DEF IInv, Connect, LinkInv
  <1>1. Types'
    BY <1>0 DEF Types
  <1>2. \A d \in Conns : peer'[d] = IF d = c THEN p ELSE peer[d]
    BY <1>0 DEF Types
  <1>3. \A d \in Conns : phase'[d] = IF d = c THEN "open" ELSE phase[d]
    BY <1>0 DEF Types
  <1>4. worker[c] = FreshWorker /\ worker[c].pc = "off" /\ queue[c] = <<>> /\ net[c].streams = <<>>
        /\ mailbox[c] = NoFrame /\ inbound[c] = FreshInbound /\ session.owner # c
        /\ lane[c] = FreshLane /\ net[c].urgent = {} /\ net[c].rushed = {}
    BY <1>0 DEF Unmade, FreshWorker, SessionInv
  <1>5. LinkInv'
    <2>1. \A d \in Conns : peer'[d] = None => Unmade(d)'
      BY <1>0, <1>2, <1>3 DEF LinkInv, Unmade
    <2>2. \A d1, d2 \in Conns : d1 < d2 /\ peer'[d2] # None => peer'[d1] # None
      <3> SUFFICES ASSUME NEW d1 \in Conns, NEW d2 \in Conns, d1 < d2, peer'[d2] # None
                   PROVE  peer'[d1] # None
        OBVIOUS
      <3>1. CASE d2 = c
        <4>1. d1 \in 1..(c - 1) /\ d1 # c
          BY <3>1 DEF Conns
        <4> QED
          BY <1>2, <4>1 DEF Connect
      <3>2. CASE d2 # c
        BY <1>0, <1>2, <3>2 DEF LinkInv
      <3> QED
        BY <3>1, <3>2
    <2>3. \A d1, d2 \in Conns : d1 < d2 /\ peer'[d1] = peer'[d2] => ~Open(d1)'
      <3> SUFFICES ASSUME NEW d1 \in Conns, NEW d2 \in Conns, d1 < d2, peer'[d1] = peer'[d2]
                   PROVE  phase'[d1] # "open"
        BY DEF Open
      <3>1. CASE d1 = c
        <4>1. peer[d2] = None
          BY <1>0, <3>1 DEF LinkInv
        <4>2. d2 # c
          BY <3>1, LanesConstantsAssumption DEF Conns
        <4> QED
          BY <1>0, <1>2, <3>1, <4>1, <4>2
      <3>2. CASE d1 # c /\ d2 = c
        <4>1. peer[d1] = p /\ phase'[d1] = phase[d1]
          BY <1>2, <1>3, <3>2
        <4>2. ~Open(d1)
          BY <4>1 DEF Connect
        <4> QED
          BY <4>1, <4>2 DEF Open
      <3>3. CASE d1 # c /\ d2 # c
        <4>1. peer[d1] = peer[d2] /\ phase'[d1] = phase[d1]
          <5>1. phase'[d1] = phase[d1]
            BY <1>3, <3>3
          <5>2. peer'[d1] = peer[d1] /\ peer'[d2] = peer[d2]
            BY <1>2, <3>3
          <5> QED
            BY <5>1, <5>2
        <4>2. ~Open(d1)
          BY <1>0, <4>1 DEF LinkInv
        <4> QED
          BY <4>1, <4>2 DEF Open
      <3> QED
        BY <3>1, <3>2, <3>3
    <2>4. \A q \in Peers : current'[q] # 0 =>
             peer'[current'[q]] = q /\ worker'[current'[q]].pc \in {"wait", "hold", "end"}
      <3> SUFFICES ASSUME NEW q \in Peers, current[q] # 0
                   PROVE  peer'[current[q]] = q /\ worker[current[q]].pc \in {"wait", "hold", "end"}
        BY <1>0
      <3>1. peer[current[q]] = q /\ worker[current[q]].pc \in {"wait", "hold", "end"}
        BY <1>0 DEF LinkInv
      <3>2. current[q] \in Conns /\ current[q] # c
        BY <1>0, <1>4, <3>1, LanesConstantsAssumption DEF Types, Conns
      <3> QED
        BY <1>2, <3>1, <3>2
    <2>5. \A d \in Conns : worker'[d].pc = "end" /\ ~worker'[d].failed => phase'[d] = "ended" \/ ~IsCurrent(d)'
      BY <1>0, <1>2, <1>3, <1>4 DEF LinkInv, IsCurrent
    <2>6. \A d1, d2 \in Conns : d1 < d2 /\ worker'[d2].pc # "off" => worker'[d1].pc # "off"
      BY <1>0 DEF LinkInv
    <2> QED
      BY <2>1, <2>2, <2>3, <2>4, <2>5, <2>6 DEF LinkInv
  <1>6. SessionInv'
    BY <1>0 DEF SessionInv
  <1>7. ASSUME NEW d \in Conns, d # c PROVE Local(d)'
    <2>1. Same(d) /\ Milder(d) /\ (Serving(d)' => Serving(d)) /\ Local(d)
      BY <1>0, <1>2, <1>3, <1>7 DEF Same, Milder, Serving, IsCurrent, IInv
    <2> QED
      BY <1>0, <1>1, <2>1, OthersKeep
  <1>8. Local(c)'
    <2>0. /\ queue'[c] = <<>> /\ net'[c] = net[c] /\ net'[c].streams = <<>> /\ mailbox'[c] = NoFrame
          /\ worker'[c] = FreshWorker /\ inbound'[c] = FreshInbound /\ session'.owner # c /\ lane'[c] = FreshLane
      BY <1>0, <1>4
    <2>1. Kinds(c)' /\ OwnedOnce(c)'
      BY <1>0 DEF Kinds, OwnedOnce, Local, Streams
    <2>2. HeardOf(c)'
      <3>1. ~inbound'[c].terminal
        BY <2>0 DEF FreshInbound
      <3> QED
        BY <1>0, <3>1 DEF HeardOf, Local, Streams, Heard
    <2>3. SenderKnows(c)'
      BY <2>0 DEF SenderKnows, FreshLane, FreshInbound, Streams
    <2>4. \A f : ~OnItsWay(c, f)'
      BY <2>0 DEF OnItsWay, InHand, InQueue, InReader, Streams, FreshWorker
    <2>5. Row(c)'
      BY <2>0, <2>4 DEF Row, HandFits, Gapless, InOrder, UpToLast, FreshWorker, FreshInbound, OnItsWay
    <2>6. AllAnswered(c)'
      <3>1. session.epoch \in Nat
        BY <1>0, LanesConstantsAssumption DEF Types, Sessions, Epochs
      <3>2. ~(NoFrame.epoch > session.epoch)
        BY <3>1, FramesTyped
      <3> QED
        BY <1>0, <2>0, <2>4, <3>2 DEF AllAnswered
    <2> QED
      BY <2>1, <2>2, <2>3, <2>5, <2>6 DEF Local
  <1> QED
    BY <1>1, <1>5, <1>6, <1>7, <1>8 DEF IInv

\* The receiving half of c alone may have changed, and keeps its types.
Received(c) ==
    /\ phase' \in [Conns -> {"none", "open", "closed", "ended"}]
    /\ inbound' \in [Conns -> Inbounds] /\ releases' \in [Conns -> Emitters]
    /\ \A d \in Conns : Sane(inbound'[d]) /\ releases'[d].due \subseteq 1..releases'[d].high
    /\ \A d \in Conns : d # c =>
          phase'[d] = phase[d] /\ inbound'[d] = inbound[d] /\ releases'[d] = releases[d]
    /\ Open(c)' => Open(c)
    /\ phase[c] = "ended" => phase'[c] = "ended"

LEMMA Settles ==
    ASSUME Types, NEW c \in Conns, NEW in \in Inbounds, Sane(in), NEW closes \in BOOLEAN,
           NEW e \in Epochs, Settle(c, in, closes, e)
    PROVE  /\ Received(c) /\ inbound'[c] = in
           /\ Open(c)' <=> Open(c) /\ ~closes
           /\ releases'[c].high = Larger(releases[c].high, e)
  <1>1. inbound' \in [Conns -> Inbounds] /\ inbound'[c] = in
        /\ \A d \in Conns : d # c => inbound'[d] = inbound[d]
    BY DEF Settle, Types
  <1>2. releases[c] \in Emitters /\ releases[c].due \subseteq 1..releases[c].high
    BY DEF Types
  <1> DEFINE r == Emitted(releases[c], e)
  <1>3. r \in Emitters /\ r.due \subseteq 1..r.high /\ r.high = Larger(releases[c].high, e)
    BY <1>2, Emits
  <1>4. releases' = [releases EXCEPT ![c] = r]
    BY DEF Settle
  <1> HIDE DEF r
  <1>5. releases' \in [Conns -> Emitters] /\ releases'[c] = r
        /\ \A d \in Conns : d # c => releases'[d] = releases[d]
    BY <1>3, <1>4 DEF Types
  <1>6. phase' \in [Conns -> {"none", "open", "closed", "ended"}]
        /\ \A d \in Conns : d # c => phase'[d] = phase[d]
    BY DEF Settle, Types
  <1>7. phase'[c] = IF closes /\ Open(c) THEN "closed" ELSE phase[c]
    BY DEF Settle, Types
  <1> QED
    BY <1>1, <1>3, <1>5, <1>6, <1>7 DEF Received, Types, Open

LEMMA Unsettled ==
    ASSUME Types, NEW c \in Conns, UNCHANGED recvVars
    PROVE  Received(c)
  BY DEF Types, Received, recvVars, Open

LEMMA StreamSets ==
    ASSUME Types, NEW c \in Conns, NEW i \in Streams(c), NEW s \in StreamStates, Stream(c, i, s)
    PROVE  /\ net' \in [Conns -> Nets] /\ \A d \in Conns : d # c => net'[d] = net[d]
           /\ DOMAIN net'[c].streams = Streams(c) /\ Streams(c)' = Streams(c)
           /\ net'[c].urgent = net[c].urgent /\ net'[c].rushed = net[c].rushed
           /\ net'[c].datagrams = net[c].datagrams
           /\ \A j \in Streams(c) : net'[c].streams[j] = IF j = i THEN s ELSE net[c].streams[j]
  <1> DEFINE m == [net[c] EXCEPT !.streams = [net[c].streams EXCEPT ![i] = s]]
  <1>1. net' = [net EXCEPT ![c] = m]
    BY DEF Stream
  <1>2. net[c] \in Nets /\ i \in DOMAIN net[c].streams
    BY DEF Types, Streams
  <1>3. /\ m \in Nets /\ DOMAIN m.streams = DOMAIN net[c].streams
        /\ m.urgent = net[c].urgent /\ m.rushed = net[c].rushed /\ m.datagrams = net[c].datagrams
        /\ \A j \in DOMAIN net[c].streams : m.streams[j] = IF j = i THEN s ELSE net[c].streams[j]
    BY <1>2, Streamings
  <1> HIDE DEF m
  <1>4. net' \in [Conns -> Nets] /\ net'[c] = m /\ \A d \in Conns : d # c => net'[d] = net[d]
    BY <1>1, <1>3 DEF Types
  <1> QED
    BY <1>3, <1>4 DEF Streams

LEMMA Leaving ==
    ASSUME NEW s \in StreamStates
    PROVE  /\ Left(s) \in StreamStates /\ Left(s).frames = <<>> /\ Left(s).held = NoFrame
           /\ Left(s).epoch = s.epoch /\ Left(s).cut = s.cut
  <1> DEFINE a == [s EXCEPT !.frames = <<>>]
             b == [a EXCEPT !.held = NoFrame]
  <1>0. <<>> \in Seq(Frames)
    OBVIOUS
  <1>1. /\ a \in StreamStates /\ a.frames = <<>> /\ a.epoch = s.epoch /\ a.cut = s.cut
    BY <1>0 DEF StreamStates
  <1> HIDE DEF a
  <1>2. /\ b \in StreamStates /\ b.frames = <<>> /\ b.held = NoFrame /\ b.epoch = s.epoch /\ b.cut = s.cut
    BY <1>1, FramesTyped DEF StreamStates
  <1>3. Left(s) = [b EXCEPT !.gone = TRUE]
    BY DEF Left, a
  <1> HIDE DEF b
  <1> QED
    BY <1>2, <1>3 DEF StreamStates

\* What a step of a reader changes besides the receiving half.
ReadingStep(c) ==
    /\ Received(c) /\ net' \in [Conns -> Nets] /\ \A d \in Conns : d # c => net'[d] = net[d]
    /\ queue' \in [Conns -> Seq(Frames)] /\ \A d \in Conns : Len(queue'[d]) <= QueueCap
    /\ mailbox' \in [Conns -> Frames]
    /\ \A d \in Conns : d # c => queue'[d] = queue[d] /\ mailbox'[d] = mailbox[d]
    /\ UNCHANGED <<sendVars, worker, current, mainVars, session>>

LEMMA ReadingTypes ==
    ASSUME Types, NEW c \in Conns, ReadingStep(c)
    PROVE  Types'
  BY DEF Types, ReadingStep, Received, sendVars, mainVars

LEMMA ReadingStepKeeps ==
    ASSUME IInv, NEW c \in Conns, ReadingStep(c), peer[c] # None, Local(c)'
    PROVE  IInv'
  <1>1. Types'
    BY ReadingTypes DEF IInv
  <1>2. NetStep(c)
    BY DEF ReadingStep, Received, NetStep, Same, sendVars
  <1> QED
    BY <1>1, <1>2, NetStepKeeps

LEMMA FewerOwners ==
    ASSUME NEW c \in Conns, OwnedOnce(c), Streams(c)' = Streams(c),
           \A i \in Streams(c), e \in 1..EpochMax :
               Owns(net'[c].streams[i], e) => Owns(net[c].streams[i], e)
    PROVE  OwnedOnce(c)'
  BY DEF OwnedOnce

LEMMA HeardKeeps ==
    ASSUME Types, Types', NEW c \in Conns, HeardOf(c), UNCHANGED <<session, worker>>,
           inbound'[c].retired >= inbound[c].retired, Heard(c)' >= Heard(c),
           releases'[c].high <= inbound'[c].retired, inbound'[c].terminal => ~Open(c)',
           \A i \in Streams(c)' :
               net'[c].streams[i].epoch <= Heard(c)' /\ net'[c].streams[i].held.epoch <= Heard(c)',
           \A e \in net'[c].rushed : e <= inbound'[c].retired,
           \A k \in DOMAIN queue'[c] :
               \/ k \in DOMAIN queue[c] /\ queue'[c][k] = queue[c][k]
               \/ /\ queue'[c][k].epoch <= Heard(c)'
                  /\ queue'[c][k].kind = "ReleaseAll" => queue'[c][k].epoch <= inbound'[c].retired,
           mailbox'[c].epoch <= Heard(c)'
    PROVE  HeardOf(c)'
  <1>1. /\ inbound[c].retired \in Nat /\ inbound'[c].retired \in Nat /\ Heard(c) \in Nat /\ Heard(c)' \in Nat
        /\ session.epoch \in Nat /\ worker[c].frame.epoch \in Nat
        /\ \A k \in DOMAIN queue[c] : queue[c][k].epoch \in Nat
    <2>1. Epochs \subseteq Nat
      BY LanesConstantsAssumption DEF Epochs
    <2>2. inbound[c].retired \in Epochs /\ inbound[c].active \in Epochs
          /\ inbound'[c].retired \in Epochs /\ inbound'[c].active \in Epochs
      BY DEF Types, Inbounds
    <2>3. \A k \in DOMAIN queue[c] : queue[c][k] \in Frames
      BY DEF Types
    <2>4. session.epoch \in Epochs /\ worker[c].frame \in Frames
      BY DEF Types, Sessions, Workers
    <2> QED
      BY <2>1, <2>2, <2>3, <2>4 DEF Frames, Epochs, Heard, Larger
  <1>2. \A k \in DOMAIN queue'[c] :
           /\ queue'[c][k].epoch <= Heard(c)'
           /\ queue'[c][k].kind = "ReleaseAll" => queue'[c][k].epoch <= inbound'[c].retired
    BY <1>1 DEF HeardOf
  <1>3. /\ worker'[c].frame.epoch <= Heard(c)'
        /\ session'.owner = c => session'.epoch <= Heard(c)'
        /\ worker'[c].frame.kind = "ReleaseAll" => worker'[c].frame.epoch <= inbound'[c].retired
    BY <1>1 DEF HeardOf
  <1> QED
    BY <1>2, <1>3 DEF HeardOf

LEMMA AnswersKeep ==
    ASSUME Types, NEW c \in Conns, AllAnswered(c), UNCHANGED <<peer, current, session, worker>>,
           \A f \in Frames : (OnItsWay(c, f)' \/ mailbox'[c] = f) /\ f.epoch > session.epoch =>
               OnItsWay(c, f) \/ mailbox[c] = f \/ Answered(c, f.epoch)',
           Serving(c) => \A x \in Nat : x >= session.epoch /\ Answered(c, x) => Answered(c, x)'
    PROVE  AllAnswered(c)'
  <1>1. session.epoch \in Nat /\ \A f \in Frames : f.epoch \in Nat
    BY LanesConstantsAssumption DEF Types, Sessions, Epochs, Frames
  <1>2. Serving(c)' <=> Serving(c)
    BY DEF Serving, IsCurrent
  <1> QED
    BY <1>1, <1>2 DEF AllAnswered

\* What is known of the connection c of an actor's step.
LEMMA Known ==
    ASSUME IInv, NEW c \in Conns
    PROVE  /\ Types /\ Local(c) /\ Kinds(c) /\ HeardOf(c) /\ OwnedOnce(c) /\ SenderKnows(c) /\ Row(c)
           /\ AllAnswered(c)
           /\ inbound[c] \in Inbounds /\ Sane(inbound[c]) /\ net[c] \in Nets
           /\ inbound[c].active \in Epochs /\ inbound[c].retired \in Epochs
           /\ inbound[c].active \in Nat /\ inbound[c].retired \in Nat /\ Heard(c) \in Nat
           /\ Heard(c) >= inbound[c].active /\ Heard(c) >= inbound[c].retired
           /\ releases[c].high \in Nat /\ releases[c].high <= inbound[c].retired
           /\ session.epoch \in Nat /\ \A f \in Frames : f.epoch \in Nat /\ f.epoch \in Epochs
           /\ 0 \in Epochs /\ queue[c] \in Seq(Frames) /\ mailbox[c] \in Frames
           /\ \A f \in Frames : Input(f) /\ OnItsWay(c, f) => f.epoch # 0
  <1>1. Types /\ Local(c)
    BY DEF IInv
  <1>2. /\ inbound[c] \in Inbounds /\ Sane(inbound[c]) /\ net[c] \in Nets /\ releases[c] \in Emitters
        /\ session \in Sessions /\ queue[c] \in Seq(Frames) /\ mailbox[c] \in Frames
    BY <1>1 DEF Types
  <1>3. Epochs \subseteq Nat /\ 0 \in Epochs
    BY LanesConstantsAssumption DEF Epochs
  <1>4. /\ inbound[c].active \in Epochs /\ inbound[c].retired \in Epochs /\ releases[c].high \in Epochs
        /\ session.epoch \in Epochs /\ \A f \in Frames : f.epoch \in Epochs
    BY <1>2 DEF Inbounds, Emitters, Sessions, Frames, Epochs
  <1>5. Heard(c) \in Nat /\ Heard(c) >= inbound[c].active /\ Heard(c) >= inbound[c].retired
    BY <1>4, Largers DEF Heard
  <1>6. releases[c].high <= inbound[c].retired
    BY <1>1 DEF Local, HeardOf
  <1>7. \A f \in Frames : Input(f) /\ OnItsWay(c, f) => f.epoch # 0
    BY <1>1, InputsCount DEF Local
  <1> QED
    BY <1>1, <1>2, <1>3, <1>4, <1>5, <1>6, <1>7 DEF Local

\* A reader leaves its stream with nothing in its hand.
LEMMA LeavesStream ==
    ASSUME IInv, NEW c \in Conns, NEW i \in Streams(c), ReadingStep(c),
           net[c].streams[i].held = NoFrame, Stream(c, i, Left(net[c].streams[i])),
           UNCHANGED <<queue, mailbox>>
    PROVE  /\ Kinds(c)' /\ OwnedOnce(c)'
           /\ Streams(c)' = Streams(c) /\ net'[c].urgent = net[c].urgent /\ net'[c].rushed = net[c].rushed
           /\ \A j \in Streams(c) : /\ net'[c].streams[j].epoch = net[c].streams[j].epoch
                                    /\ net'[c].streams[j].held = net[c].streams[j].held
                                    /\ net'[c].streams[j].cut = net[c].streams[j].cut
                                    /\ \/ net'[c].streams[j].frames = net[c].streams[j].frames
                                       \/ net'[c].streams[j].frames = <<>>
           /\ \A f : OnItsWay(c, f)' <=> OnItsWay(c, f)
           /\ \A f : InReader(c, f)' <=> InReader(c, f)
  <1>1. net[c].streams[i] \in StreamStates
    BY Known, StreamsTyped DEF Streams
  <1>2. Left(net[c].streams[i]) \in StreamStates
    BY <1>1, Leaving
  <1>3. /\ net' \in [Conns -> Nets] /\ \A d \in Conns : d # c => net'[d] = net[d]
        /\ DOMAIN net'[c].streams = Streams(c) /\ Streams(c)' = Streams(c)
        /\ net'[c].urgent = net[c].urgent /\ net'[c].rushed = net[c].rushed
        /\ net'[c].datagrams = net[c].datagrams
        /\ \A j \in Streams(c) : net'[c].streams[j] = IF j = i THEN Left(net[c].streams[i]) ELSE net[c].streams[j]
    BY <1>2, StreamSets DEF IInv
  <1>4. \A j \in Streams(c) : /\ net'[c].streams[j].epoch = net[c].streams[j].epoch
                              /\ net'[c].streams[j].held = net[c].streams[j].held
                              /\ net'[c].streams[j].cut = net[c].streams[j].cut
                              /\ \/ net'[c].streams[j].frames = net[c].streams[j].frames
                                 \/ net'[c].streams[j].frames = <<>>
    BY <1>1, <1>3, Leaving
  <1>5. Kinds(c)'
    <2>1. ASSUME NEW j \in Streams(c), NEW k \in DOMAIN net'[c].streams[j].frames
          PROVE  WellWritten(net'[c].streams[j].frames[k])
      <3>1. net'[c].streams[j].frames = net[c].streams[j].frames
        BY <1>4
      <3> QED
        BY <3>1, Known DEF Kinds
    <2>2. \A j \in Streams(c) : net'[c].streams[j].held = NoFrame \/ WellWritten(net'[c].streams[j].held)
      BY <1>4, Known DEF Kinds
    <2>3. 0 \notin net'[c].urgent \cup net'[c].rushed \cup net'[c].datagrams
      BY <1>3, Known DEF Kinds
    <2>4. worker'[c] = worker[c] /\ queue'[c] = queue[c] /\ mailbox'[c] = mailbox[c]
      BY DEF ReadingStep
    <2> QED
      BY <1>3, <2>1, <2>2, <2>3, <2>4, Known DEF Kinds
  <1>6. OwnedOnce(c)'
    BY <1>3, <1>4, Known, FewerOwners DEF Owns
  <1>7. \A f : InReader(c, f)' <=> InReader(c, f)
    BY <1>3, <1>4 DEF InReader
  <1>8. \A f : OnItsWay(c, f)' <=> OnItsWay(c, f)
    BY <1>7 DEF OnItsWay, InHand, InQueue, ReadingStep
  <1> QED
    BY <1>3, <1>4, <1>5, <1>6, <1>7, <1>8

\* A reader gives its connection up, with nothing in its hand.
LEMMA GivesConnectionUp ==
    ASSUME IInv, NEW c \in Conns, NEW i \in Streams(c), Open(c), net[c].streams[i].held = NoFrame,
           NEW in \in Inbounds, Sane(in), in.active = 0, in.retired >= Heard(c),
           NEW e \in Epochs, e <= in.retired, Settle(c, in, TRUE, e),
           Stream(c, i, Left(net[c].streams[i])), UNCHANGED <<sendVars, laneVars, mainVars, session>>
    PROVE  IInv'
  <1>0. Types
    BY DEF IInv
  <1>1. /\ Received(c) /\ inbound'[c] = in /\ ~Open(c)'
        /\ releases'[c].high = Larger(releases[c].high, e)
    BY <1>0, Settles
  <1>2. net[c].streams[i] \in StreamStates
    BY Known, StreamsTyped DEF Streams
  <1>3. net' \in [Conns -> Nets] /\ \A d \in Conns : d # c => net'[d] = net[d]
    BY <1>0, <1>2, Leaving, StreamSets
  <1>4. ReadingStep(c)
    BY <1>0, <1>1, <1>3 DEF ReadingStep, Types, laneVars
  <1>5. Types'
    BY <1>0, <1>4, ReadingTypes
  <1>6. /\ Kinds(c)' /\ OwnedOnce(c)'
        /\ Streams(c)' = Streams(c) /\ net'[c].rushed = net[c].rushed
        /\ \A j \in Streams(c) : /\ net'[c].streams[j].epoch = net[c].streams[j].epoch
                                 /\ net'[c].streams[j].held = net[c].streams[j].held
        /\ \A f : InReader(c, f)' <=> InReader(c, f)
    BY <1>4, LeavesStream DEF laneVars
  <1>7. in.retired \in Nat /\ e \in Nat /\ in.retired >= inbound[c].retired /\ Heard(c)' = in.retired
    <2>1. in.retired \in Nat /\ e \in Nat
      BY LanesConstantsAssumption DEF Inbounds, Epochs
    <2> QED
      BY <1>1, <2>1, Known DEF Heard, Larger
  <1>8. HeardOf(c)'
    <2>1. releases'[c].high <= inbound'[c].retired
      BY <1>1, <1>7, Known DEF Larger
    <2>2. \A j \in Streams(c) : net[c].streams[j].epoch \in Nat /\ net[c].streams[j].held.epoch \in Nat
      BY Known, StreamsTyped DEF Streams
    <2>3. \A j \in Streams(c)' :
             net'[c].streams[j].epoch <= Heard(c)' /\ net'[c].streams[j].held.epoch <= Heard(c)'
      BY <1>6, <1>7, <2>2, Known, SMTT(60), ZenonT(60) DEF HeardOf
    <2>4. \A x \in net'[c].rushed : x <= inbound'[c].retired
      <3>1. \A x \in net[c].rushed : x \in Nat
        BY Known, LanesConstantsAssumption DEF Nets, Epochs
      <3> QED
        BY <1>1, <1>6, <1>7, <3>1, Known DEF HeardOf
    <2>5. mailbox'[c].epoch <= Heard(c)'
      BY <1>7, Known DEF HeardOf, laneVars
    <2> QED
      BY <1>0, <1>1, <1>5, <1>7, <2>1, <2>3, <2>4, <2>5, Known, HeardKeeps DEF laneVars
  <1>9. Row(c)'
    BY <1>0, <1>1, <1>5, <1>6, RowKeeps, Known DEF laneVars, sendVars
  <1>10. AllAnswered(c)' /\ SenderKnows(c)'
    BY <1>1, ClosedOwesNothing
  <1>11. peer[c] # None
    BY Made
  <1> QED
    BY <1>4, <1>6, <1>8, <1>9, <1>10, <1>11, ReadingStepKeeps DEF Local

\* A stream stays accounted for when nothing new is on it and the receiver only
\* retires more.
LEMMA StaysAccounted ==
    ASSUME NEW c \in Conns, NEW j, Accounted(c, net[c].streams[j], lane[c]), lane'[c] = lane[c],
           net'[c].streams[j].epoch = net[c].streams[j].epoch,
           net'[c].streams[j].held = net[c].streams[j].held,
           net'[c].streams[j].cut = net[c].streams[j].cut,
           \A k \in DOMAIN net'[c].streams[j].frames :
               k \in DOMAIN net[c].streams[j].frames /\ net'[c].streams[j].frames[k] = net[c].streams[j].frames[k],
           \A k \in DOMAIN net[c].streams[j].frames : net[c].streams[j].frames[k].epoch \in Nat,
           \A e \in net[c].urgent : e \in net'[c].urgent \/ e <= inbound'[c].retired,
           inbound[c].retired \in Nat, inbound'[c].retired \in Nat,
           inbound'[c].retired >= inbound[c].retired
    PROVE  Accounted(c, net[c].streams[j], lane[c])'
  <1> DEFINE s == net[c].streams[j]
             t == net'[c].streams[j]
             through == IF s.cut THEN lane[c].retired ELSE SentThrough(lane[c])
  <1>1. s.epoch <= through /\ s.held.epoch <= through
    BY DEF Accounted
  <1>2. ASSUME NEW k \in DOMAIN t.frames
        PROVE  /\ t.frames[k].epoch <= through
               /\ \/ t.frames[k].epoch = lane[c].active
                  \/ t.frames[k].epoch \in net'[c].urgent
                  \/ t.frames[k].epoch <= inbound'[c].retired
    <2> DEFINE f == s.frames[k]
    <2>1. k \in DOMAIN s.frames /\ t.frames[k] = f /\ f.epoch \in Nat
      OBVIOUS
    <2>2. /\ f.epoch <= through
          /\ f.epoch = lane[c].active \/ f.epoch \in net[c].urgent \/ f.epoch <= inbound[c].retired
      BY <2>1 DEF Accounted
    <2> HIDE DEF f, through
    <2> QED
      BY <2>1, <2>2
  <1> QED
    BY <1>1, <1>2 DEF Accounted, SentThrough

\* A reader leaves its stream, and its connection stays up.
LEMMA LeavesOpen ==
    ASSUME IInv, NEW c \in Conns, NEW i \in Streams(c), Open(c), net[c].streams[i].held = NoFrame,
           Received(c), Open(c)',
           \/ UNCHANGED recvVars
           \/ /\ inbound[c].active # 0 /\ inbound[c].active \in net[c].urgent
              /\ inbound'[c] = RetireInbound(inbound[c], inbound[c].active)
              /\ releases'[c].high <= inbound'[c].retired,
           Stream(c, i, Left(net[c].streams[i])), UNCHANGED <<sendVars, laneVars, mainVars, session>>
    PROVE  IInv'
  <1>0. Types
    BY DEF IInv
  <1>1. net[c].streams[i] \in StreamStates
    BY Known, StreamsTyped DEF Streams
  <1>2. net' \in [Conns -> Nets] /\ \A d \in Conns : d # c => net'[d] = net[d]
    BY <1>0, <1>1, Leaving, StreamSets
  <1>3. ReadingStep(c)
    BY <1>0, <1>2 DEF ReadingStep, Types, laneVars
  <1>4. Types'
    BY <1>0, <1>3, ReadingTypes
  <1>5. /\ Kinds(c)' /\ OwnedOnce(c)'
        /\ Streams(c)' = Streams(c) /\ net'[c].urgent = net[c].urgent /\ net'[c].rushed = net[c].rushed
        /\ \A j \in Streams(c) : /\ net'[c].streams[j].epoch = net[c].streams[j].epoch
                                 /\ net'[c].streams[j].held = net[c].streams[j].held
                                 /\ net'[c].streams[j].cut = net[c].streams[j].cut
                                 /\ \/ net'[c].streams[j].frames = net[c].streams[j].frames
                                    \/ net'[c].streams[j].frames = <<>>
        /\ \A f : OnItsWay(c, f)' <=> OnItsWay(c, f)
        /\ \A f : InReader(c, f)' <=> InReader(c, f)
    BY <1>3, LeavesStream DEF laneVars
  <1>6. /\ \/ inbound'[c] = inbound[c]
           \/ /\ inbound[c].active # 0 /\ inbound[c].active \in net[c].urgent
              /\ inbound'[c].active = 0 /\ inbound'[c].retired = inbound[c].active
              /\ inbound'[c].last = inbound[c].last
              /\ inbound'[c].terminal = inbound[c].terminal
        /\ releases'[c].high <= inbound'[c].retired
    <2>1. CASE UNCHANGED recvVars
      BY <2>1, Known DEF recvVars
    <2>2. CASE /\ inbound[c].active # 0 /\ inbound[c].active \in net[c].urgent
               /\ inbound'[c] = RetireInbound(inbound[c], inbound[c].active)
               /\ releases'[c].high <= inbound'[c].retired
      BY <2>2, Known, RetiresInbound DEF Sane, Larger
    <2> QED
      BY <2>1, <2>2
  <1>7. /\ inbound'[c].retired \in Nat /\ inbound'[c].retired >= inbound[c].retired
        /\ Heard(c)' = Heard(c)
    BY <1>6, Known DEF Heard, Larger, Sane
  <1>8. HeardOf(c)'
    <2>3. \A j \in Streams(c)' :
             net'[c].streams[j].epoch <= Heard(c)' /\ net'[c].streams[j].held.epoch <= Heard(c)'
      BY <1>5, <1>7, Known, SMTT(60), ZenonT(60) DEF HeardOf
    <2>4. \A x \in net'[c].rushed : x <= inbound'[c].retired
      <3>1. \A x \in net[c].rushed : x \in Nat
        BY Known, LanesConstantsAssumption DEF Nets, Epochs
      <3> QED
        BY <1>5, <1>7, <3>1, Known DEF HeardOf
    <2>5. mailbox'[c].epoch <= Heard(c)'
      BY <1>7, Known DEF HeardOf, laneVars
    <2>6. inbound'[c].terminal => ~Open(c)'
      BY <1>6, Known DEF HeardOf
    <2>7. Heard(c)' >= Heard(c)
      BY <1>7, Known
    <2> QED
      BY <1>0, <1>4, <1>6, <1>7, <2>3, <2>4, <2>5, <2>6, <2>7, Known, HeardKeeps DEF laneVars
  <1>9. Row(c)'
    BY <1>0, <1>4, <1>5, <1>6, RowKeeps, Known DEF laneVars, sendVars
  <1>10. SenderKnows(c)'
    <2>1. lane'[c] = lane[c]
      BY SMTT(60), ZenonT(60) DEF sendVars
    <2>2. ASSUME NEW j \in Streams(c)
          PROVE  Accounted(c, net[c].streams[j], lane[c])'
      <3>1. Accounted(c, net[c].streams[j], lane[c])
        BY Known DEF SenderKnows
      <3>2. \A k \in DOMAIN net'[c].streams[j].frames :
               k \in DOMAIN net[c].streams[j].frames /\ net'[c].streams[j].frames[k] = net[c].streams[j].frames[k]
        BY <1>5
      <3>3. \A k \in DOMAIN net[c].streams[j].frames : net[c].streams[j].frames[k].epoch \in Nat
        <4>1. net[c].streams[j].frames \in Seq(Frames)
          BY Known, StreamsTyped DEF Streams
        <4> QED
          BY <4>1, Known
      <3>4. inbound[c].retired \in Nat
        BY Known
      <3> QED
        BY <1>5, <1>7, <2>1, <3>1, <3>2, <3>3, <3>4, StaysAccounted
    <2> QED
      BY <1>5, <1>6, <2>1, <2>2, Known DEF SenderKnows
  <1>11. AllAnswered(c)'
    <2>1. ASSUME NEW x \in Nat, Answered(c, x)
          PROVE  Answered(c, x)'
      BY <1>5, <1>6, <2>1, Known DEF Answered
    <2> QED
      BY <1>0, <1>5, <2>1, Known, AnswersKeep DEF laneVars, sendVars
  <1>12. peer[c] # None
    BY Made
  <1> QED
    BY <1>3, <1>5, <1>8, <1>9, <1>10, <1>11, <1>12, ReadingStepKeeps DEF Local

LEMMA StreamIdleKeeps ==
    ASSUME IInv, NEW c \in Conns, NEW i \in Streams(c), StreamIdle(c, i)
    PROVE  IInv'
  <1>0. /\ Open(c) /\ net[c].streams[i].held = NoFrame /\ Stream(c, i, Left(net[c].streams[i]))
        /\ UNCHANGED <<sendVars, laneVars, mainVars, session>> /\ Types
    BY DEF StreamIdle, Reads, IInv
  <1>1. CASE UNCHANGED recvVars
    <2>1. Received(c) /\ Open(c)'
      BY <1>0, <1>1, Unsettled DEF recvVars, Open
    <2> QED
      BY <1>0, <1>1, <2>1, LeavesOpen
  <1>2. CASE Settle(c, Terminalize(inbound[c]), TRUE, inbound[c].active)
    <2> DEFINE in == Terminalize(inbound[c])
    <2>1. in \in Inbounds /\ Sane(in) /\ in.active = 0 /\ in.retired = Larger(inbound[c].retired, inbound[c].active)
      BY Known, TerminalTyped
    <2> HIDE DEF in
    <2>2. in.retired >= Heard(c) /\ inbound[c].active <= in.retired
      BY <2>1, Known DEF Heard, Larger
    <2> QED
      BY <1>0, <1>2, <2>1, <2>2, Known, GivesConnectionUp DEF in
  <1> QED
    BY <1>1, <1>2 DEF StreamIdle

LEMMA StreamResetKeeps ==
    ASSUME IInv, NEW c \in Conns, NEW i \in Streams(c), StreamReset(c, i)
    PROVE  IInv'
  <1> DEFINE s == net[c].streams[i]
             in == inbound[c]
  <1>0. /\ Open(c) /\ s.held = NoFrame /\ Stream(c, i, Left(s)) /\ s.cut
        /\ UNCHANGED <<sendVars, laneVars, mainVars, session>> /\ Types
    BY DEF StreamReset, Reads, IInv
  <1>1. CASE UNCHANGED recvVars
    <2>1. Received(c) /\ Open(c)'
      BY <1>0, <1>1, Unsettled DEF recvVars, Open
    <2> QED
      BY <1>0, <1>1, <2>1, LeavesOpen
  <1>2. CASE s.epoch # 0 /\ in.active = s.epoch /\ Settle(c, RetireInbound(in, s.epoch), FALSE, s.epoch)
    <2>1. RetireInbound(in, in.active) \in Inbounds /\ Sane(RetireInbound(in, in.active))
      BY Known, InboundsTyped
    <2>2. RetireInbound(in, in.active).retired = in.active
      BY <1>2, Known, RetiresInbound DEF Larger, Sane
    <2>3. Settle(c, RetireInbound(in, in.active), FALSE, in.active)
      BY <1>2
    <2>4. /\ Received(c) /\ inbound'[c] = RetireInbound(in, in.active) /\ Open(c)'
          /\ releases'[c].high = Larger(releases[c].high, in.active)
      BY <1>0, <2>1, <2>3, Known, Settles, ZenonT(60), SMTT(60)
    <2>5. releases'[c].high <= inbound'[c].retired
      BY <1>2, <2>2, <2>4, Known DEF Larger, Sane
    <2>6. in.active \in net[c].urgent
      <3>1. Accounted(c, s, lane[c]) /\ lane[c].active \in Nat /\ lane[c].retired \in Nat
        BY <1>0, Known, LanesConstantsAssumption DEF SenderKnows, Types, LaneStates, Epochs
      <3>2. s.epoch <= lane[c].retired
        BY <1>0, <3>1 DEF Accounted
      <3>3. in.active # lane[c].active
        BY <1>0, <1>2, <3>1, <3>2, Known DEF SenderKnows
      <3> QED
        BY <1>0, <1>2, <3>3, Known DEF SenderKnows
    <2> QED
      BY <1>0, <1>2, <2>4, <2>5, <2>6, LeavesOpen
  <1> QED
    BY <1>1, <1>2 DEF StreamReset

\* The streams of c and what their readers hold stay.
SameStreams(c) ==
    /\ net' \in [Conns -> Nets] /\ \A d \in Conns : d # c => net'[d] = net[d]
    /\ net'[c].streams = net[c].streams

LEMMA StreamsStay ==
    ASSUME NEW c \in Conns, SameStreams(c)
    PROVE  /\ Streams(c)' = Streams(c)
           /\ \A f : InReader(c, f)' <=> InReader(c, f)
           /\ OwnedOnce(c) => OwnedOnce(c)'
  BY DEF SameStreams, Streams, InReader, OwnedOnce

LEMMA UrgentSets ==
    ASSUME Types, NEW c \in Conns, NEW u \in SUBSET Epochs, NEW r \in SUBSET Epochs,
           net' = [net EXCEPT ![c].urgent = u, ![c].rushed = r]
    PROVE  /\ SameStreams(c) /\ net'[c].urgent = u /\ net'[c].rushed = r
           /\ net'[c].datagrams = net[c].datagrams
  <1> DEFINE a == [net[c] EXCEPT !.urgent = u]
             b == [a EXCEPT !.rushed = r]
  <1>1. net[c] \in Nets
    BY DEF Types
  <1>2. a \in Nets /\ a.streams = net[c].streams /\ a.urgent = u /\ a.datagrams = net[c].datagrams
    BY <1>1 DEF Nets
  <1>3. net' = [net EXCEPT ![c] = b]
    OBVIOUS
  <1> HIDE DEF a
  <1>4. b \in Nets /\ b.streams = a.streams /\ b.urgent = u /\ b.rushed = r /\ b.datagrams = a.datagrams
    BY <1>2 DEF Nets
  <1> HIDE DEF b
  <1>5. net' \in [Conns -> Nets] /\ net'[c] = b /\ \A d \in Conns : d # c => net'[d] = net[d]
    <2>1. net \in [Conns -> Nets]
      BY DEF Types
    <2> QED
      BY <1>3, <1>4, <2>1, ZenonT(60), SMTT(60)
  <1> QED
    BY <1>2, <1>4, <1>5 DEF SameStreams

LEMMA ReadDatagramKeeps ==
    ASSUME IInv, NEW c \in Conns, NEW e \in 1..EpochMax, ReadDatagram(c, e)
    PROVE  IInv'
  <1> DEFINE g == Frame("Motion", e, 0)
             m == [net[c] EXCEPT !.datagrams = net[c].datagrams \ {e}]
  <1>0. /\ Types /\ Open(c) /\ e \in net[c].datagrams /\ e # 0 /\ e \in Epochs
        /\ net' = [net EXCEPT ![c] = m] /\ UNCHANGED <<sendVars, recvVars, queue, worker, current, mainVars, session>>
        /\ \/ inbound[c].active = e /\ mailbox' = [mailbox EXCEPT ![c] = g]
           \/ UNCHANGED mailbox
    BY LanesConstantsAssumption DEF ReadDatagram, IInv, Epochs
  <1>1. m \in Nets /\ m.streams = net[c].streams /\ m.urgent = net[c].urgent /\ m.rushed = net[c].rushed
        /\ m.datagrams \subseteq net[c].datagrams
    BY Known DEF Nets
  <1> HIDE DEF m
  <1>2. SameStreams(c) /\ net'[c] = m
    BY <1>0, <1>1 DEF Types, SameStreams
  <1>3. g \in Frames /\ g.epoch = e /\ g.kind = "Motion"
    BY <1>0, FramesTyped DEF Frame
  <1>4. mailbox' \in [Conns -> Frames] /\ \A d \in Conns : d # c => mailbox'[d] = mailbox[d]
    BY <1>0, <1>3, ZenonT(60), SMTT(60) DEF Types
  <1>5. mailbox'[c] = mailbox[c] \/ (mailbox'[c] = g /\ inbound[c].active = e)
    BY <1>0 DEF Types
  <1>6. ReadingStep(c)
    <2>1. Received(c)
      BY <1>0, Unsettled
    <2> QED
      BY <1>0, <1>2, <1>4, <2>1 DEF ReadingStep, SameStreams, Types
  <1>7. Types'
    BY <1>0, <1>6, ReadingTypes
  <1>8. inbound'[c] = inbound[c] /\ releases'[c] = releases[c] /\ phase'[c] = phase[c] /\ queue'[c] = queue[c]
        /\ worker'[c] = worker[c] /\ lane'[c] = lane[c]
    BY <1>0 DEF recvVars, sendVars
  <1>9. /\ Streams(c)' = Streams(c) /\ net'[c].streams = net[c].streams /\ OwnedOnce(c)'
        /\ \A f : InReader(c, f)' <=> InReader(c, f)
    BY <1>2, StreamsStay, Known DEF SameStreams
  <1>10. \A f : OnItsWay(c, f)' <=> OnItsWay(c, f)
    BY <1>8, <1>9 DEF OnItsWay, InHand, InQueue
  <1>11. Kinds(c)'
    BY <1>0, <1>1, <1>2, <1>3, <1>5, <1>8, <1>9, Known DEF Kinds
  <1>12. HeardOf(c)'
    BY <1>0, <1>1, <1>2, <1>3, <1>5, <1>8, <1>9, Known, SMTT(60), ZenonT(60) DEF HeardOf, Heard, Open
  <1>13. SenderKnows(c)'
    BY <1>1, <1>2, <1>8, <1>9, Known, ZenonT(60), SMTT(60) DEF SenderKnows, Accounted, Open
  <1>14. Row(c)'
    BY <1>0, <1>7, <1>8, <1>9, RowKeeps, Known DEF sendVars
  <1>15. AllAnswered(c)'
    <2>1. ASSUME NEW x \in Nat, Answered(c, x) PROVE Answered(c, x)'
      BY <1>1, <1>2, <1>8, <1>10, <2>1 DEF Answered, Open
    <2>2. ASSUME NEW f \in Frames, OnItsWay(c, f)' \/ mailbox'[c] = f
          PROVE  OnItsWay(c, f) \/ mailbox[c] = f \/ Answered(c, f.epoch)'
      <3>1. CASE mailbox'[c] = f /\ mailbox'[c] = g /\ inbound[c].active = e
        BY <1>3, <1>8, <3>1 DEF Answered
      <3> QED
        BY <1>5, <1>10, <2>2, <3>1
    <2> QED
      BY <1>0, <2>1, <2>2, Known, AnswersKeep DEF sendVars
  <1>16. peer[c] # None
    BY <1>0, Made DEF Open
  <1> QED
    BY <1>6, <1>9, <1>11, <1>12, <1>13, <1>14, <1>15, <1>16, ReadingStepKeeps DEF Local

\* A step of the emergency lane: what happens to the streams of c is nothing.
LEMMA UrgentStepKeeps ==
    ASSUME IInv, NEW c \in Conns, ReadingStep(c), SameStreams(c), peer[c] # None,
           net'[c].urgent \subseteq net[c].urgent, net'[c].datagrams = net[c].datagrams,
           0 \notin net'[c].rushed, \A e \in net'[c].rushed : e <= inbound'[c].retired,
           UNCHANGED mailbox,
           \/ queue'[c] = queue[c]
           \/ \E e \in Epochs :
                 /\ e # 0 /\ e <= inbound'[c].retired
                 /\ Frame("ReleaseAll", e, 0) \in Frames
                 /\ queue'[c] = Append(queue[c], Frame("ReleaseAll", e, 0)),
           inbound'[c].retired >= inbound[c].retired, Heard(c)' >= Heard(c),
           releases'[c].high <= inbound'[c].retired, inbound'[c].terminal => ~Open(c)',
           \/ inbound'[c].active = 0
           \/ inbound'[c].active = inbound[c].active /\ inbound'[c].last = inbound[c].last,
           Open(c)' => /\ \A e \in net[c].urgent : e \in net'[c].urgent \/ e <= inbound'[c].retired
                       /\ inbound'[c].active # 0 /\ inbound[c].active \in net[c].urgent
                            => inbound[c].active \in net'[c].urgent
                       /\ Serving(c) => \A x \in Nat :
                            x >= session.epoch /\ Answered(c, x) => Answered(c, x)'
    PROVE  IInv'
  <1>1. Types'
    BY ReadingTypes, Known
  <1>2. /\ Streams(c)' = Streams(c) /\ net'[c].streams = net[c].streams /\ OwnedOnce(c)'
        /\ \A f : InReader(c, f)' <=> InReader(c, f)
    BY StreamsStay, Known DEF SameStreams
  <1>3. UNCHANGED <<peer, current, session, worker, lane>>
    BY DEF ReadingStep, sendVars
  <1>4. \/ queue'[c] = queue[c]
        \/ \E g \in Frames : /\ ~Input(g) /\ g.kind = "ReleaseAll" /\ g.epoch # 0 /\ g.epoch <= inbound'[c].retired
                             /\ queue'[c] = Append(queue[c], g)
    BY DEF Input, Frame
  <1>5. \/ queue'[c] = queue[c]
        \/ \E g \in Frames :
              /\ g.kind = "ReleaseAll" /\ g.epoch # 0 /\ g.epoch <= inbound'[c].retired
              /\ DOMAIN queue[c] = 1..Len(queue[c]) /\ DOMAIN queue'[c] = 1..Len(queue[c]) + 1
              /\ Len(queue[c]) \in Nat
              /\ \A k \in 1..Len(queue[c]) : queue'[c][k] = queue[c][k]
              /\ queue'[c][Len(queue[c]) + 1] = g
    BY <1>4, Known, Appends
  <1>6. \A k \in DOMAIN queue'[c] :
           \/ k \in DOMAIN queue[c] /\ queue'[c][k] = queue[c][k]
           \/ /\ queue'[c][k].kind = "ReleaseAll" /\ queue'[c][k].epoch # 0 /\ queue'[c][k] \in Frames
              /\ queue'[c][k].epoch <= inbound'[c].retired
    <2>1. CASE queue'[c] = queue[c]
      BY <2>1
    <2>2. CASE \E g \in Frames :
              /\ g.kind = "ReleaseAll" /\ g.epoch # 0 /\ g.epoch <= inbound'[c].retired
              /\ DOMAIN queue[c] = 1..Len(queue[c]) /\ DOMAIN queue'[c] = 1..Len(queue[c]) + 1
              /\ Len(queue[c]) \in Nat
              /\ \A k \in 1..Len(queue[c]) : queue'[c][k] = queue[c][k]
              /\ queue'[c][Len(queue[c]) + 1] = g
      BY <2>2
    <2> QED
      BY <1>5, <2>1, <2>2
  <1>7. Kinds(c)'
    <2>1. 0 \notin net'[c].urgent \cup net'[c].rushed \cup net'[c].datagrams
      BY Known DEF Kinds
    <2>2. mailbox'[c] = mailbox[c] /\ worker'[c] = worker[c]
      BY <1>3
    <2> QED
      BY <1>2, <1>6, <2>1, <2>2, Known DEF Kinds
  <1>8. inbound'[c].retired \in Nat /\ inbound'[c].active \in Nat /\ Heard(c)' \in Nat /\ Heard(c)' >= inbound'[c].retired
    BY <1>1, LanesConstantsAssumption DEF Types, Inbounds, Epochs, Heard, Larger
  <1>9. HeardOf(c)'
    <2>1. \A j \in Streams(c)' :
             net'[c].streams[j].epoch <= Heard(c)' /\ net'[c].streams[j].held.epoch <= Heard(c)'
      <3>1. \A j \in Streams(c) : net[c].streams[j].epoch \in Nat /\ net[c].streams[j].held.epoch \in Nat
        BY Known, StreamsTyped DEF Streams
      <3> QED
        BY <1>2, <1>8, <3>1, Known, SMTT(60), ZenonT(60) DEF HeardOf
    <2>2. \A k \in DOMAIN queue'[c] :
               \/ k \in DOMAIN queue[c] /\ queue'[c][k] = queue[c][k]
               \/ /\ queue'[c][k].epoch <= Heard(c)'
                  /\ queue'[c][k].kind = "ReleaseAll" => queue'[c][k].epoch <= inbound'[c].retired
      BY <1>6, <1>8, Known
    <2>3. mailbox'[c].epoch <= Heard(c)'
      BY <1>8, Known DEF HeardOf
    <2> QED
      BY <1>1, <1>3, <2>1, <2>2, <2>3, Known, HeardKeeps
  <1>10. Row(c)'
    <2>1. queue'[c] = queue[c] \/ \E g \in Frames : ~Input(g) /\ queue'[c] = Append(queue[c], g)
      BY <1>4
    <2> QED
      BY <1>1, <1>2, <1>3, <2>1, RowKeeps, Known
  <1>11. SenderKnows(c)'
    <2> SUFFICES ASSUME Open(c)' PROVE SenderKnows(c)'
      BY DEF SenderKnows
    <2>1. Open(c)
      BY SMTT(60), ZenonT(60) DEF ReadingStep, Received
    <2>2. ASSUME NEW j \in Streams(c)
          PROVE  Accounted(c, net[c].streams[j], lane[c])'
      <3>1. Accounted(c, net[c].streams[j], lane[c])
        BY <2>1, Known DEF SenderKnows
      <3>2. \A k \in DOMAIN net[c].streams[j].frames : net[c].streams[j].frames[k].epoch \in Nat
        <4>1. net[c].streams[j].frames \in Seq(Frames)
          BY Known, StreamsTyped DEF Streams
        <4> QED
          BY <4>1, Known
      <3>3. inbound[c].retired \in Nat
        BY Known
      <3> QED
        BY <1>2, <1>3, <1>8, <3>1, <3>2, <3>3, StaysAccounted
    <2>3. inbound'[c].active # 0 => inbound'[c].active = lane'[c].active \/ inbound'[c].active \in net'[c].urgent
      BY <1>3, <2>1, Known DEF SenderKnows
    <2> QED
      BY <1>2, <1>3, <2>1, <2>2, <2>3, Known DEF SenderKnows
  <1>12. AllAnswered(c)'
    <2>1. CASE ~Open(c)'
      BY <2>1, ClosedOwesNothing
    <2>2. CASE Open(c)'
      <3>1. ASSUME NEW f \in Frames, OnItsWay(c, f)' \/ mailbox'[c] = f
            PROVE  OnItsWay(c, f) \/ mailbox[c] = f \/ Answered(c, f.epoch)'
        <4>1. CASE \E k \in DOMAIN queue'[c] : queue'[c][k] = f /\ ~InQueue(c, f)
          <5>1. PICK k \in DOMAIN queue'[c] : queue'[c][k] = f /\ ~InQueue(c, f)
            BY <4>1
          <5>2. f.kind = "ReleaseAll"
            BY <1>6, <5>1 DEF InQueue
          <5>3. OnItsWay(c, f)' /\ Ends(f, f.epoch)
            BY <5>1, <5>2 DEF OnItsWay, InQueue, Ends
          <5> QED
            BY <5>3 DEF Answered
        <4>2. CASE ~\E k \in DOMAIN queue'[c] : queue'[c][k] = f /\ ~InQueue(c, f)
          BY <1>2, <1>3, <3>1, <4>2 DEF OnItsWay, InHand, InQueue
        <4> QED
          BY <4>1, <4>2
      <3> QED
        BY <1>3, <2>2, <3>1, Known, AnswersKeep
    <2> QED
      BY <2>1, <2>2
  <1> QED
    BY <1>2, <1>7, <1>9, <1>10, <1>11, <1>12, ReadingStepKeeps DEF Local

LEMMA ReadUrgentKeeps ==
    ASSUME IInv, NEW c \in Conns, NEW e \in 1..EpochMax, ReadUrgent(c, e)
    PROVE  IInv'
  <1> DEFINE in == inbound[c]
             late == in.terminal \/ (e <= in.retired /\ in.active > e)
             wrong == ~late /\ (e <= in.retired \/ in.active \notin {0, e})
             taken == ~late /\ ~wrong
             blamed == IF e <= in.retired THEN e ELSE in.active
             u == net[c].urgent \ {e}
             r == IF taken THEN net[c].rushed \cup {e} ELSE net[c].rushed
  <1>0. /\ Types /\ Open(c) /\ e \in net[c].urgent /\ e \in Nat /\ e # 0 /\ e \in Epochs
        /\ UNCHANGED <<sendVars, laneVars, mainVars, session>>
        /\ net' = [net EXCEPT ![c].urgent = u, ![c].rushed = r]
        /\ \/ late /\ UNCHANGED recvVars
           \/ wrong /\ Settle(c, Terminalize(in), TRUE, blamed)
           \/ taken /\ Settle(c, RetireInbound(in, e), FALSE, 0)
    <2>1. e \in Nat /\ e # 0 /\ e \in Epochs
      BY LanesConstantsAssumption DEF Epochs
    <2>2. Types /\ Open(c) /\ e \in net[c].urgent /\ UNCHANGED <<sendVars, laneVars, mainVars, session>>
      BY DEF ReadUrgent, IInv
    <2>3. net' = [net EXCEPT ![c].urgent = u, ![c].rushed = r]
      BY Known DEF ReadUrgent, Nets, Types
    <2>4. \/ late /\ UNCHANGED recvVars
          \/ wrong /\ Settle(c, Terminalize(in), TRUE, blamed)
          \/ taken /\ Settle(c, RetireInbound(in, e), FALSE, 0)
      BY ZenonT(60), SMTT(60) DEF ReadUrgent
    <2> QED
      BY <2>1, <2>2, <2>3, <2>4
  <1>1. u \in SUBSET Epochs /\ r \in SUBSET Epochs /\ 0 \notin r
    BY <1>0, Known DEF Nets, Kinds
  <1>2. ~in.terminal
    BY <1>0, Known DEF HeardOf
  <1> HIDE DEF u, r
  <1>3. SameStreams(c) /\ net'[c].urgent = u /\ net'[c].rushed = r /\ net'[c].datagrams = net[c].datagrams
    BY <1>0, <1>1, UrgentSets
  <1> USE DEF u, r
  <1>4. peer[c] # None /\ mailbox'[c] = mailbox[c] /\ UNCHANGED <<mailbox, queue>>
    BY <1>0, Made DEF laneVars, Open
  <1>5. ASSUME Received(c) PROVE ReadingStep(c)
    BY <1>0, <1>3, <1>5 DEF ReadingStep, SameStreams, laneVars, Types
  <1>6. \A x \in net[c].rushed : x <= in.retired /\ x \in Nat
    BY Known, LanesConstantsAssumption DEF HeardOf, Nets, Epochs
  <1>7. \A f : OnItsWay(c, f)' <=> OnItsWay(c, f)
    BY <1>0, <1>3, StreamsStay DEF OnItsWay, InHand, InQueue, laneVars
  <1>8. CASE late /\ UNCHANGED recvVars
    <2>1. Received(c) /\ inbound'[c] = in /\ releases'[c] = releases[c] /\ Open(c)' /\ Heard(c)' = Heard(c)
      BY <1>0, <1>8, Unsettled DEF recvVars, Open, Heard
    <2>2. e <= in.retired /\ in.active > e /\ r = net[c].rushed
      BY <1>2, <1>8
    <2>3. ASSUME Serving(c), NEW x \in Nat, x >= session.epoch, Answered(c, x)
          PROVE  Answered(c, x)'
      <3>1. CASE e >= x
        <4>1. ~Reached(c, in.active, in.last + 1)
          BY <1>0, <2>2, <2>3, <3>1, Known DEF Reached
        <4>2. UpToLast(c)
          BY <2>3, Known DEF Row
        <4>3. PICK f \in Frames : Input(f) /\ OnItsWay(c, f) /\ f.epoch = in.active
          BY <1>0, <2>2, <4>1, <4>2, Known DEF UpToLast
        <4>4. Ends(f, x)
          BY <1>0, <2>2, <3>1, <4>3, Known DEF Ends
        <4> QED
          BY <1>7, <4>3, <4>4 DEF Answered
      <3>2. CASE ~(e >= x)
        <4>1. \A f \in net[c].urgent : f >= x => f \in net'[c].urgent
          BY <1>3, <3>2
        <4> QED
          BY <1>0, <1>3, <1>7, <2>1, <2>2, <2>3, <4>1 DEF Answered
      <3> QED
        BY <3>1, <3>2
    <2>4. in.active \in net[c].urgent => in.active \in net'[c].urgent
      BY <1>3, <2>2, Known
    <2>5. \A x \in net[c].urgent : x \in net'[c].urgent \/ x <= inbound'[c].retired
      BY <1>3, <2>1, <2>2
    <2>6. \A x \in net'[c].rushed : x <= inbound'[c].retired
      BY <1>3, <1>6, <2>1, <2>2
    <2>7. inbound'[c].retired >= inbound[c].retired /\ Heard(c)' >= Heard(c)
          /\ releases'[c].high <= inbound'[c].retired /\ ~inbound'[c].terminal
      BY <1>2, <2>1, Known
    <2>8. queue'[c] = queue[c] /\ net'[c].urgent \subseteq net[c].urgent
      BY <1>3, <1>4
    <2>9. 0 \notin net'[c].rushed
      BY <1>1, <1>3
    <2> QED
      BY <1>3, <1>4, <1>5, <2>1, <2>3, <2>4, <2>5, <2>6, <2>7, <2>8, <2>9, UrgentStepKeeps
  <1>9. CASE wrong /\ Settle(c, Terminalize(in), TRUE, blamed)
    <2>1. /\ Terminalize(in) \in Inbounds /\ Sane(Terminalize(in)) /\ Terminalize(in).active = 0
          /\ Terminalize(in).retired = Larger(in.retired, in.active)
      BY Known, TerminalTyped
    <2>2. blamed \in Epochs /\ blamed \in Nat /\ blamed <= Larger(in.retired, in.active)
      BY <1>0, Known DEF Larger
    <2> HIDE DEF blamed
    <2>3. /\ Received(c) /\ inbound'[c] = Terminalize(in) /\ ~Open(c)'
          /\ releases'[c].high = Larger(releases[c].high, blamed)
      BY <1>0, <1>9, <2>1, <2>2, Settles
    <2>4. /\ inbound'[c].retired >= in.retired /\ Heard(c)' >= Heard(c) /\ inbound'[c].active = 0
          /\ releases'[c].high <= inbound'[c].retired
      BY <2>1, <2>2, <2>3, Known DEF Heard, Larger
    <2>5. \A x \in net'[c].rushed : x <= inbound'[c].retired
      BY <1>3, <1>6, <1>9, <2>1, <2>3, <2>4, Known DEF Larger
    <2>6. queue'[c] = queue[c] /\ net'[c].urgent \subseteq net[c].urgent
      BY <1>3, <1>4
    <2>7. 0 \notin net'[c].rushed
      BY <1>1, <1>3
    <2> QED
      BY <1>3, <1>4, <1>5, <2>3, <2>4, <2>5, <2>6, <2>7, UrgentStepKeeps
  <1>10. CASE taken /\ Settle(c, RetireInbound(in, e), FALSE, 0)
    <2>0. in.active \in {0, e} /\ e > in.retired /\ r = net[c].rushed \cup {e}
      BY <1>0, <1>10, Known
    <2>1. /\ RetireInbound(in, e) \in Inbounds /\ Sane(RetireInbound(in, e))
          /\ RetireInbound(in, e).active = 0 /\ RetireInbound(in, e).retired = e
          /\ RetireInbound(in, e).terminal = in.terminal
      <3>1. RetireInbound(in, e) \in Inbounds /\ Sane(RetireInbound(in, e))
        BY <1>0, Known, InboundsTyped
      <3>2. RetireInbound(in, e) = [active |-> IF in.active <= e THEN 0 ELSE in.active, last |-> in.last,
                                   retired |-> Larger(in.retired, e), terminal |-> in.terminal]
        BY <1>0, Known, RetiresInbound
      <3> QED
        BY <1>0, <2>0, <3>1, <3>2, Known DEF Larger
    <2>2. /\ Received(c) /\ inbound'[c] = RetireInbound(in, e) /\ Open(c)'
          /\ releases'[c].high = Larger(releases[c].high, 0)
      BY <1>0, <1>10, <2>1, Known, Settles, ZenonT(60), SMTT(60)
    <2>3. /\ inbound'[c].retired >= in.retired /\ Heard(c)' >= Heard(c) /\ inbound'[c].active = 0
          /\ releases'[c].high <= inbound'[c].retired /\ ~inbound'[c].terminal
      BY <1>0, <1>2, <2>0, <2>1, <2>2, Known DEF Heard, Larger
    <2>4. \A x \in net'[c].rushed : x <= inbound'[c].retired
      BY <1>0, <1>3, <1>6, <2>0, <2>1, <2>2, Known
    <2>5. ASSUME NEW x \in Nat, Answered(c, x)
          PROVE  Answered(c, x)'
      <3>1. e \in net'[c].rushed
        BY <1>3, <2>0
      <3>2. \A f \in net[c].urgent \cup net[c].rushed : f \in net'[c].urgent \cup net'[c].rushed
        BY <1>3, <2>0
      <3>3. CASE in.active = x
        <4>1. e >= x
          BY <1>0, <2>0, <3>3
        <4> QED
          BY <3>1, <4>1 DEF Answered
      <3>4. CASE in.active # x
        BY <1>0, <1>7, <2>5, <3>2, <3>4 DEF Answered
      <3> QED
        BY <3>3, <3>4
    <2>6. \A x \in net[c].urgent : x \in net'[c].urgent \/ x <= inbound'[c].retired
      <3>1. inbound'[c].retired = e /\ e <= e
        BY <1>0, <2>1, <2>2
      <3>2. \A x \in net[c].urgent : x \in net'[c].urgent \/ x = e
        BY <1>3
      <3> QED
        BY <3>1, <3>2
    <2>7. queue'[c] = queue[c] /\ net'[c].urgent \subseteq net[c].urgent
      BY <1>3, <1>4
    <2>8. 0 \notin net'[c].rushed
      BY <1>1, <1>3
    <2> QED
      BY <1>3, <1>4, <1>5, <2>2, <2>3, <2>4, <2>5, <2>6, <2>7, <2>8, UrgentStepKeeps
  <1> QED
    BY <1>0, <1>8, <1>9, <1>10

LEMMA FailsDelivery ==
    ASSUME IInv, NEW c \in Conns, NEW e \in Epochs, e <= Heard(c), FailDelivery(c, e)
    PROVE  /\ Received(c) /\ inbound'[c].active = 0 /\ inbound'[c].retired >= Heard(c) /\ ~Open(c)'
           /\ releases'[c].high <= inbound'[c].retired /\ Heard(c)' = inbound'[c].retired
           /\ inbound'[c].retired \in Nat
  <1> DEFINE in == inbound[c]
             owed == IF in.active # 0 THEN in.active ELSE e
             told == IF in.terminal THEN 0 ELSE owed
  <1>1. /\ Terminalize(in) \in Inbounds /\ Sane(Terminalize(in)) /\ Terminalize(in).active = 0
        /\ Terminalize(in).retired = Larger(in.retired, in.active)
    BY Known, TerminalTyped
  <1>2. told \in Epochs /\ told \in Nat /\ told <= Heard(c)
    BY Known, LanesConstantsAssumption DEF Epochs
  <1>3. Settle(c, Terminalize(in), TRUE, told)
    BY DEF FailDelivery
  <1> HIDE DEF told
  <1>4. /\ Received(c) /\ inbound'[c] = Terminalize(in) /\ ~Open(c)'
        /\ releases'[c].high = Larger(releases[c].high, told)
    BY <1>1, <1>2, <1>3, Known, Settles
  <1> QED
    BY <1>1, <1>2, <1>4, Known DEF Heard, Larger

LEMMA QueueUrgentKeeps ==
    ASSUME IInv, NEW c \in Conns, NEW e \in 1..EpochMax, QueueUrgent(c, e)
    PROVE  IInv'
  <1> DEFINE g == Frame("ReleaseAll", e, 0)
             r == net[c].rushed \ {e}
  <1>0. /\ Types /\ e \in net[c].rushed /\ e \in Nat /\ e # 0 /\ e \in Epochs
        /\ UNCHANGED <<sendVars, mailbox, worker, current, mainVars, session>>
        /\ net' = [net EXCEPT ![c].rushed = r]
        /\ \/ /\ HasRoom(c) /\ queue' = [queue EXCEPT ![c] = Append(queue[c], g)]
              /\ Settle(c, inbound[c], FALSE, e)
           \/ FailDelivery(c, e) /\ UNCHANGED queue
    <2>1. e \in Nat /\ e # 0 /\ e \in Epochs
      BY LanesConstantsAssumption DEF Epochs
    <2>2. Types /\ e \in net[c].rushed /\ UNCHANGED <<sendVars, mailbox, worker, current, mainVars, session>>
      BY DEF QueueUrgent, IInv
    <2>3. net' = [net EXCEPT ![c].rushed = r]
      BY DEF QueueUrgent
    <2>4. \/ /\ HasRoom(c) /\ queue' = [queue EXCEPT ![c] = Append(queue[c], g)]
             /\ Settle(c, inbound[c], FALSE, e)
          \/ FailDelivery(c, e) /\ UNCHANGED queue
      BY DEF QueueUrgent
    <2> QED
      BY <2>1, <2>2, <2>3, <2>4
  <1>1. net[c].urgent \in SUBSET Epochs /\ r \in SUBSET Epochs /\ 0 \notin r
    BY <1>0, Known DEF Nets, Kinds
  <1>2. net' = [net EXCEPT ![c].urgent = net[c].urgent, ![c].rushed = r]
    <2>1. net[c] = [net[c] EXCEPT !.urgent = net[c].urgent]
      BY Known DEF Nets
    <2>2. [net[c] EXCEPT !.rushed = r] = [[net[c] EXCEPT !.urgent = net[c].urgent] EXCEPT !.rushed = r]
      BY <2>1, ZenonT(60), SMTT(60)
    <2> QED
      BY <1>0, <2>2
  <1>3. SameStreams(c) /\ net'[c].urgent = net[c].urgent /\ net'[c].rushed = r /\ net'[c].datagrams = net[c].datagrams
    <2> HIDE DEF r
    <2> QED
      BY <1>0, <1>1, <1>2, UrgentSets
  <1>4. peer[c] # None
    BY <1>0, Made
  <1>5. \A x \in net[c].rushed : x <= inbound[c].retired /\ x \in Nat
    BY Known, LanesConstantsAssumption DEF HeardOf, Nets, Epochs
  <1>6. g \in Frames /\ g.epoch = e /\ g.kind = "ReleaseAll"
    BY <1>0, FramesTyped DEF Frame
  <1>7. 0 \notin net'[c].rushed /\ net'[c].urgent \subseteq net[c].urgent
    BY <1>1, <1>3
  <1>8. CASE /\ HasRoom(c) /\ queue' = [queue EXCEPT ![c] = Append(queue[c], g)]
             /\ Settle(c, inbound[c], FALSE, e)
    <2> HIDE DEF g
    <2>1. /\ Received(c) /\ inbound'[c] = inbound[c] /\ (Open(c)' <=> Open(c))
          /\ releases'[c].high = Larger(releases[c].high, e)
      BY <1>0, <1>8, Known, Settles
    <2>2. queue' \in [Conns -> Seq(Frames)] /\ queue'[c] = Append(queue[c], g)
          /\ \A d \in Conns : d # c => queue'[d] = queue[d]
      BY <1>6, <1>8, Known, Appends DEF Types
    <2>3. \A d \in Conns : Len(queue'[d]) <= QueueCap
      BY <1>6, <1>8, <2>2, Known, Appends, LanesConstantsAssumption DEF Types, HasRoom
    <2>4. ReadingStep(c)
      BY <1>0, <1>3, <2>1, <2>2, <2>3 DEF ReadingStep, SameStreams, Types
    <2>5. /\ inbound'[c].retired >= inbound[c].retired /\ Heard(c)' >= Heard(c)
          /\ releases'[c].high <= inbound'[c].retired /\ (inbound'[c].terminal => ~Open(c)')
      BY <1>0, <1>5, <2>1, Known DEF Heard, Larger, HeardOf
    <2>6. \A x \in net'[c].rushed : x <= inbound'[c].retired
      BY <1>3, <1>5, <2>1
    <2>7. ASSUME NEW x \in Nat, Answered(c, x), Open(c)'
          PROVE  Answered(c, x)'
      <3>1. DOMAIN queue[c] = 1..Len(queue[c]) /\ DOMAIN queue'[c] = 1..Len(queue[c]) + 1 /\ Len(queue[c]) \in Nat
            /\ queue'[c][Len(queue[c]) + 1] = g /\ \A k \in 1..Len(queue[c]) : queue'[c][k] = queue[c][k]
        BY <1>6, <2>2, Known, Appends
      <3>2. \A k \in DOMAIN queue[c] : k \in DOMAIN queue'[c] /\ queue'[c][k] = queue[c][k]
        BY <3>1
      <3>3. \A f : OnItsWay(c, f) => OnItsWay(c, f)'
        <4>1. \A f : InQueue(c, f) => InQueue(c, f)'
          BY <3>2 DEF InQueue
        <4>2. \A f : InReader(c, f) => InReader(c, f)'
          BY <1>3, StreamsStay
        <4>3. \A f : InHand(c, f) => InHand(c, f)'
          BY <1>0 DEF InHand
        <4> QED
          BY <4>1, <4>2, <4>3 DEF OnItsWay
      <3>4. OnItsWay(c, g)'
        <4>1. Len(queue[c]) + 1 \in DOMAIN queue'[c]
          BY <3>1
        <4> QED
          BY <3>1, <4>1 DEF OnItsWay, InQueue
      <3>5. CASE e >= x
        <4>1. Ends(g, x)
          BY <1>0, <1>6, <3>5 DEF Ends
        <4> QED
          BY <1>6, <3>4, <4>1 DEF Answered
      <3>6. CASE ~(e >= x)
        <4>1. \A f \in net[c].urgent \cup net[c].rushed : f >= x => f \in net'[c].urgent \cup net'[c].rushed
          BY <1>3, <3>6
        <4> QED
          BY <2>1, <2>7, <3>3, <4>1 DEF Answered
      <3> QED
        BY <3>5, <3>6
    <2>8. \E x \in Epochs : /\ x # 0 /\ x <= inbound'[c].retired
                            /\ Frame("ReleaseAll", x, 0) \in Frames
                            /\ queue'[c] = Append(queue[c], Frame("ReleaseAll", x, 0))
      BY <1>0, <1>5, <1>6, <2>1, <2>2 DEF g
    <2>9. UNCHANGED mailbox /\ (\A x \in net[c].urgent : x \in net'[c].urgent)
      BY <1>0, <1>3
    <2> QED
      BY <1>3, <1>4, <1>7, <2>1, <2>4, <2>5, <2>6, <2>7, <2>8, <2>9, UrgentStepKeeps
  <1>9. CASE FailDelivery(c, e) /\ UNCHANGED queue
    <2>1. /\ Received(c) /\ inbound'[c].active = 0 /\ inbound'[c].retired >= Heard(c) /\ ~Open(c)'
          /\ releases'[c].high <= inbound'[c].retired /\ Heard(c)' = inbound'[c].retired
          /\ inbound'[c].retired \in Nat
      BY <1>0, <1>5, <1>9, Known, FailsDelivery
    <2>2. ReadingStep(c)
      BY <1>0, <1>3, <1>9, <2>1 DEF ReadingStep, SameStreams, Types
    <2>3. inbound'[c].retired >= inbound[c].retired /\ Heard(c)' >= Heard(c)
      BY <2>1, Known
    <2>4. \A x \in net'[c].rushed : x <= inbound'[c].retired
      BY <1>3, <1>5, <2>1, Known
    <2> QED
      BY <1>0, <1>3, <1>4, <1>7, <1>9, <2>1, <2>2, <2>3, <2>4, UrgentStepKeeps
  <1> QED
    BY <1>0, <1>8, <1>9

LEMMA Empties ==
    ASSUME NEW n \in Nets, NEW t
    PROVE  [n EXCEPT !.urgent = {}, !.datagrams = {}, !.streams = t]
             = [streams |-> t, urgent |-> {}, rushed |-> n.rushed, datagrams |-> {}]
  <1> DEFINE a == [streams |-> n.streams, urgent |-> {}, rushed |-> n.rushed, datagrams |-> n.datagrams]
             b == [streams |-> n.streams, urgent |-> {}, rushed |-> n.rushed, datagrams |-> {}]
             m == [streams |-> t, urgent |-> {}, rushed |-> n.rushed, datagrams |-> {}]
  <1>1. [n EXCEPT !.urgent = {}] = a
    BY DEF Nets
  <1>2. [n EXCEPT !.urgent = {}, !.datagrams = {}, !.streams = t]
          = [[a EXCEPT !.datagrams = {}] EXCEPT !.streams = t]
    BY <1>1, ZenonT(60), SMTT(60)
  <1>3. [a EXCEPT !.datagrams = {}] = b
    OBVIOUS
  <1>4. [[a EXCEPT !.datagrams = {}] EXCEPT !.streams = t] = [b EXCEPT !.streams = t]
    BY <1>3, ZenonT(60), SMTT(60)
  <1>5. [b EXCEPT !.streams = t] = m
    OBVIOUS
  <1> HIDE DEF a, b, m
  <1>6. [n EXCEPT !.urgent = {}, !.datagrams = {}, !.streams = t] = m
    BY <1>2, <1>4, <1>5
  <1> QED
    BY <1>6 DEF m

LEMMA ConnectionEndsKeeps ==
    ASSUME IInv, NEW c \in Conns, ConnectionEnds(c)
    PROVE  IInv'
  <1> USE DEF laneVars, mainVars
  <1> DEFINE in == inbound[c]
             left(i) == [Ended EXCEPT !.held = net[c].streams[i].held]
             t == [i \in Streams(c) |-> left(i)]
             m == [streams |-> t, urgent |-> {}, rushed |-> net[c].rushed, datagrams |-> {}]
             r == Emitted(releases[c], in.active)
  <1>0. /\ Types /\ phase[c] = "closed" /\ phase' = [phase EXCEPT ![c] = "ended"]
        /\ inbound' = [inbound EXCEPT ![c] = Terminalize(in)]
        /\ releases' = [releases EXCEPT ![c] = r]
        /\ lane' = [lane EXCEPT ![c] = FreshLane] /\ sent' = [sent EXCEPT ![c] = 0]
        /\ UNCHANGED <<peer, entered, sends, laneVars, mainVars, session>>
    BY DEF ConnectionEnds, IInv
  <1>1. /\ Terminalize(in) \in Inbounds /\ Sane(Terminalize(in)) /\ Terminalize(in).active = 0
        /\ Terminalize(in).retired = Larger(in.retired, in.active)
    BY Known, TerminalTyped
  <1>2. r \in Emitters /\ r.due \subseteq 1..r.high /\ r.high = Larger(releases[c].high, in.active)
    BY Known, Emits DEF Types
  <1>3. \A i \in Streams(c) : left(i) \in StreamStates /\ left(i).frames = <<>> /\ left(i).epoch = 0
                              /\ left(i).held = net[c].streams[i].held
    <2> SUFFICES ASSUME NEW i \in Streams(c), NEW h, h = net[c].streams[i].held
                 PROVE  LET x == [Ended EXCEPT !.held = h]
                        IN  x \in StreamStates /\ x.frames = <<>> /\ x.epoch = 0 /\ x.held = h
      OBVIOUS
    <2>1. h \in Frames
      BY Known, StreamsTyped DEF Streams
    <2>2. Ended \in StreamStates /\ Ended.frames = <<>> /\ Ended.epoch = 0
      <3>1. <<>> \in Seq(Frames)
        OBVIOUS
      <3> QED
        BY <3>1, FramesTyped DEF Ended, StreamStates
    <2> QED
      BY <2>1, <2>2 DEF StreamStates
  <1> HIDE DEF left
  <1>4. t \in Seq(StreamStates) /\ DOMAIN t = Streams(c)
    <2>1. Streams(c) = 1..Len(net[c].streams) /\ Len(net[c].streams) \in Nat
      BY Known DEF Nets, Streams
    <2> QED
      BY <1>3, <2>1
  <1>5. m \in Nets
    BY <1>4, Known DEF Nets
  <1>6. net' = [net EXCEPT ![c] = m]
    <2>1. \A i \in Streams(c) : left(i) = [Ended EXCEPT !.held = net[c].streams[i].held]
      BY DEF left
    <2>2. [net[c] EXCEPT !.urgent = {}, !.datagrams = {}, !.streams = t] = m
      BY Known, Empties
    <2>3. net' = [net EXCEPT ![c] = [net[c] EXCEPT !.urgent = {}, !.datagrams = {},
                    !.streams = [i \in Streams(c) |-> [Ended EXCEPT !.held = net[c].streams[i].held]]]]
      BY DEF ConnectionEnds
    <2>4. t = [i \in Streams(c) |-> [Ended EXCEPT !.held = net[c].streams[i].held]]
      BY <2>1
    <2> HIDE DEF t, m
    <2> QED
      BY <2>2, <2>3, <2>4
  <1>7. /\ m.streams = t /\ m.urgent = {} /\ m.rushed = net[c].rushed /\ m.datagrams = {}
        /\ \A i \in Streams(c) : t[i] = left(i)
    OBVIOUS
  <1> HIDE DEF m, t, r
  <1>8. /\ net' \in [Conns -> Nets] /\ net'[c] = m /\ \A d \in Conns : d # c => net'[d] = net[d]
    <2>1. net \in [Conns -> Nets]
      BY <1>0 DEF Types
    <2> QED
      BY <1>5, <1>6, <2>1
  <1>9. /\ inbound' \in [Conns -> Inbounds] /\ inbound'[c] = Terminalize(in)
        /\ \A d \in Conns : d # c => inbound'[d] = inbound[d]
    BY <1>0, <1>1 DEF Types
  <1>10. /\ releases' \in [Conns -> Emitters] /\ releases'[c] = r
         /\ \A d \in Conns : d # c => releases'[d] = releases[d]
    BY <1>0, <1>2 DEF Types
  <1>11. FreshLane \in LaneStates(Epochs)
    BY Known DEF FreshLane, LaneStates
  <1>12. /\ lane' \in [Conns -> LaneStates(Epochs)] /\ sent' \in [Conns -> 0..SendMax]
         /\ \A d \in Conns : sent'[d] <= sends
         /\ \A d \in Conns : d # c => lane'[d] = lane[d]
    BY <1>0, <1>11, FramesTyped, LanesConstantsAssumption DEF Types
  <1>13. Types'
    BY <1>0, <1>1, <1>2, <1>8, <1>9, <1>10, <1>12 DEF Types
  <1>14. ~Open(c)' /\ phase'[c] = "ended" /\ \A d \in Conns : d # c => phase'[d] = phase[d]
    BY <1>0 DEF Types, Open
  <1>15. NetStep(c)
    <2>1. peer[c] # None
      BY <1>0, Made
    <2> QED
      BY <1>0, <1>8, <1>9, <1>10, <1>12, <1>14, <2>1 DEF NetStep, Same
  <1>16. /\ Streams(c)' = Streams(c)
         /\ \A i \in Streams(c) : /\ net'[c].streams[i].frames = <<>> /\ net'[c].streams[i].epoch = 0
                                  /\ net'[c].streams[i].held = net[c].streams[i].held
    BY <1>3, <1>4, <1>7, <1>8 DEF Streams
  <1>17. Kinds(c)'
    <2>1. Kinds(c)
      BY Known
    <2>2. \A i \in Streams(c)' :
              /\ LET s == net'[c].streams[i].frames IN  \A k \in DOMAIN s : WellWritten(s[k])
              /\ net'[c].streams[i].held = NoFrame \/ WellWritten(net'[c].streams[i].held)
      <3>1. \A i \in Streams(c) : net[c].streams[i].held = NoFrame \/ WellWritten(net[c].streams[i].held)
        BY <2>1 DEF Kinds
      <3>2. DOMAIN <<>> = {}
        OBVIOUS
      <3> QED
        BY <1>16, <3>1, <3>2
    <2>3. 0 \notin net'[c].urgent \cup net'[c].rushed \cup net'[c].datagrams
      BY <1>7, <1>8, <2>1 DEF Kinds
    <2>4. queue' = queue /\ mailbox' = mailbox /\ worker' = worker
      BY <1>0
    <2> QED
      BY <2>1, <2>2, <2>3, <2>4 DEF Kinds
  <1>18. OwnedOnce(c)'
    <2>1. \A i \in Streams(c), e \in 1..EpochMax :
               Owns(net'[c].streams[i], e) => Owns(net[c].streams[i], e)
      BY <1>16 DEF Owns
    <2> QED
      BY <1>16, <2>1, Known, FewerOwners
  <1>19. \A f : InReader(c, f)' <=> InReader(c, f)
    BY <1>16 DEF InReader
  <1>20. Row(c)'
    BY <1>0, <1>1, <1>9, <1>13, <1>19, RowKeeps, Known
  <1>21. HeardOf(c)'
    <2>1. inbound'[c].retired = Heard(c) /\ Heard(c)' = Heard(c) /\ inbound'[c].retired >= in.retired
      BY <1>1, <1>9, Known DEF Heard, Larger
    <2>2. releases'[c].high <= inbound'[c].retired
      BY <1>1, <1>2, <1>9, <1>10, Known DEF Larger
    <2>3. \A i \in Streams(c)' :
             net'[c].streams[i].epoch <= Heard(c)' /\ net'[c].streams[i].held.epoch <= Heard(c)'
      BY <1>16, <2>1, Known DEF HeardOf
    <2>4. \A e \in net'[c].rushed : e <= inbound'[c].retired
      <3>1. \A e \in net[c].rushed : e \in Nat
        BY Known, LanesConstantsAssumption DEF Nets, Epochs
      <3> QED
        BY <1>7, <1>8, <2>1, <3>1, Known DEF HeardOf
    <2>5. Heard(c)' >= Heard(c) /\ mailbox'[c].epoch <= Heard(c)'
      BY <1>0, <2>1, Known DEF HeardOf
    <2> QED
      BY <1>0, <1>13, <1>14, <2>1, <2>2, <2>3, <2>4, <2>5, Known, HeardKeeps
  <1>22. AllAnswered(c)' /\ SenderKnows(c)'
    BY <1>14, ClosedOwesNothing
  <1> QED
    BY <1>13, <1>15, <1>17, <1>18, <1>20, <1>21, <1>22, NetStepKeeps DEF Local

LEMMA AcceptedRow ==
    ASSUME IInv, NEW c \in Conns, UNCHANGED <<peer, current, session, worker, queue>>,
           NEW f \in Frames, WellWritten(f), NEW v, Starts(inbound[c], f, v), inbound'[c] = v.in,
           v.in \in Inbounds,
           \A g \in Frames : Input(g) => (InReader(c, g)' <=> InReader(c, g) \/ g = f)
    PROVE  Row(c)'
  <1> DEFINE in == inbound[c]
  <1>0. /\ Row(c) /\ f.epoch # 0 /\ Input(f) /\ (f.kind = "Enter" => f.seq = 0)
        /\ \A g \in Frames : g.seq \in Nat
        /\ v.in.active = f.epoch /\ v.in.last = f.seq
        /\ \/ f.kind = "Enter" /\ f.epoch > Heard(c)
           \/ f.kind # "Enter" /\ in.active = f.epoch /\ f.seq = in.last + 1
    BY Known, LanesConstantsAssumption DEF Starts, WellWritten, Frames, Heard, Larger
  <1>1. \A g \in Frames : Input(g) => (OnItsWay(c, g)' <=> OnItsWay(c, g) \/ g = f)
    BY DEF OnItsWay, InHand, InQueue
  <1>2. \A g \in Frames : OnItsWay(c, g) => g.epoch <= Heard(c)
    BY Known DEF OnItsWay, InHand, InQueue, InReader, HeardOf
  <1>3. session.owner = c => session.epoch <= Heard(c)
    BY Known DEF HeardOf
  <1>4. in.last \in Nat
    BY Known, LanesConstantsAssumption DEF Inbounds
  <1>5. HandFits(c)'
    BY <1>0 DEF Row, HandFits, Reached, NotPast
  <1>6. Serving(c)' <=> Serving(c)
    BY DEF Serving, IsCurrent
  <1>7. ASSUME Serving(c) PROVE Gapless(c)' /\ InOrder(c)' /\ UpToLast(c)'
    <2>0. Gapless(c) /\ InOrder(c) /\ UpToLast(c)
      BY <1>0, <1>7 DEF Row
    <2>1. ASSUME NEW g \in Frames, Input(g), OnItsWay(c, g)'
          PROVE  Follows(c, g)' /\ NotPast(c, g)' /\ (g.epoch = inbound'[c].active => g.seq <= inbound'[c].last)
      <3>1. CASE OnItsWay(c, g)
        <4>1. Follows(c, g) /\ NotPast(c, g) /\ (g.epoch = in.active => g.seq <= in.last)
          BY <2>0, <2>1, <3>1 DEF Gapless
        <4>2. Follows(c, g)'
          BY <1>1, <4>1 DEF Follows, Reached
        <4>3. g.epoch = inbound'[c].active => g.seq <= inbound'[c].last
          BY <1>0, <1>2, <1>4, <3>1, <4>1, Known
        <4> QED
          BY <4>1, <4>2, <4>3 DEF NotPast
      <3>2. CASE g = f
        <4>1. CASE f.kind = "Enter" /\ f.epoch > Heard(c)
          <5>1. f.seq = 0
            BY <1>0, <4>1
          <5>2. NotPast(c, f)'
            BY <1>3, <4>1, Known DEF NotPast
          <5> QED
            BY <1>0, <3>2, <5>1, <5>2 DEF Follows
        <4>2. CASE f.kind # "Enter" /\ in.active = f.epoch /\ f.seq = in.last + 1
          <5>1. CASE Reached(c, in.active, in.last + 1)
            <6>0. Reached(c, f.epoch, f.seq) /\ f.seq \in Nat
              BY <1>0, <4>2, <5>1
            <6>1. Follows(c, f)' /\ NotPast(c, f)'
              BY <6>0, Known DEF Follows, Reached, NotPast
            <6> QED
              BY <1>0, <3>2, <6>1
          <5>2. CASE \E h \in Frames : Input(h) /\ OnItsWay(c, h) /\ h.epoch = in.active /\ h.seq = in.last
            <6>1. PICK h \in Frames : Input(h) /\ OnItsWay(c, h) /\ h.epoch = in.active /\ h.seq = in.last
              BY <5>2
            <6>2. NotPast(c, h)
              BY <2>0, <6>1 DEF Gapless
            <6>3. session.rel \in Nat
              BY Known, LanesConstantsAssumption DEF Types, Sessions
            <6>4. NotPast(c, f)'
              BY <1>4, <4>2, <6>1, <6>2, <6>3 DEF NotPast
            <6>5. f.seq - 1 = in.last
              BY <1>4, <4>2
            <6>6. Follows(c, f)'
              BY <1>1, <4>2, <6>1, <6>5 DEF Follows
            <6> QED
              BY <1>0, <3>2, <6>4, <6>6
          <5> QED
            BY <1>0, <2>0, <4>2, <5>1, <5>2 DEF UpToLast
        <4> QED
          BY <1>0, <4>1, <4>2
      <3> QED
        BY <1>1, <2>1, <3>1, <3>2
    <2>2. Gapless(c)'
      BY <2>1 DEF Gapless
    <2>3. ASSUME NEW g \in Frames, Input(g), OnItsWay(c, g) PROVE Before(g, f)
      <3>1. CASE f.kind = "Enter" /\ f.epoch > Heard(c)
        BY <1>2, <2>3, <3>1, Known DEF Before
      <3>2. CASE f.kind # "Enter" /\ in.active = f.epoch /\ f.seq = in.last + 1
        <4>1. g.epoch = in.active => g.seq <= in.last
          BY <2>0, <2>3 DEF Gapless
        <4> QED
          BY <1>0, <1>4, <3>2, <4>1 DEF Before
      <3> QED
        BY <1>0, <3>1, <3>2
    <2>4. InOrder(c)'
      <3>1. ASSUME NEW g \in Frames, NEW h \in Frames, Input(g), Input(h)
            PROVE  /\ InHand(c, g)' /\ (InQueue(c, h)' \/ InReader(c, h)') => Before(g, h)
                   /\ InQueue(c, g)' /\ InReader(c, h)' => Before(g, h)
        <4>1. /\ InHand(c, g)' => InHand(c, g) /\ OnItsWay(c, g)
              /\ InQueue(c, g)' => InQueue(c, g) /\ OnItsWay(c, g)
              /\ InQueue(c, h)' => InQueue(c, h)
          BY DEF InHand, InQueue, OnItsWay
        <4>2. InReader(c, h)' => InReader(c, h) \/ h = f
          BY <3>1
        <4>3. CASE InReader(c, h)' /\ h = f
          BY <2>0, <2>3, <3>1, <4>1, <4>3 DEF InOrder
        <4>4. CASE ~(InReader(c, h)' /\ h = f)
          BY <2>0, <3>1, <4>1, <4>2, <4>4 DEF InOrder
        <4> QED
          BY <4>3, <4>4
      <3> QED
        BY <2>0, <3>1 DEF InOrder
    <2>5. UpToLast(c)'
      BY <1>0, <1>1 DEF UpToLast
    <2> QED
      BY <2>2, <2>4, <2>5
  <1> QED
    BY <1>5, <1>6, <1>7 DEF Row

\* A reader goes on: a frame is taken off its stream, and h is in its hand.
TakesOff(c, i, h) ==
    /\ net[c].streams[i].frames # <<>> /\ net[c].streams[i].held = NoFrame
    /\ Stream(c, i, [net[c].streams[i] EXCEPT !.frames = Tail(@), !.held = h])

LEMMA ReadsOn ==
    ASSUME IInv, NEW c \in Conns, NEW i \in Streams(c),
           NEW h \in Frames, h = NoFrame \/ WellWritten(h), TakesOff(c, i, h)
    PROVE  /\ net' \in [Conns -> Nets] /\ \A d \in Conns : d # c => net'[d] = net[d]
           /\ Streams(c)' = Streams(c)
           /\ net'[c].urgent = net[c].urgent /\ net'[c].rushed = net[c].rushed
           /\ net'[c].datagrams = net[c].datagrams
           /\ \A j \in Streams(c) :
                 /\ net'[c].streams[j].epoch = net[c].streams[j].epoch
                 /\ net'[c].streams[j].cut = net[c].streams[j].cut
                 /\ net'[c].streams[j].held = IF j = i THEN h ELSE net[c].streams[j].held
                 /\ \A k \in DOMAIN net'[c].streams[j].frames :
                       \E l \in DOMAIN net[c].streams[j].frames :
                           net'[c].streams[j].frames[k] = net[c].streams[j].frames[l]
  <1> DEFINE s == net[c].streams[i]
             w == [s EXCEPT !.frames = Tail(s.frames), !.held = h]
  <1>0. Types /\ net[c] \in Nets
    BY Known
  <1>1. s \in StreamStates /\ s.frames \in Seq(Frames)
    BY <1>0, StreamsTyped DEF Streams
  <1>2. Tail(s.frames) \in Seq(Frames) /\ \A k \in DOMAIN Tail(s.frames) : k + 1 \in DOMAIN s.frames
                                                     /\ Tail(s.frames)[k] = s.frames[k + 1]
    <2> HIDE DEF s
    <2> QED
      BY <1>1, Pops DEF s, TakesOff
  <1>3. w \in StreamStates /\ w.epoch = s.epoch /\ w.cut = s.cut /\ w.held = h /\ w.frames = Tail(s.frames)
    BY <1>1, <1>2 DEF StreamStates
  <1>4. Stream(c, i, w)
    BY DEF TakesOff
  <1> HIDE DEF w
  <1>5. /\ net' \in [Conns -> Nets] /\ \A d \in Conns : d # c => net'[d] = net[d]
        /\ Streams(c)' = Streams(c)
        /\ net'[c].urgent = net[c].urgent /\ net'[c].rushed = net[c].rushed
        /\ net'[c].datagrams = net[c].datagrams
        /\ \A j \in Streams(c) : net'[c].streams[j] = IF j = i THEN w ELSE net[c].streams[j]
    BY <1>0, <1>3, <1>4, StreamSets
  <1>6. ASSUME NEW j \in Streams(c)
        PROVE  /\ net'[c].streams[j].epoch = net[c].streams[j].epoch
               /\ net'[c].streams[j].cut = net[c].streams[j].cut
               /\ net'[c].streams[j].held = IF j = i THEN h ELSE net[c].streams[j].held
               /\ \A k \in DOMAIN net'[c].streams[j].frames :
                     \E l \in DOMAIN net[c].streams[j].frames :
                         net'[c].streams[j].frames[k] = net[c].streams[j].frames[l]
    <2>1. CASE j = i
      <3>1. net'[c].streams[j] = w /\ net[c].streams[j] = s
        BY <1>5, <2>1
      <3> HIDE DEF s
      <3>2. /\ net'[c].streams[j].epoch = net[c].streams[j].epoch
            /\ net'[c].streams[j].cut = net[c].streams[j].cut
            /\ net'[c].streams[j].held = h
        BY <1>3, <3>1
      <3>3. \A k \in DOMAIN net'[c].streams[j].frames :
               \E l \in DOMAIN net[c].streams[j].frames :
                   net'[c].streams[j].frames[k] = net[c].streams[j].frames[l]
        BY <1>2, <1>3, <3>1, SMTT(60), ZenonT(60)
      <3> QED
        BY <2>1, <3>2, <3>3
    <2>2. CASE j # i
      BY <1>5, <2>2
    <2> QED
      BY <2>1, <2>2
  <1> QED
    BY <1>5, <1>6

\* The reader of stream i takes the frame f off it, and keeps it or drops it.
TakesFrame(c, i, f, h) ==
    /\ TakesOff(c, i, h) /\ ReadingStep(c) /\ UNCHANGED <<queue, mailbox>>
    /\ Open(c) /\ Open(c)' /\ releases'[c].high <= inbound'[c].retired
    /\ f = Head(net[c].streams[i].frames) /\ h \in {f, NoFrame}
    /\ f.kind = "Enter" \/ net[c].streams[i].epoch = f.epoch
    /\ \/ h = NoFrame /\ inbound'[c] = inbound[c]
       \/ h = f /\ \E v : Starts(inbound[c], f, v) /\ inbound'[c] = v.in

\* Of the streams of c, at most the reader's hand and what it has yet to read changed.
LEMMA ReadsOnKeeps ==
    ASSUME IInv, NEW c \in Conns, NEW i \in Streams(c), NEW f, NEW h, TakesFrame(c, i, f, h)
    PROVE  IInv'
  <1> DEFINE s == net[c].streams[i]
             in == inbound[c]
             out == inbound'[c]
  <1>01. TakesOff(c, i, h) /\ ReadingStep(c) /\ UNCHANGED <<queue, mailbox>>
    BY DEF TakesFrame
  <1>02. Open(c) /\ Open(c)' /\ releases'[c].high <= inbound'[c].retired /\ h \in {f, NoFrame}
    BY DEF TakesFrame
  <1>03. s.frames # <<>> /\ s.held = NoFrame /\ f = Head(s.frames) /\ (f.kind = "Enter" \/ s.epoch = f.epoch)
    BY DEF TakesFrame, TakesOff
  <1>04. \/ h = NoFrame /\ out = in
         \/ h = f /\ \E v : Starts(in, f, v) /\ out = v.in
    BY DEF TakesFrame
  <1>05. /\ Types /\ Kinds(c) /\ HeardOf(c) /\ OwnedOnce(c) /\ SenderKnows(c) /\ Row(c) /\ AllAnswered(c)
         /\ in \in Inbounds /\ Sane(in) /\ net[c] \in Nets /\ mailbox[c] \in Frames
         /\ Heard(c) \in Nat /\ session.epoch \in Nat
    BY Known
  <1>06. \A j \in Streams(c) :
            /\ net[c].streams[j] \in StreamStates /\ net[c].streams[j].frames \in Seq(Frames)
            /\ net[c].streams[j].epoch \in Nat /\ net[c].streams[j].held.epoch \in Nat
            /\ net[c].streams[j].held \in Frames /\ net[c].streams[j].cut \in BOOLEAN
    BY <1>05, StreamsTyped DEF Streams
  <1>07. \A g \in Frames : g.epoch \in Nat
    BY LanesConstantsAssumption DEF Frames, Epochs
  <1>0. /\ s \in StreamStates /\ s.frames \in Seq(Frames) /\ 1 \in DOMAIN s.frames /\ f = s.frames[1]
        /\ f \in Frames /\ WellWritten(f) /\ f.epoch # 0 /\ f.epoch \in Nat
    <2>1. s \in StreamStates /\ s.frames \in Seq(Frames)
      BY <1>06
    <2>2. 1 \in DOMAIN s.frames /\ f = s.frames[1] /\ f \in Frames
      <3> HIDE DEF s
      <3> QED
        BY <1>03, <2>1, Pops
    <2>3. WellWritten(f)
      BY <1>05, <2>2 DEF Kinds
    <2> QED
      BY <1>07, <2>1, <2>2, <2>3 DEF WellWritten
  <1>1. Types'
    BY <1>01, <1>05, ReadingTypes
  <1>2. /\ Streams(c)' = Streams(c)
        /\ net'[c].urgent = net[c].urgent /\ net'[c].rushed = net[c].rushed
        /\ net'[c].datagrams = net[c].datagrams
        /\ \A j \in Streams(c) :
              /\ net'[c].streams[j].epoch = net[c].streams[j].epoch
              /\ net'[c].streams[j].cut = net[c].streams[j].cut
              /\ net'[c].streams[j].held = IF j = i THEN h ELSE net[c].streams[j].held
              /\ \A k \in DOMAIN net'[c].streams[j].frames :
                    \E l \in DOMAIN net[c].streams[j].frames :
                        net'[c].streams[j].frames[k] = net[c].streams[j].frames[l]
    <2>1. h \in Frames /\ (h = NoFrame \/ WellWritten(h))
      BY <1>02, <1>0, FramesTyped
    <2> QED
      BY <1>01, <2>1, ReadsOn
  <1>3. UNCHANGED <<peer, current, session, worker, lane, queue, mailbox>>
    BY <1>01 DEF ReadingStep, sendVars
  <1>4. Kinds(c)'
    <2>1. ASSUME NEW j \in Streams(c), NEW k \in DOMAIN net'[c].streams[j].frames
          PROVE  WellWritten(net'[c].streams[j].frames[k])
      <3>1. PICK l \in DOMAIN net[c].streams[j].frames :
                   net'[c].streams[j].frames[k] = net[c].streams[j].frames[l]
        BY <1>2
      <3>2. WellWritten(net[c].streams[j].frames[l])
        BY <1>05 DEF Kinds
      <3> QED
        BY <3>1, <3>2
    <2>2. \A j \in Streams(c) : net'[c].streams[j].held = NoFrame \/ WellWritten(net'[c].streams[j].held)
      <3>1. \A j \in Streams(c) : net[c].streams[j].held = NoFrame \/ WellWritten(net[c].streams[j].held)
        BY <1>05 DEF Kinds
      <3>2. h = NoFrame \/ WellWritten(h)
        BY <1>02, <1>0
      <3> QED
        BY <1>2, <3>1, <3>2
    <2>3. 0 \notin net'[c].urgent \cup net'[c].rushed \cup net'[c].datagrams
      BY <1>2, <1>05 DEF Kinds
    <2>4. worker'[c] = worker[c] /\ queue'[c] = queue[c] /\ mailbox'[c] = mailbox[c]
      BY <1>3
    <2>5. Streams(c)' = Streams(c)
      BY <1>2
    <2>6. \A j \in Streams(c)' :
             /\ \A k \in DOMAIN net'[c].streams[j].frames : WellWritten(net'[c].streams[j].frames[k])
             /\ net'[c].streams[j].held = NoFrame \/ WellWritten(net'[c].streams[j].held)
      BY <2>1, <2>2, <2>5
    <2>7. /\ \A k \in DOMAIN queue'[c] : queue'[c][k].kind \in {"Enter", "Key", "ReleaseAll"}
                                          /\ queue'[c][k].epoch # 0
          /\ mailbox'[c] = NoFrame \/ (mailbox'[c].kind = "Motion" /\ mailbox'[c].epoch # 0)
          /\ worker'[c].pc = "hold" => worker'[c].frame.kind # "None" /\ worker'[c].frame.epoch # 0
          /\ worker'[c].pc # "hold" => worker'[c].frame = NoFrame
      BY <1>05, <2>4 DEF Kinds
    <2> QED
      BY <2>3, <2>6, <2>7 DEF Kinds
  <1>5. /\ out \in Inbounds /\ out.active \in Nat /\ out.retired \in Nat
        /\ \/ h = NoFrame /\ out = in
           \/ /\ h = f /\ out.active = f.epoch /\ ~in.terminal /\ f.epoch > in.retired
              /\ \/ f.kind = "Enter" /\ f.epoch > Heard(c) /\ out.retired = IF in.active = 0 THEN in.retired ELSE in.active
                 \/ f.kind # "Enter" /\ in.active = f.epoch /\ out.retired = in.retired
    <2>1. out \in Inbounds
      BY <1>1 DEF Types
    <2>2. \A x \in Inbounds : x.active \in Nat /\ x.retired \in Nat
      BY LanesConstantsAssumption DEF Inbounds, Epochs
    <2>3. CASE h = NoFrame /\ out = in
      BY <2>1, <2>2, <2>3
    <2>4. CASE h = f /\ \E v : Starts(in, f, v) /\ out = v.in
      <3>1. PICK v : Starts(in, f, v) /\ out = v.in
        BY <2>4, SMTT(60), ZenonT(60)
      <3> HIDE DEF in, out
      <3>2. /\ out.active = f.epoch /\ ~in.terminal /\ f.epoch > in.retired
            /\ \/ /\ f.kind = "Enter" /\ f.epoch > Larger(in.active, in.retired)
                  /\ out.retired = IF in.active = 0 THEN in.retired ELSE in.active
               \/ f.kind # "Enter" /\ in.active = f.epoch /\ out.retired = in.retired
        BY <1>0, <1>05, <2>1, <2>2, <3>1 DEF Starts, Sane, Larger
      <3>3. Heard(c) = Larger(in.active, in.retired)
        BY DEF Heard, in
      <3> QED
        BY <2>1, <2>2, <2>4, <3>2, <3>3
    <2> QED
      BY <1>04, <2>3, <2>4
  <1>55. /\ f # NoFrame /\ in.active \in Nat /\ in.retired \in Nat
         /\ Heard(c) = IF in.active > in.retired THEN in.active ELSE in.retired
         /\ Heard(c)' = IF out.active > out.retired THEN out.active ELSE out.retired
         /\ in.active # 0 => in.active > in.retired
    <2>1. in.active \in Nat /\ in.retired \in Nat /\ (in.active # 0 => in.active > in.retired)
      BY <1>05, LanesConstantsAssumption DEF Inbounds, Epochs, Sane
    <2>2. f # NoFrame
      BY <1>0, FramesTyped
    <2> QED
      BY <2>1, <2>2 DEF Heard, Larger
  <1> HIDE DEF s, in, out
  <1>6. out.retired >= in.retired /\ Heard(c)' >= Heard(c) /\ (h = f => Heard(c)' >= f.epoch) /\ Heard(c)' \in Nat
    <2>1. CASE h = NoFrame /\ out = in
      BY <1>5, <1>55, <2>1
    <2>2. CASE h = f /\ out.active = f.epoch /\ f.epoch > in.retired /\ f.kind = "Enter" /\ f.epoch > Heard(c)
               /\ out.retired = IF in.active = 0 THEN in.retired ELSE in.active
      BY <1>0, <1>5, <1>55, <2>2
    <2>3. CASE h = f /\ out.active = f.epoch /\ f.epoch > in.retired /\ in.active = f.epoch /\ out.retired = in.retired
      BY <1>0, <1>5, <1>55, <2>3
    <2> QED
      BY <1>5, <2>1, <2>2, <2>3
  <1>7. OwnedOnce(c)'
    <2>1. CASE \A j \in Streams(c), e \in 1..EpochMax :
                   Owns(net'[c].streams[j], e) => Owns(net[c].streams[j], e)
      BY <1>2, <1>05, <2>1, FewerOwners
    <2>2. CASE h = f /\ f.kind = "Enter" /\ f.epoch > Heard(c)
      <3> SUFFICES ASSUME NEW j \in Streams(c), NEW k \in Streams(c), NEW e \in 1..EpochMax,
                          Owns(net'[c].streams[j], e), Owns(net'[c].streams[k], e), j # k
                   PROVE  FALSE
        BY <1>2 DEF OwnedOnce
      <3>1. \A l \in Streams(c) : ~Owns(net[c].streams[l], f.epoch)
        <4>1. \A l \in Streams(c) : net[c].streams[l].epoch \in Nat /\ net[c].streams[l].held.epoch \in Nat
          BY <1>06
        <4>2. \A l \in Streams(c) : net[c].streams[l].epoch <= Heard(c) /\ net[c].streams[l].held.epoch <= Heard(c)
          BY <1>05 DEF HeardOf
        <4>3. Heard(c) \in Nat
          BY <1>05
        <4> QED
          BY <1>0, <2>2, <4>1, <4>2, <4>3 DEF Owns
      <3>2. \A l \in Streams(c) : Owns(net'[c].streams[l], e) => Owns(net[c].streams[l], e) \/ (l = i /\ e = f.epoch)
        BY <1>2, <2>2 DEF Owns
      <3>3. CASE e = f.epoch
        BY <3>1, <3>2, <3>3
      <3>4. CASE e # f.epoch
        BY <1>05, <3>2, <3>4 DEF OwnedOnce
      <3> QED
        BY <3>3, <3>4
    <2>3. CASE h = NoFrame
      <3>1. \A j \in Streams(c), e \in 1..EpochMax :
               Owns(net'[c].streams[j], e) => Owns(net[c].streams[j], e)
        BY <1>2, <2>3, FramesTyped, SMTT(60), ZenonT(60) DEF Owns
      <3> QED
        BY <2>1, <3>1
    <2>4. CASE h = f /\ f.kind # "Enter"
      <3>1. \A j \in Streams(c), e \in 1..EpochMax :
               Owns(net'[c].streams[j], e) => Owns(net[c].streams[j], e)
        BY <1>2, <1>03, <2>4 DEF Owns, s
      <3> QED
        BY <2>1, <3>1
    <2> QED
      BY <1>5, <2>2, <2>3, <2>4
  <1>8. HeardOf(c)'
    <2>1. \A j \in Streams(c)' :
             net'[c].streams[j].epoch <= Heard(c)' /\ net'[c].streams[j].held.epoch <= Heard(c)'
      <3>1. \A j \in Streams(c) : net[c].streams[j].epoch \in Nat /\ net[c].streams[j].held.epoch \in Nat
        BY <1>06
      <3>2. \A j \in Streams(c) : net[c].streams[j].epoch <= Heard(c)' /\ net[c].streams[j].held.epoch <= Heard(c)'
        <4>1. \A j \in Streams(c) : net[c].streams[j].epoch <= Heard(c) /\ net[c].streams[j].held.epoch <= Heard(c)
          BY <1>05 DEF HeardOf
        <4>2. Heard(c) \in Nat /\ Heard(c)' \in Nat /\ Heard(c)' >= Heard(c)
          BY <1>05, <1>6
        <4> QED
          BY <3>1, <4>1, <4>2
      <3>3. h.epoch <= Heard(c)'
        BY <1>02, <1>6, FramesTyped
      <3> QED
        BY <1>2, <3>2, <3>3
    <2>2. \A e \in net'[c].rushed : e <= out.retired
      <3>1. \A e \in net[c].rushed : e \in Nat
        BY <1>05, LanesConstantsAssumption DEF Nets, Epochs
      <3>2. \A e \in net[c].rushed : e <= in.retired
        BY <1>05 DEF HeardOf, in
      <3> QED
        <4>1. net'[c].rushed = net[c].rushed
          BY <1>2
        <4>2. in.retired \in Nat /\ out.retired \in Nat /\ out.retired >= in.retired
          BY <1>5, <1>55, <1>6
        <4> QED
          BY <3>1, <3>2, <4>1, <4>2
    <2>3. mailbox'[c].epoch <= Heard(c)'
      <3>1. mailbox'[c].epoch <= Heard(c) /\ mailbox'[c].epoch \in Nat
        BY <1>3, <1>05, <1>07 DEF HeardOf
      <3>2. Heard(c) \in Nat /\ Heard(c)' \in Nat /\ Heard(c)' >= Heard(c)
        BY <1>05, <1>6
      <3> QED
        BY <3>1, <3>2
    <2>4. out.terminal => ~Open(c)'
      <3>1. ~out.terminal
        <4>1. CASE h = NoFrame /\ out = in
          BY <1>02, <1>05, <4>1 DEF HeardOf, in
        <4>2. CASE out.active = f.epoch
          <5>1. Sane(out)
            BY <1>1, SMTT(60), ZenonT(60) DEF Types, out
          <5> QED
            BY <1>0, <4>2, <5>1 DEF Sane
        <4> QED
          BY <1>5, <4>1, <4>2
      <3> QED
        BY <3>1
    <2> QED
      BY <1>1, <1>02, <1>3, <1>05, <1>6, <2>1, <2>2, <2>3, <2>4, HeardKeeps DEF in, out
  <1>9. \A g : g # NoFrame => (InReader(c, g)' <=> InReader(c, g) \/ g = h)
    BY <1>03, <1>2 DEF InReader, s
  <1>10. Row(c)'
    <2>1. CASE h = NoFrame /\ out = in
      <3>0. \A g \in Frames : Input(g) /\ OnItsWay(c, g) => g.epoch # 0
        BY Known
      <3>1. \A g \in Frames : Input(g) => (InReader(c, g)' <=> InReader(c, g))
        BY <1>9, <2>1, FramesTyped
      <3> QED
        BY <1>1, <1>3, <1>05, <2>1, <3>0, <3>1, RowKeeps DEF in, out
    <2>2. CASE h = f /\ \E v : Starts(in, f, v) /\ out = v.in
      <3>1. PICK v : Starts(in, f, v) /\ out = v.in
        BY <2>2
      <3>2. \A g \in Frames : Input(g) => (InReader(c, g)' <=> InReader(c, g) \/ g = f)
        BY <1>9, <2>2, FramesTyped
      <3> QED
        BY <1>0, <1>3, <1>5, <3>1, <3>2, AcceptedRow DEF in, out
    <2> QED
      BY <1>04, <2>1, <2>2 DEF in, out
  <1>11. SenderKnows(c)'
    <2>0. SenderKnows(c) /\ lane[c].active \in Nat /\ lane[c].retired \in Nat
      BY <1>05, LanesConstantsAssumption, SMTT(60), ZenonT(60) DEF Types, LaneStates, Epochs
    <2>1. Accounted(c, s, lane[c])
      BY <1>02, <2>0 DEF SenderKnows, s
    <2>2. /\ f.epoch <= IF s.cut THEN lane[c].retired ELSE SentThrough(lane[c])
          /\ f.epoch = lane[c].active \/ f.epoch \in net[c].urgent \/ f.epoch <= in.retired
      BY <1>0, <2>1 DEF Accounted, s, in
    <2>3. out.active # 0 => out.active = lane'[c].active \/ out.active \in net'[c].urgent
      <3>1. CASE h = NoFrame /\ out = in
        <4>1. in.active # 0 => in.active = lane[c].active \/ in.active \in net[c].urgent
          BY <1>02, <2>0 DEF SenderKnows, in
        <4> QED
          BY <1>2, <1>3, <3>1, <4>1
      <3>2. CASE out.active = f.epoch /\ f.epoch > in.retired
        <4>1. f.epoch = lane[c].active \/ f.epoch \in net[c].urgent
          <5>1. ~(f.epoch <= in.retired)
            BY <1>0, <1>55, <3>2
          <5> QED
            BY <2>2, <5>1
        <4>2. lane'[c] = lane[c] /\ net'[c].urgent = net[c].urgent
          BY <1>2, <1>3, SMTT(60), ZenonT(60)
        <4> QED
          BY <3>2, <4>1, <4>2
      <3> QED
        BY <1>5, <3>1, <3>2
    <2>4. ASSUME NEW j \in Streams(c)
          PROVE  Accounted(c, net[c].streams[j], lane[c])'
      <3> DEFINE through == IF net[c].streams[j].cut THEN lane[c].retired ELSE SentThrough(lane[c])
      <3>1. Accounted(c, net[c].streams[j], lane[c]) /\ through \in Nat
        BY <1>02, <2>0, SMTT(60), ZenonT(60) DEF SenderKnows, SentThrough, Larger
      <3>2. net'[c].streams[j].epoch <= through
        BY <1>2, <3>1 DEF Accounted
      <3>3. net'[c].streams[j].held.epoch <= through
        <4>1. CASE j = i
          <5>1. f.epoch <= through
            BY <2>2, <4>1 DEF s
          <5>2. 0 <= through
            BY <3>1, SMTT(60), ZenonT(60)
          <5> HIDE DEF through
          <5> QED
            BY <1>02, <1>2, <4>1, <5>1, <5>2, FramesTyped
        <4>2. CASE j # i
          BY <1>2, <3>1, <4>2 DEF Accounted
        <4> QED
          BY <4>1, <4>2
      <3>4. ASSUME NEW k \in DOMAIN net'[c].streams[j].frames
            PROVE  /\ net'[c].streams[j].frames[k].epoch <= through
                   /\ \/ net'[c].streams[j].frames[k].epoch = lane[c].active
                      \/ net'[c].streams[j].frames[k].epoch \in net'[c].urgent
                      \/ net'[c].streams[j].frames[k].epoch <= out.retired
        <4>1. PICK l \in DOMAIN net[c].streams[j].frames : net'[c].streams[j].frames[k] = net[c].streams[j].frames[l]
          BY <1>2
        <4>2. net[c].streams[j].frames[l] \in Frames
          BY <1>06
        <4>3. net[c].streams[j].frames[l].epoch \in Nat
          BY <4>2, <1>07, SMTT(60), ZenonT(60)
        <4>4. /\ net[c].streams[j].frames[l].epoch <= through
              /\ \/ net[c].streams[j].frames[l].epoch = lane[c].active
                 \/ net[c].streams[j].frames[l].epoch \in net[c].urgent
                 \/ net[c].streams[j].frames[l].epoch <= in.retired
          BY <3>1 DEF Accounted, in
        <4> HIDE DEF through
        <4>5. net[c].streams[j].frames[l].epoch <= in.retired => net[c].streams[j].frames[l].epoch <= out.retired
          BY <1>5, <1>55, <1>6, <4>3
        <4> QED
          BY <1>2, <4>1, <4>4, <4>5
      <3> QED
        BY <1>2, <1>3, <3>2, <3>3, <3>4 DEF Accounted, out
    <2> QED
      BY <1>02, <1>2, <1>3, <2>0, <2>3, <2>4 DEF SenderKnows, out
  <1>12. AllAnswered(c)'
    <2>0. \A g : g # NoFrame => (OnItsWay(c, g)' <=> OnItsWay(c, g) \/ g = h)
      BY <1>3, <1>9 DEF OnItsWay, InHand, InQueue
    <2>1. ASSUME NEW g \in Frames, (OnItsWay(c, g)' \/ mailbox'[c] = g) /\ g.epoch > session.epoch
          PROVE  OnItsWay(c, g) \/ mailbox[c] = g \/ Answered(c, g.epoch)'
      <3>1. g # NoFrame
        BY <1>05, <2>1, FramesTyped
      <3>2. CASE g = h
        <4>1. out.active = g.epoch
          BY <1>5, <3>1, <3>2
        <4> QED
          BY <4>1 DEF Answered, out
      <3> QED
        BY <1>3, <2>0, <2>1, <3>1, <3>2
    <2>2. ASSUME NEW x \in Nat, Answered(c, x)
          PROVE  Answered(c, x)'
      <3>1. \A g \in Frames : OnItsWay(c, g) /\ Ends(g, x) => OnItsWay(c, g)'
        BY <2>0, <2>2, FramesTyped DEF Ends
      <3>2. CASE in.active = x
        <4>1. CASE out.active = x
          BY <4>1 DEF Answered, out
        <4>2. CASE out.active # x
          <5>1. h = f /\ f.epoch > x
            BY <1>0, <1>5, <1>55, <3>2, <4>2
          <5>2. OnItsWay(c, f)' /\ Ends(f, x)
            BY <1>0, <2>0, <5>1, FramesTyped DEF Ends
          <5> QED
            BY <1>0, <5>2 DEF Answered
        <4> QED
          BY <4>1, <4>2
      <3>3. CASE in.active # x
        BY <1>02, <1>2, <2>2, <3>1, <3>3 DEF Answered, in, out
      <3> QED
        BY <3>2, <3>3
    <2> QED
      BY <1>3, <1>05, <2>1, <2>2, AnswersKeep
  <1>13. peer[c] # None
    BY <1>02, Made, SMTT(60), ZenonT(60) DEF Open
  <1> QED
    BY <1>01, <1>4, <1>7, <1>8, <1>10, <1>11, <1>12, <1>13, ReadingStepKeeps DEF Local

LEMMA ReadReliableKeeps ==
    ASSUME IInv, NEW c \in Conns, NEW i \in Streams(c), ReadReliable(c, i)
    PROVE  IInv'
  <1> DEFINE s == net[c].streams[i]
             f == Head(s.frames)
             v == Accept(inbound[c], f)
             on(h) == [s EXCEPT !.frames = Tail(@), !.held = h]
  <1>0. /\ Open(c) /\ s.held = NoFrame /\ s.frames # <<>> /\ Types
        /\ UNCHANGED <<sendVars, laneVars, mainVars, session>>
    BY DEF ReadReliable, Reads, IInv
  <1>1. /\ s \in StreamStates /\ s.frames \in Seq(Frames) /\ f \in Frames /\ f.epoch # 0
    <2>1. s \in StreamStates /\ s.frames \in Seq(Frames)
      BY Known, StreamsTyped DEF Streams
    <2>2. 1 \in DOMAIN s.frames /\ f = s.frames[1] /\ f \in Frames
      BY <1>0, <2>1
    <2> QED
      BY <2>1, <2>2, Known DEF Kinds, WellWritten
  <1>2. CASE /\ Settle(c, Terminalize(inbound[c]), TRUE, inbound[c].active)
             /\ Stream(c, i, Left(s))
    <2> DEFINE in == Terminalize(inbound[c])
    <2>1. in \in Inbounds /\ Sane(in) /\ in.active = 0 /\ in.retired = Larger(inbound[c].retired, inbound[c].active)
      BY Known, TerminalTyped
    <2> HIDE DEF in
    <2>2. in.retired >= Heard(c) /\ inbound[c].active <= in.retired
      BY <2>1, Known DEF Heard, Larger
    <2> QED
      BY <1>0, <1>2, <2>1, <2>2, Known, GivesConnectionUp DEF in
  <1>3. CASE /\ f.kind = "Enter" \/ s.epoch = f.epoch
             /\ Settle(c, v.in, v.as = "Violation", v.event)
             /\ Stream(c, i, IF v.as = "Violation" THEN Left(s)
                             ELSE [s EXCEPT !.frames = Tail(@), !.held = IF v.as = "Accepted" THEN f ELSE @])
    <2>1. /\ v.in \in Inbounds /\ Sane(v.in) /\ v.event \in Epochs
          /\ \/ v.as = "Accepted" /\ Starts(inbound[c], f, v)
             \/ v.as = "Dropped" /\ v.in = inbound[c] /\ v.event = 0
             \/ v.as = "Violation" /\ Fails(inbound[c], v)
      <3> HIDE DEF f
      <3> QED
        BY <1>1, Known, Accepts
    <2> HIDE DEF v, f
    <2>2. CASE v.as = "Violation" /\ Fails(inbound[c], v)
      <3>1. v.in.active = 0 /\ v.in.retired >= Heard(c) /\ v.event <= v.in.retired
        BY <2>2 DEF Fails, Heard
      <3> QED
        BY <1>0, <1>3, <2>1, <2>2, <3>1, GivesConnectionUp
    <2>3. CASE v.as # "Violation"
      <3>1. Settle(c, v.in, FALSE, v.event)
        BY <1>3, <2>3
      <3>2. /\ Received(c) /\ inbound'[c] = v.in /\ Open(c)'
            /\ releases'[c].high = Larger(releases[c].high, v.event)
        BY <1>0, <2>1, <3>1, Settles
      <3>3. ASSUME NEW h \in {f, NoFrame}, TakesOff(c, i, h)
            PROVE  ReadingStep(c)
        <4>1. h \in Frames /\ (h = NoFrame \/ WellWritten(h))
          BY <1>0, <1>1, Known, FramesTyped DEF Kinds, f
        <4>2. net' \in [Conns -> Nets] /\ \A d \in Conns : d # c => net'[d] = net[d]
          BY <1>0, <3>3, <4>1, ReadsOn
        <4> QED
          BY <1>0, <3>2, <4>2 DEF ReadingStep, Types, laneVars
      <3>4. CASE v.as = "Accepted" /\ Starts(inbound[c], f, v)
        <4>1. TakesOff(c, i, f)
          <5>1. Stream(c, i, on(f))
            BY <1>3, <3>4
          <5> QED
            BY <1>0, <5>1 DEF TakesOff
        <4>2. ReadingStep(c)
          BY <3>3, <4>1
        <4>3. releases'[c].high <= inbound'[c].retired
          BY <2>1, <3>2, <3>4, Known, LanesConstantsAssumption, SMTT(60), ZenonT(60) DEF Starts, Larger,
             Epochs, Inbounds, Sane
        <4>4. \E x : Starts(inbound[c], f, x) /\ inbound'[c] = x.in
          BY <3>2, <3>4
        <4>5. TakesFrame(c, i, f, f)
          BY <1>0, <1>3, <3>2, <4>1, <4>2, <4>3, <4>4 DEF TakesFrame, f, laneVars
        <4> QED
          BY <4>5, ReadsOnKeeps
      <3>5. CASE v.as = "Dropped" /\ v.in = inbound[c] /\ v.event = 0
        <4>1. TakesOff(c, i, NoFrame)
          <5>1. [s EXCEPT !.frames = Tail(@), !.held = IF v.as = "Accepted" THEN f ELSE @] = on(NoFrame)
            BY <1>0, <1>1, <3>5 DEF StreamStates
          <5>2. Stream(c, i, on(NoFrame))
            BY <1>3, <3>5, <5>1
          <5> QED
            BY <1>0, <5>2 DEF TakesOff
        <4>2. ReadingStep(c)
          BY <3>3, <4>1
        <4>3. releases'[c].high <= inbound'[c].retired
          BY <3>2, <3>5, Known DEF Larger
        <4>4. TakesFrame(c, i, f, NoFrame)
          BY <1>0, <1>3, <3>2, <3>5, <4>1, <4>2, <4>3, SMTT(60), ZenonT(60) DEF TakesFrame, f, laneVars
        <4> QED
          BY <4>4, ReadsOnKeeps
      <3> QED
        BY <2>1, <2>3, <3>4, <3>5
    <2> QED
      BY <2>1, <2>2, <2>3
  <1> QED
    BY <1>2, <1>3 DEF ReadReliable

\* What is known once the reader of stream i has let go of the frame h in its hand.
HandEmptied(c, i, h) ==
    /\ OwnedOnce(c)' /\ Streams(c)' = Streams(c)
    /\ net'[c].urgent = net[c].urgent /\ net'[c].rushed = net[c].rushed
    /\ net'[c].datagrams = net[c].datagrams
    /\ h \in Frames /\ WellWritten(h) /\ h.epoch \in 1..EpochMax /\ h.epoch <= Heard(c)
    /\ \A j \in Streams(c) :
          /\ net'[c].streams[j].epoch \in Nat /\ net'[c].streams[j].held.epoch \in Nat
          /\ net'[c].streams[j].epoch <= Heard(c) /\ net'[c].streams[j].held.epoch <= Heard(c)
          /\ net'[c].streams[j].held = NoFrame \/ WellWritten(net'[c].streams[j].held)
          /\ \A k \in DOMAIN net'[c].streams[j].frames : WellWritten(net'[c].streams[j].frames[k])
          /\ net'[c].streams[j].cut = net[c].streams[j].cut
          /\ \/ net'[c].streams[j].epoch = net[c].streams[j].epoch
             \/ j = i /\ net'[c].streams[j].epoch = h.epoch
          /\ \/ net'[c].streams[j].held = net[c].streams[j].held
             \/ net'[c].streams[j].held.epoch = 0
          /\ \/ net'[c].streams[j].frames = net[c].streams[j].frames
             \/ net'[c].streams[j].frames = <<>>
    /\ \A f \in Frames : Input(f) => (InReader(c, f)' <=> InReader(c, f) /\ f # h)
    /\ \A f \in Frames : InReader(c, f)' => f = NoFrame \/ InReader(c, f)
    /\ \A f \in Frames : InReader(c, f)' /\ Input(f) => f.epoch # h.epoch
    /\ InReader(c, h)

LEMMA LetsGo ==
    ASSUME IInv, NEW c \in Conns, NEW i \in Streams(c), ReadingStep(c),
           NEW h, h = net[c].streams[i].held, h # NoFrame, NEW t \in StreamStates,
           Stream(c, i, t), t.held = NoFrame, t.cut = net[c].streams[i].cut,
           t.epoch \in {net[c].streams[i].epoch, h.epoch},
           t.frames = net[c].streams[i].frames \/ t.frames = <<>>
    PROVE  HandEmptied(c, i, h)
  <1>1. net[c].streams[i] \in StreamStates /\ h \in Frames
    BY Known, StreamsTyped DEF Streams
  <1>2. /\ net' \in [Conns -> Nets]
        /\ DOMAIN net'[c].streams = Streams(c) /\ Streams(c)' = Streams(c)
        /\ net'[c].urgent = net[c].urgent /\ net'[c].rushed = net[c].rushed
        /\ net'[c].datagrams = net[c].datagrams
        /\ \A j \in Streams(c) : net'[c].streams[j] = IF j = i THEN t ELSE net[c].streams[j]
    BY StreamSets DEF IInv
  <1>3. WellWritten(h)
    BY Known DEF Kinds
  <1>4. h.epoch \in 1..EpochMax /\ Input(h)
    BY <1>1, <1>3, LanesConstantsAssumption, Known DEF Epochs, WellWritten
  <1>5. InReader(c, h) /\ h.epoch <= Heard(c)
    BY Known DEF InReader, HeardOf
  <1>6. ASSUME NEW j \in Streams(c)
        PROVE  /\ net'[c].streams[j].epoch \in Nat /\ net'[c].streams[j].held.epoch \in Nat
               /\ net'[c].streams[j].epoch <= Heard(c) /\ net'[c].streams[j].held.epoch <= Heard(c)
               /\ net'[c].streams[j].held = NoFrame \/ WellWritten(net'[c].streams[j].held)
               /\ \A k \in DOMAIN net'[c].streams[j].frames : WellWritten(net'[c].streams[j].frames[k])
               /\ net'[c].streams[j].cut = net[c].streams[j].cut
               /\ \/ net'[c].streams[j].epoch = net[c].streams[j].epoch
                  \/ j = i /\ net'[c].streams[j].epoch = h.epoch
               /\ \/ net'[c].streams[j].held = net[c].streams[j].held
                  \/ net'[c].streams[j].held.epoch = 0
               /\ \/ net'[c].streams[j].frames = net[c].streams[j].frames
                  \/ net'[c].streams[j].frames = <<>>
    <2>1. /\ net[c].streams[j].epoch \in Nat /\ net[c].streams[j].held.epoch \in Nat
          /\ net[c].streams[i].epoch \in Nat /\ h.epoch \in Nat /\ Heard(c) \in Nat
      BY <1>4, Known, StreamsTyped DEF Streams
    <2>2. /\ net[c].streams[j].epoch <= Heard(c) /\ net[c].streams[j].held.epoch <= Heard(c)
          /\ net[c].streams[i].epoch <= Heard(c)
      BY Known DEF HeardOf
    <2>3. /\ net[c].streams[j].held = NoFrame \/ WellWritten(net[c].streams[j].held)
          /\ \A k \in DOMAIN net[c].streams[j].frames : WellWritten(net[c].streams[j].frames[k])
      BY Known DEF Kinds
    <2>4. CASE j # i
      BY <1>2, <2>1, <2>2, <2>3, <2>4
    <2>5. CASE j = i
      <3>1. net'[c].streams[j] = t
        BY <1>2, <2>5
      <3>2. \A k \in DOMAIN t.frames : WellWritten(t.frames[k])
        BY <2>3, <2>5
      <3>3. t.epoch \in Nat /\ t.epoch <= Heard(c)
        BY <1>5, <2>1, <2>2
      <3>4. t.held.epoch = 0 /\ t.held.epoch \in Nat /\ t.held.epoch <= Heard(c)
        BY <2>1, FramesTyped
      <3> QED
        BY <2>5, <3>1, <3>2, <3>3, <3>4
    <2> QED
      BY <2>4, <2>5
  <1>7. OwnedOnce(c)'
    <2>1. ASSUME NEW j \in Streams(c), NEW e \in 1..EpochMax, Owns(net'[c].streams[j], e)
          PROVE  Owns(net[c].streams[j], e)
      <3>1. e # 0
        BY LanesConstantsAssumption
      <3> QED
        BY <1>6, <2>1, <3>1, SMTT(60), ZenonT(60) DEF Owns
    <2> QED
      BY <1>2, <2>1, Known, FewerOwners
  <1>8. ASSUME NEW f \in Frames
        PROVE  /\ Input(f) => (InReader(c, f)' <=> InReader(c, f) /\ f # h)
               /\ InReader(c, f)' => f = NoFrame \/ InReader(c, f)
               /\ InReader(c, f)' /\ Input(f) => f.epoch # h.epoch
    <2>1. ASSUME NEW j \in Streams(c), net'[c].streams[j].held = f, f # NoFrame
          PROVE  InReader(c, f) /\ f.epoch # h.epoch
      <3>1. j # i /\ net[c].streams[j].held = f
        BY <1>2, <2>1
      <3>2. Owns(net[c].streams[i], h.epoch)
        BY DEF Owns
      <3>3. f.epoch = h.epoch => Owns(net[c].streams[j], h.epoch)
        BY <3>1 DEF Owns
      <3> QED
        BY <1>4, <3>1, <3>2, <3>3, Known DEF OwnedOnce, InReader
    <2>2. ASSUME InReader(c, f), f # h PROVE InReader(c, f)'
      BY <1>2, <2>2 DEF InReader
    <2>3. InReader(c, f)' /\ f # NoFrame => InReader(c, f) /\ f.epoch # h.epoch
      BY <1>2, <2>1 DEF InReader
    <2> QED
      BY <2>2, <2>3, FramesTyped
  <1>9. /\ OwnedOnce(c)' /\ Streams(c)' = Streams(c)
        /\ net'[c].urgent = net[c].urgent /\ net'[c].rushed = net[c].rushed
        /\ net'[c].datagrams = net[c].datagrams
        /\ h \in Frames /\ WellWritten(h) /\ h.epoch \in 1..EpochMax /\ h.epoch <= Heard(c)
    BY <1>1, <1>2, <1>3, <1>4, <1>5, <1>7
  <1> QED
    BY <1>5, <1>6, <1>8, <1>9 DEF HandEmptied

\* A frame that a reader held is now the last of the queue.
LEMMA QueuedRow ==
    ASSUME IInv, NEW c \in Conns, UNCHANGED <<peer, current, session, worker, inbound>>,
           NEW h \in Frames, Input(h), InReader(c, h), queue'[c] = Append(queue[c], h),
           \A f \in Frames : Input(f) => (InReader(c, f)' <=> InReader(c, f) /\ f # h),
           \A f \in Frames : InReader(c, f)' /\ Input(f) => f.epoch # h.epoch
    PROVE  Row(c)' /\ \A f \in Frames : Input(f) => (OnItsWay(c, f)' <=> OnItsWay(c, f))
  <1>1. /\ DOMAIN queue[c] = 1..Len(queue[c]) /\ Len(queue[c]) \in Nat
        /\ DOMAIN queue'[c] = 1..Len(queue[c]) + 1 /\ queue'[c][Len(queue[c]) + 1] = h
        /\ \A k \in 1..Len(queue[c]) : queue'[c][k] = queue[c][k]
    <2>1. queue[c] \in Seq(Frames)
      BY Known
    <2> QED
      BY <2>1, Appends
  <1>2. \A f : InQueue(c, f)' <=> InQueue(c, f) \/ f = h
    <2> TAKE f
    <2>1. \A k \in 1..Len(queue[c]) + 1 : k \in 1..Len(queue[c]) \/ k = Len(queue[c]) + 1
      BY <1>1
    <2>2. Len(queue[c]) + 1 \in 1..Len(queue[c]) + 1 /\ \A k \in 1..Len(queue[c]) : k \in 1..Len(queue[c]) + 1
      BY <1>1
    <2> QED
      BY <1>1, <2>1, <2>2 DEF InQueue
  <1>3. \A f \in Frames : Input(f) => (OnItsWay(c, f)' <=> OnItsWay(c, f))
    BY <1>2 DEF OnItsWay, InHand
  <1>4. Row(c)
    BY Known
  <1>5. HandFits(c)'
    BY <1>4 DEF Row, HandFits, Reached, NotPast
  <1>6. Serving(c)' <=> Serving(c)
    BY DEF Serving, IsCurrent
  <1>7. Gapless(c) => Gapless(c)'
    BY <1>3 DEF Gapless, Follows, Reached, NotPast
  <1>8. ASSUME InOrder(c) PROVE InOrder(c)'
    <2>1. ASSUME NEW f \in Frames, NEW g \in Frames, Input(f), Input(g), InHand(c, f)', InQueue(c, g)' \/ InReader(c, g)'
          PROVE  Before(f, g)
      <3>1. InHand(c, f) /\ (InQueue(c, g) \/ InReader(c, g))
        BY <1>2, <2>1 DEF InHand
      <3> QED
        BY <1>8, <2>1, <3>1 DEF InOrder
    <2>2. ASSUME NEW f \in Frames, NEW g \in Frames, Input(f), Input(g), InQueue(c, f)', InReader(c, g)'
          PROVE  Before(f, g)
      <3>1. CASE f = h
        BY <2>2, <3>1 DEF Before
      <3>2. CASE f # h
        BY <1>2, <1>8, <2>2, <3>2 DEF InOrder
      <3> QED
        BY <3>1, <3>2
    <2>3. ASSUME NEW k \in DOMAIN queue'[c], NEW l \in DOMAIN queue'[c], k < l, Input(queue'[c][k]), Input(queue'[c][l])
          PROVE  Before(queue'[c][k], queue'[c][l])
      <3>1. k \in 1..Len(queue[c]) /\ queue'[c][k] = queue[c][k]
        BY <1>1, <2>3
      <3>2. CASE l = Len(queue[c]) + 1
        <4>1. queue[c][k] \in Frames /\ InQueue(c, queue[c][k])
          BY <1>1, <3>1, Known DEF InQueue
        <4> QED
          BY <1>1, <1>8, <2>3, <3>1, <3>2, <4>1 DEF InOrder
      <3>3. CASE l # Len(queue[c]) + 1
        <4>1. l \in 1..Len(queue[c]) /\ queue'[c][l] = queue[c][l]
          BY <1>1, <2>3, <3>3
        <4> QED
          BY <1>1, <1>8, <2>3, <3>1, <4>1 DEF InOrder
      <3> QED
        BY <3>2, <3>3
    <2> QED
      BY <2>1, <2>2, <2>3 DEF InOrder
  <1>9. UpToLast(c) => UpToLast(c)'
    BY <1>3 DEF UpToLast, Reached
  <1> QED
    BY <1>3, <1>4, <1>5, <1>6, <1>7, <1>8, <1>9 DEF Row

\* A frame that a reader held is lost with its connection.
LEMMA DroppedRow ==
    ASSUME IInv, NEW c \in Conns, UNCHANGED <<peer, current, session, worker, queue>>, inbound'[c].active = 0,
           NEW h \in Frames, Input(h), InReader(c, h),
           \A f \in Frames : Input(f) => (InReader(c, f)' <=> InReader(c, f) /\ f # h),
           \A f \in Frames : InReader(c, f)' /\ Input(f) => f.epoch # h.epoch
    PROVE  Row(c)'
  <1>1. \A f : /\ InQueue(c, f)' <=> InQueue(c, f)
               /\ InHand(c, f)' <=> InHand(c, f)
    BY DEF InQueue, InHand
  <1>2. \A f \in Frames : f.epoch \in Nat /\ f.seq \in Nat
    BY Known, LanesConstantsAssumption DEF Frames
  <1>3. Row(c) /\ 0 \notin {h.epoch}
    BY Known DEF OnItsWay
  <1>4. HandFits(c)'
    BY <1>3 DEF Row, HandFits, Reached, NotPast
  <1>5. Serving(c)' <=> Serving(c)
    BY DEF Serving, IsCurrent
  <1>6. ASSUME Gapless(c), InOrder(c) PROVE Gapless(c)'
    <2>1. ASSUME NEW f \in Frames, Input(f), OnItsWay(c, f)'
          PROVE  Follows(c, f)' /\ NotPast(c, f)' /\ f.epoch # 0
      <3>1. OnItsWay(c, f)
        BY <1>1, <2>1 DEF OnItsWay
      <3>2. Follows(c, f) /\ NotPast(c, f) /\ f.epoch # 0
        BY <1>6, <2>1, <3>1, Known DEF Gapless
      <3>3. ASSUME NEW g \in Frames, Input(g), OnItsWay(c, g), g.epoch = f.epoch, g.seq = f.seq - 1
            PROVE  OnItsWay(c, g)'
        <4>1. CASE g = h
          <5>1. CASE InHand(c, f)' \/ InQueue(c, f)'
            <6>1. f.seq < h.seq
              BY <1>1, <1>6, <2>1, <3>3, <4>1, <5>1 DEF InOrder, Before
            <6> QED
              BY <1>2, <3>3, <4>1, <6>1
          <5>2. CASE InReader(c, f)'
            BY <2>1, <3>3, <4>1, <5>2
          <5> QED
            BY <2>1, <5>1, <5>2 DEF OnItsWay
        <4>2. CASE g # h
          BY <1>1, <3>3, <4>2 DEF OnItsWay
        <4> QED
          BY <4>1, <4>2
      <3>4. Follows(c, f)'
        BY <3>2, <3>3 DEF Follows, Reached
      <3> QED
        BY <3>2, <3>4 DEF NotPast
    <2> QED
      BY <2>1 DEF Gapless
  <1>7. InOrder(c) => InOrder(c)'
    BY <1>1 DEF InOrder
  <1>8. UpToLast(c)'
    BY DEF UpToLast
  <1> QED
    BY <1>3, <1>4, <1>5, <1>6, <1>7, <1>8 DEF Row

\* The frame h in the hand of the reader of stream i goes into the queue; t is
\* what the stream becomes.
PutsInQueue(c, i, h, t) ==
    /\ ReadingStep(c) /\ peer[c] # None /\ UNCHANGED recvVars /\ UNCHANGED <<peer, lane, mailbox>>
    /\ h = net[c].streams[i].held /\ h # NoFrame /\ queue'[c] = Append(queue[c], h)
    /\ Stream(c, i, t) /\ t.held = NoFrame /\ t.cut = net[c].streams[i].cut
    /\ t.epoch \in {net[c].streams[i].epoch, h.epoch} /\ t.frames = net[c].streams[i].frames

LEMMA QueuesWell ==
    ASSUME IInv, NEW c \in Conns, NEW i \in Streams(c), NEW h, NEW t \in StreamStates,
           PutsInQueue(c, i, h, t)
    PROVE  IInv'
  <1>01. /\ ReadingStep(c) /\ peer[c] # None /\ queue'[c] = Append(queue[c], h)
         /\ UNCHANGED <<peer, lane, mailbox, inbound, phase, releases>>
    BY DEF PutsInQueue, recvVars
  <1>02. h = net[c].streams[i].held /\ h # NoFrame
    BY DEF PutsInQueue
  <1>05. /\ Types /\ Kinds(c) /\ HeardOf(c) /\ OwnedOnce(c) /\ SenderKnows(c) /\ Row(c) /\ AllAnswered(c)
         /\ net[c] \in Nets /\ mailbox[c] \in Frames /\ queue[c] \in Seq(Frames) /\ Heard(c) \in Nat
         /\ inbound[c].retired \in Nat /\ session.epoch \in Nat
    BY Known, SMTT(60), ZenonT(60)
  <1>1. /\ OwnedOnce(c)' /\ Streams(c)' = Streams(c)
        /\ net'[c].urgent = net[c].urgent /\ net'[c].rushed = net[c].rushed
        /\ net'[c].datagrams = net[c].datagrams
        /\ h \in Frames /\ WellWritten(h) /\ h.epoch \in 1..EpochMax /\ h.epoch <= Heard(c)
        /\ \A j \in Streams(c) :
              /\ net'[c].streams[j].epoch \in Nat /\ net'[c].streams[j].held.epoch \in Nat
              /\ net'[c].streams[j].epoch <= Heard(c) /\ net'[c].streams[j].held.epoch <= Heard(c)
              /\ net'[c].streams[j].held = NoFrame \/ WellWritten(net'[c].streams[j].held)
              /\ \A k \in DOMAIN net'[c].streams[j].frames : WellWritten(net'[c].streams[j].frames[k])
              /\ net'[c].streams[j].cut = net[c].streams[j].cut
              /\ \/ net'[c].streams[j].epoch = net[c].streams[j].epoch
                 \/ j = i /\ net'[c].streams[j].epoch = h.epoch
              /\ \/ net'[c].streams[j].held = net[c].streams[j].held
                 \/ net'[c].streams[j].held.epoch = 0
              /\ \/ net'[c].streams[j].frames = net[c].streams[j].frames
                 \/ net'[c].streams[j].frames = <<>>
        /\ \A f \in Frames : Input(f) => (InReader(c, f)' <=> InReader(c, f) /\ f # h)
        /\ \A f \in Frames : InReader(c, f)' => f = NoFrame \/ InReader(c, f)
        /\ \A f \in Frames : InReader(c, f)' /\ Input(f) => f.epoch # h.epoch
        /\ InReader(c, h)
    <2>1. HandEmptied(c, i, h)
      BY LetsGo DEF PutsInQueue
    <2> QED
      BY <2>1 DEF HandEmptied
  <1>2. Types'
    BY <1>01, <1>05, ReadingTypes
  <1>3. UNCHANGED <<peer, current, session, worker, inbound, lane>>
    BY <1>01, SMTT(60), ZenonT(60) DEF ReadingStep
  <1>4. Input(h) /\ h.kind \in {"Enter", "Key"} /\ h.epoch # 0
    BY <1>1 DEF WellWritten, Input
  <1>5. /\ DOMAIN queue'[c] = 1..Len(queue[c]) + 1 /\ DOMAIN queue[c] = 1..Len(queue[c])
        /\ Len(queue[c]) \in Nat
        /\ queue'[c][Len(queue[c]) + 1] = h
        /\ \A k \in 1..Len(queue[c]) : queue'[c][k] = queue[c][k]
    BY <1>1, <1>01, <1>05, Appends
  <1>6. \A k \in DOMAIN queue'[c] :
            \/ k \in DOMAIN queue[c] /\ queue'[c][k] = queue[c][k]
            \/ queue'[c][k] = h
    <2>1. \A k \in 1..Len(queue[c]) + 1 : k \in 1..Len(queue[c]) \/ k = Len(queue[c]) + 1
      BY <1>5
    <2> QED
      BY <1>5, <2>1
  <1>7. Kinds(c)'
    <2>1. \A k \in DOMAIN queue'[c] : queue'[c][k].kind \in {"Enter", "Key", "ReleaseAll"}
                                       /\ queue'[c][k].epoch # 0
      BY <1>4, <1>05, <1>6 DEF Kinds
    <2>2. 0 \notin net'[c].urgent \cup net'[c].rushed \cup net'[c].datagrams
      BY <1>1, <1>05 DEF Kinds
    <2>3. /\ mailbox'[c] = NoFrame \/ (mailbox'[c].kind = "Motion" /\ mailbox'[c].epoch # 0)
          /\ worker'[c].pc = "hold" => worker'[c].frame.kind # "None" /\ worker'[c].frame.epoch # 0
          /\ worker'[c].pc # "hold" => worker'[c].frame = NoFrame
      BY <1>01, <1>3, <1>05 DEF Kinds
    <2>4. \A j \in Streams(c)' :
             /\ \A k \in DOMAIN net'[c].streams[j].frames : WellWritten(net'[c].streams[j].frames[k])
             /\ net'[c].streams[j].held = NoFrame \/ WellWritten(net'[c].streams[j].held)
      BY <1>1
    <2> QED
      BY <2>1, <2>2, <2>3, <2>4 DEF Kinds
  <1>8. Heard(c)' = Heard(c) /\ Heard(c) \in Nat
    BY <1>3, <1>05 DEF Heard
  <1>9. HeardOf(c)'
    <2>1. \A k \in DOMAIN queue'[c] :
               \/ k \in DOMAIN queue[c] /\ queue'[c][k] = queue[c][k]
               \/ /\ queue'[c][k].epoch <= Heard(c)'
                  /\ queue'[c][k].kind = "ReleaseAll" => queue'[c][k].epoch <= inbound'[c].retired
      BY <1>1, <1>4, <1>6, <1>8
    <2>2. /\ mailbox'[c].epoch <= Heard(c)' /\ \A e \in net'[c].rushed : e <= inbound'[c].retired
          /\ releases'[c].high <= inbound'[c].retired /\ (inbound'[c].terminal => ~Open(c)')
      BY <1>01, <1>1, <1>3, <1>05, <1>8 DEF HeardOf, Open
    <2>3. inbound'[c].retired >= inbound[c].retired /\ Heard(c)' >= Heard(c)
      BY <1>3, <1>05, <1>8
    <2>4. \A j \in Streams(c)' :
             net'[c].streams[j].epoch <= Heard(c)' /\ net'[c].streams[j].held.epoch <= Heard(c)'
      BY <1>1, <1>8, SMTT(60), ZenonT(60)
    <2> QED
      BY <1>2, <1>3, <1>05, <2>1, <2>2, <2>3, <2>4, HeardKeeps
  <1>10. Row(c)' /\ \A f \in Frames : Input(f) => (OnItsWay(c, f)' <=> OnItsWay(c, f))
    BY <1>01, <1>1, <1>02, <1>3, <1>4, QueuedRow DEF PutsInQueue
  <1>11. SenderKnows(c)'
    <2> SUFFICES ASSUME Open(c)' PROVE SenderKnows(c)'
      BY DEF SenderKnows
    <2>0. Open(c) /\ lane[c].active \in Nat /\ lane[c].retired \in Nat
      BY <1>01, <1>05, LanesConstantsAssumption, SMTT(60), ZenonT(60) DEF Types, LaneStates, Epochs, Open
    <2>1. ASSUME NEW j \in Streams(c)
          PROVE  Accounted(c, net[c].streams[j], lane[c])'
      <3> DEFINE through == IF net[c].streams[j].cut THEN lane[c].retired ELSE SentThrough(lane[c])
      <3>1. Accounted(c, net[c].streams[j], lane[c])
        BY <1>05, <2>0 DEF SenderKnows
      <3>2. through \in Nat
        BY <1>05, <2>0, StreamsTyped, SMTT(60), ZenonT(60) DEF SentThrough, Larger, Streams
      <3>3. net[c].streams[j].epoch <= through /\ net[c].streams[j].held.epoch <= through
        BY <3>1 DEF Accounted
      <3>4. net'[c].streams[j].epoch <= through /\ net'[c].streams[j].held.epoch <= through
        <4>1. /\ \/ net'[c].streams[j].epoch = net[c].streams[j].epoch
                 \/ j = i /\ net'[c].streams[j].epoch = h.epoch
              /\ \/ net'[c].streams[j].held = net[c].streams[j].held
                 \/ net'[c].streams[j].held.epoch = 0
          BY <1>1
        <4>2. j = i => h.epoch <= through
          BY <1>02, <3>3
        <4>3. 0 <= through
          BY <3>2
        <4> HIDE DEF through
        <4> QED
          BY <3>3, <4>1, <4>2, <4>3
      <3>5. \A k \in DOMAIN net'[c].streams[j].frames :
              /\ net'[c].streams[j].frames[k].epoch <= through
              /\ \/ net'[c].streams[j].frames[k].epoch = lane[c].active
                 \/ net'[c].streams[j].frames[k].epoch \in net[c].urgent
                 \/ net'[c].streams[j].frames[k].epoch <= inbound[c].retired
        <4> HIDE DEF through
        <4>1. \A k \in DOMAIN net[c].streams[j].frames :
                /\ net[c].streams[j].frames[k].epoch <= through
                /\ \/ net[c].streams[j].frames[k].epoch = lane[c].active
                   \/ net[c].streams[j].frames[k].epoch \in net[c].urgent
                   \/ net[c].streams[j].frames[k].epoch <= inbound[c].retired
          BY <3>1 DEF Accounted, through
        <4>2. net'[c].streams[j].frames = net[c].streams[j].frames \/ net'[c].streams[j].frames = <<>>
          BY <1>1
        <4> QED
          BY <4>1, <4>2, SMTT(60), ZenonT(60)
      <3> QED
        BY <1>1, <1>3, <3>4, <3>5 DEF Accounted
    <2>2. /\ lane'[c].active # 0 => lane'[c].active > lane'[c].retired
          /\ inbound'[c].active # 0 => inbound'[c].active = lane'[c].active \/ inbound'[c].active \in net'[c].urgent
      BY <1>1, <1>3, <1>05, <2>0 DEF SenderKnows
    <2> QED
      BY <1>1, <2>1, <2>2 DEF SenderKnows
  <1>12. AllAnswered(c)'
    <2>1. ASSUME NEW f \in Frames
          PROVE  /\ OnItsWay(c, f)' => f = NoFrame \/ OnItsWay(c, f)
                 /\ OnItsWay(c, f) /\ f # NoFrame => OnItsWay(c, f)'
      <3>1. InQueue(c, f)' => InQueue(c, f) \/ f = h
        BY <1>6 DEF InQueue
      <3>2. InQueue(c, f) => InQueue(c, f)'
        BY <1>5 DEF InQueue
      <3>3. OnItsWay(c, f)' => f = NoFrame \/ OnItsWay(c, f)
        BY <1>1, <1>3, <3>1 DEF OnItsWay, InHand
      <3>4. InReader(c, f) /\ f # NoFrame => Input(f)
        BY <1>05 DEF InReader, Kinds, WellWritten
      <3>5. OnItsWay(c, f) /\ f # NoFrame => OnItsWay(c, f)'
        <4>1. InReader(c, f) /\ f # NoFrame => OnItsWay(c, f)'
          BY <1>10, <3>4 DEF OnItsWay
        <4> QED
          BY <1>3, <3>2, <4>1 DEF OnItsWay, InHand
      <3> QED
        BY <3>3, <3>5
    <2>2. ASSUME NEW f \in Frames, OnItsWay(c, f)' \/ mailbox'[c] = f, f.epoch > session.epoch
          PROVE  OnItsWay(c, f) \/ mailbox[c] = f \/ Answered(c, f.epoch)'
      <3>1. f # NoFrame
        BY <1>01, <1>05, <2>2, FramesTyped, Known
      <3> QED
        BY <1>01, <2>1, <2>2, <3>1
    <2>3. ASSUME NEW x \in Nat, Answered(c, x) PROVE Answered(c, x)'
      <3>1. \A f \in Frames : OnItsWay(c, f) /\ Ends(f, x) => OnItsWay(c, f)'
        BY <2>1, <2>3, FramesTyped DEF Ends
      <3> QED
        BY <1>01, <1>1, <1>3, <2>3, <3>1 DEF Answered, Open
    <2> QED
      BY <1>3, <1>05, <2>2, <2>3, AnswersKeep
  <1> QED
    BY <1>01, <1>7, <1>9, <1>10, <1>11, <1>12, <1>1, ReadingStepKeeps DEF Local

LEMMA LosesHeld ==
    ASSUME IInv, NEW c \in Conns, NEW i \in Streams(c), ReadingStep(c), peer[c] # None,
           UNCHANGED <<queue, mailbox>>,
           NEW h, h = net[c].streams[i].held, h # NoFrame, NEW t \in StreamStates,
           Stream(c, i, t), t.held = NoFrame, t.cut = net[c].streams[i].cut,
           t.epoch = net[c].streams[i].epoch, t.frames = <<>>,
           inbound'[c].active = 0, inbound'[c].retired >= Heard(c), ~Open(c)',
           releases'[c].high <= inbound'[c].retired, Heard(c)' = inbound'[c].retired,
           inbound'[c].retired \in Nat
    PROVE  IInv'
  <1>1. /\ OwnedOnce(c)' /\ Streams(c)' = Streams(c)
        /\ net'[c].urgent = net[c].urgent /\ net'[c].rushed = net[c].rushed
        /\ net'[c].datagrams = net[c].datagrams
        /\ h \in Frames /\ WellWritten(h)
        /\ \A j \in Streams(c) :
              /\ net'[c].streams[j].epoch \in Nat /\ net'[c].streams[j].held.epoch \in Nat
              /\ net'[c].streams[j].epoch <= Heard(c) /\ net'[c].streams[j].held.epoch <= Heard(c)
              /\ net'[c].streams[j].held = NoFrame \/ WellWritten(net'[c].streams[j].held)
              /\ \A k \in DOMAIN net'[c].streams[j].frames : WellWritten(net'[c].streams[j].frames[k])
        /\ \A f \in Frames : Input(f) => (InReader(c, f)' <=> InReader(c, f) /\ f # h)
        /\ \A f \in Frames : InReader(c, f)' /\ Input(f) => f.epoch # h.epoch
        /\ InReader(c, h)
    <2>1. HandEmptied(c, i, h)
      BY LetsGo
    <2> QED
      BY <2>1 DEF HandEmptied
  <1>2. Types'
    BY Known, ReadingTypes
  <1>3. UNCHANGED <<peer, current, session, worker>>
    BY DEF ReadingStep, sendVars
  <1>4. Kinds(c)'
    <2>2. 0 \notin net'[c].urgent \cup net'[c].rushed \cup net'[c].datagrams
      BY <1>1, Known DEF Kinds
    <2>3. /\ \A k \in DOMAIN queue'[c] : queue'[c][k].kind \in {"Enter", "Key", "ReleaseAll"}
                                       /\ queue'[c][k].epoch # 0
          /\ mailbox'[c] = NoFrame \/ (mailbox'[c].kind = "Motion" /\ mailbox'[c].epoch # 0)
          /\ worker'[c].pc = "hold" => worker'[c].frame.kind # "None" /\ worker'[c].frame.epoch # 0
          /\ worker'[c].pc # "hold" => worker'[c].frame = NoFrame
      BY <1>3, Known, SMTT(60), ZenonT(60) DEF Kinds
    <2>4. \A j \in Streams(c)' :
             /\ \A k \in DOMAIN net'[c].streams[j].frames : WellWritten(net'[c].streams[j].frames[k])
             /\ net'[c].streams[j].held = NoFrame \/ WellWritten(net'[c].streams[j].held)
      BY <1>1
    <2> QED
      BY <2>2, <2>3, <2>4, SMTT(60), ZenonT(60) DEF Kinds
  <1>5. HeardOf(c)'
    <2>1. inbound'[c].retired >= inbound[c].retired /\ Heard(c)' >= Heard(c)
      BY Known
    <2>2. \A j \in Streams(c)' :
             net'[c].streams[j].epoch <= Heard(c)' /\ net'[c].streams[j].held.epoch <= Heard(c)'
      BY <1>1, <2>1, Known
    <2>3. \A x \in net'[c].rushed : x <= inbound'[c].retired
      <3>1. \A x \in net[c].rushed : x \in Nat
        BY Known, LanesConstantsAssumption DEF Nets, Epochs
      <3>2. \A x \in net[c].rushed : x <= inbound[c].retired
        BY Known DEF HeardOf
      <3> QED
        BY <1>1, <2>1, <3>1, <3>2, Known
    <2>4. mailbox'[c].epoch <= Heard(c)'
      <3>1. mailbox[c].epoch <= Heard(c)
        BY Known, SMTT(60), ZenonT(60) DEF HeardOf
      <3> QED
        BY <2>1, <3>1, Known
    <2> QED
      BY <1>2, <1>3, <2>1, <2>2, <2>3, <2>4, Known, HeardKeeps
  <1>6. Input(h)
    BY <1>1 DEF WellWritten
  <1>7. Row(c)'
    BY <1>1, <1>3, <1>6, DroppedRow
  <1>8. AllAnswered(c)' /\ SenderKnows(c)'
    BY ClosedOwesNothing
  <1> QED
    BY <1>1, <1>4, <1>5, <1>7, <1>8, ReadingStepKeeps, SMTT(60), ZenonT(60) DEF Local

LEMMA QueueReliableKeeps ==
    ASSUME IInv, NEW c \in Conns, NEW i \in Streams(c), QueueReliable(c, i)
    PROVE  IInv'
  <1> DEFINE s == net[c].streams[i]
             h == s.held
             e == IF h.kind = "Enter" THEN h.epoch ELSE s.epoch
  <1>0. h # NoFrame /\ Types /\ peer[c] # None /\ UNCHANGED <<sendVars, mailbox, worker, current, mainVars, session>>
    BY Made DEF QueueReliable, IInv
  <1>1. s \in StreamStates /\ h \in Frames /\ h.epoch \in Epochs
    BY Known, StreamsTyped DEF Streams
  <1>2. /\ Left(s) \in StreamStates /\ Left(s).frames = <<>> /\ Left(s).held = NoFrame
        /\ Left(s).epoch = s.epoch /\ Left(s).cut = s.cut
    BY <1>1, Leaving
  <1>3. CASE ~HasRoom(c)
    <2>1. FailDelivery(c, h.epoch) /\ Stream(c, i, Left(s)) /\ UNCHANGED queue
      BY <1>3 DEF QueueReliable
    <2>2. h.epoch <= Heard(c)
      BY Known DEF HeardOf
    <2>3. /\ Received(c) /\ inbound'[c].active = 0 /\ inbound'[c].retired >= Heard(c) /\ ~Open(c)'
          /\ releases'[c].high <= inbound'[c].retired /\ Heard(c)' = inbound'[c].retired
          /\ inbound'[c].retired \in Nat
      BY <1>1, <2>1, <2>2, FailsDelivery
    <2>4. net' \in [Conns -> Nets] /\ \A d \in Conns : d # c => net'[d] = net[d]
      BY <1>0, <1>2, <2>1, StreamSets
    <2>5. ReadingStep(c)
      BY <1>0, <2>1, <2>3, <2>4 DEF ReadingStep, Types
    <2> QED
      BY <1>0, <1>2, <2>1, <2>3, <2>5, LosesHeld
  <1>4. CASE HasRoom(c)
    <2> DEFINE t == [s EXCEPT !.held = NoFrame, !.epoch = e]
    <2>1. /\ queue' = [queue EXCEPT ![c] = Append(@, h)]
          /\ Stream(c, i, t) /\ UNCHANGED recvVars
      <3>1. /\ queue' = [queue EXCEPT ![c] = Append(@, h)]
            /\ Stream(c, i, [s EXCEPT !.held = NoFrame, !.epoch = IF h.kind = "Enter" THEN h.epoch ELSE @])
            /\ UNCHANGED recvVars
        BY <1>4 DEF QueueReliable
      <3>2. [s EXCEPT !.held = NoFrame, !.epoch = IF h.kind = "Enter" THEN h.epoch ELSE @] = t
        BY <1>1 DEF StreamStates
      <3> QED
        BY <3>1, <3>2
    <2>2. /\ t \in StreamStates /\ t.held = NoFrame /\ t.cut = s.cut /\ t.frames = s.frames
          /\ t.epoch = e
      <3>1. [s EXCEPT !.held = NoFrame] = [frames |-> s.frames, cut |-> s.cut, epoch |-> s.epoch,
                                           held |-> NoFrame, gone |-> s.gone]
        BY <1>1 DEF StreamStates
      <3>2. t = [[frames |-> s.frames, cut |-> s.cut, epoch |-> s.epoch,
                  held |-> NoFrame, gone |-> s.gone] EXCEPT !.epoch = e]
        BY <3>1, ZenonT(60), SMTT(60)
      <3>3. t = [frames |-> s.frames, cut |-> s.cut, epoch |-> e, held |-> NoFrame, gone |-> s.gone]
        BY <3>2
      <3> QED
        BY <1>1, <3>3, FramesTyped DEF StreamStates
    <2> HIDE DEF t
    <2>3. net' \in [Conns -> Nets] /\ \A d \in Conns : d # c => net'[d] = net[d]
      BY <1>0, <2>1, <2>2, StreamSets
    <2>4. Received(c)
      BY <1>0, <2>1, Unsettled
    <2>5. /\ queue' \in [Conns -> Seq(Frames)] /\ queue'[c] = Append(queue[c], h)
          /\ \A d \in Conns : Len(queue'[d]) <= QueueCap
          /\ \A d \in Conns : d # c => queue'[d] = queue[d]
      <3>1. /\ queue \in [Conns -> Seq(Frames)] /\ Append(queue[c], h) \in Seq(Frames)
            /\ \A d \in Conns : Len(queue[d]) <= QueueCap
        BY <1>0, <1>1 DEF Types
      <3>2. Len(Append(queue[c], h)) <= QueueCap
        <4>1. Len(Append(queue[c], h)) = Len(queue[c]) + 1 /\ Len(queue[c]) \in Nat
          BY <1>1, <3>1, Appends
        <4> QED
          BY <1>4, <4>1, LanesConstantsAssumption DEF HasRoom
      <3> QED
        BY <2>1, <3>1, <3>2
    <2>6. ReadingStep(c)
      BY <1>0, <2>3, <2>4, <2>5 DEF ReadingStep, Types
    <2>7. t.epoch \in {s.epoch, h.epoch}
      BY <2>2
    <2>8. UNCHANGED <<peer, lane>>
      BY <1>0 DEF sendVars
    <2> HIDE DEF e
    <2>9. PutsInQueue(c, i, h, t)
      BY <1>0, <2>1, <2>2, <2>5, <2>6, <2>7, <2>8 DEF PutsInQueue, h, s
    <2> QED
      BY <2>2, <2>9, QueuesWell
  <1> QED
    BY <1>3, <1>4

\* A step of the worker of c.
WorkStep(c) ==
    /\ UNCHANGED <<peer, phase, lane, net, inbound>>
    /\ \A d \in Conns : releases'[d].high = releases[d].high
    /\ \A d \in Conns : d # c =>
          /\ releases'[d] = releases[d] /\ queue'[d] = queue[d] /\ mailbox'[d] = mailbox[d]
          /\ worker'[d] = worker[d]

\* What the worker has and is queued for it was there before.
Fewer(c) ==
    /\ \A k \in DOMAIN queue'[c] : \E l \in DOMAIN queue[c] : queue'[c][k] = queue[c][l]
    /\ mailbox'[c] \in {mailbox[c], NoFrame}
    /\ worker'[c].pc # "hold" => worker'[c].frame = NoFrame
    /\ worker'[c].pc = "hold" => \/ worker[c].pc = "hold" /\ worker'[c].frame = worker[c].frame
                                 \/ InQueue(c, worker'[c].frame)
                                 \/ mailbox[c] # NoFrame /\ worker'[c].frame = mailbox[c]

LEMMA WorkStepKeeps ==
    ASSUME IInv, Types', NEW c \in Conns, WorkStep(c), Fewer(c),
           \A d \in Conns : d # c => Milder(d) /\ (Serving(d)' => Serving(d)),
           \/ session'.epoch = session.epoch /\ (session'.owner = c => session.owner = c)
           \/ session'.owner = c /\ worker[c].pc = "hold" /\ session'.epoch = worker[c].frame.epoch,
           LinkInv', SessionInv', Row(c)', AllAnswered(c)'
    PROVE  IInv'
  <1>1. ASSUME NEW d \in Conns, d # c PROVE Local(d)'
    <2>1. Alike(d)
      BY <1>1 DEF WorkStep, Alike
    <2> QED
      BY <1>1, <2>1, AlikeKeeps DEF IInv
  <1>2. Kinds(c)'
    <2>1. Streams(c)' = Streams(c) /\ net'[c] = net[c]
      BY DEF WorkStep, Streams
    <2>2. \A k \in DOMAIN queue'[c] : queue'[c][k].kind \in {"Enter", "Key", "ReleaseAll"}
                                       /\ queue'[c][k].epoch # 0
      BY Known DEF Kinds, Fewer
    <2>3. mailbox'[c] = NoFrame \/ (mailbox'[c].kind = "Motion" /\ mailbox'[c].epoch # 0)
      BY Known DEF Kinds, Fewer
    <2>4. worker'[c].pc = "hold" => worker'[c].frame.kind # "None" /\ worker'[c].frame.epoch # 0
      <3>1. InQueue(c, worker'[c].frame) => worker'[c].frame.kind # "None" /\ worker'[c].frame.epoch # 0
        <4>1. \A k \in DOMAIN queue[c] : queue[c][k].kind # "None" /\ queue[c][k].epoch # 0
          BY Known DEF Kinds
        <4> QED
          BY <4>1 DEF InQueue
      <3> QED
        BY <3>1, Known DEF Kinds, Fewer
    <2>5. worker'[c].pc # "hold" => worker'[c].frame = NoFrame
      BY DEF Fewer
    <2> QED
      BY <2>1, <2>2, <2>3, <2>4, <2>5, Known DEF Kinds
  <1>3. HeardOf(c)'
    <2>1. /\ Streams(c)' = Streams(c) /\ net'[c] = net[c] /\ inbound'[c] = inbound[c] /\ Heard(c)' = Heard(c)
          /\ phase'[c] = phase[c] /\ releases'[c].high = releases[c].high
      BY DEF WorkStep, Streams, Heard
    <2>2. \A k \in DOMAIN queue'[c] :
             /\ queue'[c][k].epoch <= Heard(c)
             /\ queue'[c][k].kind = "ReleaseAll" => queue'[c][k].epoch <= inbound[c].retired
      BY Known DEF HeardOf, Fewer
    <2>3. mailbox'[c].epoch <= Heard(c)
      BY Known, FramesTyped DEF HeardOf, Fewer
    <2>4. /\ worker'[c].frame.epoch <= Heard(c)
          /\ worker'[c].frame.kind = "ReleaseAll" => worker'[c].frame.epoch <= inbound[c].retired
      <3>1. CASE worker'[c].pc # "hold"
        BY <3>1, Known, FramesTyped DEF Fewer
      <3>2. CASE worker'[c].frame = worker[c].frame
        BY <3>2, Known DEF HeardOf
      <3>3. CASE InQueue(c, worker'[c].frame)
        BY <3>3, Known DEF HeardOf, InQueue
      <3>4. CASE mailbox[c] # NoFrame /\ worker'[c].frame = mailbox[c]
        BY <3>4, Known DEF HeardOf, Kinds
      <3> QED
        BY <3>1, <3>2, <3>3, <3>4 DEF Fewer
    <2>5. session'.owner = c => session'.epoch <= Heard(c)
      BY Known DEF HeardOf
    <2> QED
      BY <2>1, <2>2, <2>3, <2>4, <2>5, Known DEF HeardOf, Open
  <1>4. OwnedOnce(c)'
    BY Known, SMTT(60), ZenonT(60) DEF OwnedOnce, Streams, WorkStep
  <1>5. SenderKnows(c)'
    BY Known DEF SenderKnows, Accounted, Streams, WorkStep, Open
  <1> QED
    BY <1>1, <1>2, <1>3, <1>4, <1>5 DEF IInv, Local

\* A worker that has left owes nothing to what is on its way.
LEMMA LeftOwesNothing ==
    ASSUME NEW c \in Conns, worker'[c].pc \in {"end", "done"}
    PROVE  Row(c)' /\ AllAnswered(c)'
  BY DEF Row, AllAnswered, Serving, HandFits

LEMMA WorkLinkKeeps ==
    ASSUME IInv, NEW c \in Conns, WorkStep(c), current' = current, worker[c].pc # "off",
           worker'[c].pc \in {"wait", "hold", "end"},
           worker'[c].pc = "end" /\ ~worker'[c].failed => phase[c] = "ended" \/ ~IsCurrent(c)
    PROVE  LinkInv' /\ \A d \in Conns : d # c => (Serving(d)' => Serving(d))
  <1>1. peer[c] # None
    BY Made
  <1>2. /\ UNCHANGED <<peer, phase, lane, net, inbound>>
        /\ \A d \in Conns : d # c => releases'[d] = releases[d] /\ queue'[d] = queue[d] /\ mailbox'[d] = mailbox[d]
                                      /\ worker'[d] = worker[d]
    BY DEF WorkStep
  <1>3. \A d \in Conns : IsCurrent(d)' <=> IsCurrent(d)
    BY <1>2 DEF IsCurrent
  <1>4. \A d \in Conns : peer'[d] = None => Unmade(d)'
    BY <1>1, <1>2 DEF Unmade, IInv, LinkInv
  <1>5. \A d, x \in Conns : d < x /\ worker'[x].pc # "off" => worker'[d].pc # "off"
    BY <1>2 DEF IInv, LinkInv
  <1>6. \A p \in Peers : current'[p] # 0 =>
          peer'[current'[p]] = p /\ worker'[current'[p]].pc \in {"wait", "hold", "end"}
    <2> SUFFICES ASSUME NEW p \in Peers, current[p] # 0
                 PROVE  peer[current[p]] = p /\ worker'[current[p]].pc \in {"wait", "hold", "end"}
      BY <1>2
    <2>1. peer[current[p]] = p /\ worker[current[p]].pc \in {"wait", "hold", "end"}
      BY DEF IInv, LinkInv
    <2>2. current[p] \in Conns
      BY LanesConstantsAssumption DEF IInv, Types, Conns
    <2> QED
      BY <1>2, <2>1, <2>2
  <1>7. \A d \in Conns : worker'[d].pc = "end" /\ ~worker'[d].failed => phase'[d] = "ended" \/ ~IsCurrent(d)'
    BY <1>2, <1>3 DEF IInv, LinkInv
  <1>8. LinkInv'
    BY <1>2, <1>4, <1>5, <1>6, <1>7 DEF IInv, LinkInv, Open
  <1> QED
    BY <1>2, <1>3, <1>8 DEF Serving

\* The session is at most closed.
Closes ==
    \/ session' = session
    \/ session' = [session EXCEPT !.open = FALSE]
    \/ session' = [session EXCEPT !.open = FALSE, !.lapsed = TRUE]

LEMMA ClosesWell ==
    ASSUME Types, Closes
    PROVE  /\ session' \in Sessions /\ session'.epoch = session.epoch /\ session'.owner = session.owner
           /\ session'.rel = session.rel /\ (session'.open => session.open)
           /\ \A d : Milder(d)
  <1>1. session \in Sessions
    BY DEF Types
  <1>2. CASE session' = session
    BY <1>1, <1>2 DEF Milder
  <1>3. CASE session' = [session EXCEPT !.open = FALSE]
    BY <1>1, <1>3 DEF Milder, Sessions
  <1>4. CASE session' = [session EXCEPT !.open = FALSE, !.lapsed = TRUE]
    <2>1. /\ session'.owner = session.owner /\ session'.epoch = session.epoch /\ ~session'.open
          /\ session'.rel = session.rel /\ session' \in Sessions
      BY <1>1, <1>4 DEF Sessions
    <2> QED
      BY <2>1 DEF Milder
  <1> QED
    BY <1>2, <1>3, <1>4 DEF Closes

LEMMA ReleasesClose ==
    ASSUME NEW c, NEW e, session' = ReleasedThrough(c, e)
    PROVE  Closes
  BY DEF ReleasedThrough, Closes

\* The session is at most closed, and the worker of c leaves or keeps its session.
LEMMA ClosedSessionKeeps ==
    ASSUME IInv, NEW c \in Conns, WorkStep(c), Closes,
           worker'[c].pc # "off" \/ worker'[c].pc = worker[c].pc,
           \/ worker'[c].active = worker[c].active /\ (worker'[c].pc \in {"wait", "hold"} => worker[c].pc \in {"wait", "hold"})
           \/ worker'[c].active = 0 /\ worker'[c].pc \notin {"wait", "hold"}
           \/ worker'[c].active = worker[c].active /\ session.owner # c
    PROVE  SessionInv'
  <1>1. /\ session'.epoch = session.epoch /\ session'.owner = session.owner
        /\ (session'.open => session.open) /\ 0 <= session.epoch
    <2>1. session.epoch \in Nat
      BY Known
    <2> QED
      BY <2>1, ClosesWell DEF IInv
  <1>2. SessionInv
    BY DEF IInv
  <1>3. \A d \in Conns : d # c => worker'[d] = worker[d]
    BY DEF WorkStep
  <1>4. ASSUME NEW d \in Conns
        PROVE  /\ session'.owner = d /\ worker'[d].pc \in {"wait", "hold"} => worker'[d].active = session'.epoch
               /\ session'.owner = d => worker'[d].pc # "off"
               /\ worker'[d].active <= session'.epoch
    <2>1. CASE d # c
      BY <1>1, <1>2, <1>3, <2>1 DEF SessionInv
    <2>2. CASE d = c
      BY <1>1, <1>2, <2>2 DEF SessionInv
    <2> QED
      BY <2>1, <2>2
  <1> QED
    BY <1>1, <1>2, <1>4 DEF SessionInv

LEMMA WorkersTyped ==
    ASSUME Types, NEW c \in Conns, NEW w \in Workers, worker' = [worker EXCEPT ![c] = w]
    PROVE  /\ worker' \in [Conns -> Workers] /\ worker'[c] = w
           /\ \A d \in Conns : d # c => worker'[d] = worker[d]
  BY DEF Types

LEMMA FreshTyped ==
    ASSUME NEW p \in {"end", "done"}, NEW failed \in BOOLEAN, NEW w,
           w = [FreshWorker EXCEPT !.pc = p, !.failed = failed]
    PROVE  /\ w \in Workers /\ w.pc = p /\ w.failed = failed /\ w.active = 0 /\ w.frame = NoFrame
  BY FramesTyped DEF FreshWorker, Workers

\* The worker of c leaves.
LEMMA LeavesKeeps ==
    ASSUME IInv, NEW c \in Conns, worker[c].pc \in {"wait", "hold"}, NEW failed \in BOOLEAN, Leaves(c, failed),
           failed \/ phase[c] = "ended" \/ ~IsCurrent(c), Closes,
           UNCHANGED <<sendVars, net, recvVars, queue, mailbox, current, mainVars>>
    PROVE  IInv'
  <1> USE DEF sendVars, recvVars, mainVars
  <1> DEFINE w == [FreshWorker EXCEPT !.pc = "end", !.failed = failed]
  <1>0. Types
    BY DEF IInv
  <1>1. /\ w \in Workers /\ w.pc = "end" /\ w.failed = failed /\ w.active = 0 /\ w.frame = NoFrame
    BY FreshTyped
  <1>2. /\ worker' \in [Conns -> Workers] /\ worker'[c] = w /\ \A d \in Conns : d # c => worker'[d] = worker[d]
    <2> HIDE DEF w
    <2>1. worker' = [worker EXCEPT ![c] = w]
      BY DEF Leaves, w
    <2> QED
      BY <1>0, <1>1, <2>1, WorkersTyped
  <1> HIDE DEF w
  <1>3. session' \in Sessions /\ \A d : Milder(d)
    BY <1>0, ClosesWell
  <1>4. Types'
    BY <1>0, <1>2, <1>3 DEF Types
  <1>5. WorkStep(c)
    BY <1>2 DEF WorkStep
  <1>6. LinkInv' /\ \A d \in Conns : d # c => (Serving(d)' => Serving(d))
    BY <1>1, <1>2, <1>5, WorkLinkKeeps
  <1>7. SessionInv'
    BY <1>1, <1>2, <1>5, ClosedSessionKeeps
  <1>8. Row(c)' /\ AllAnswered(c)'
    BY <1>1, <1>2, LeftOwesNothing
  <1>9. Fewer(c)
    BY <1>1, <1>2 DEF Fewer
  <1>10. session'.epoch = session.epoch /\ session'.owner = session.owner
    BY <1>0, ClosesWell
  <1> QED
    BY <1>3, <1>4, <1>5, <1>6, <1>7, <1>8, <1>9, <1>10, WorkStepKeeps

LEMMA LanesClosedKeeps ==
    ASSUME IInv, NEW c \in Conns, LanesClosed(c)
    PROVE  IInv'
  BY LeavesKeeps DEF LanesClosed, Closes

LEMMA SubmitFailsKeeps ==
    ASSUME IInv, NEW c \in Conns, SubmitFails(c)
    PROVE  IInv'
  <1>1. CASE ~Mine(c) /\ ~IsCurrent(c)
    <2>1. Leaves(c, FALSE) /\ Closes
      BY <1>1 DEF SubmitFails, Closes
    <2> QED
      BY <1>1, <2>1, LeavesKeeps DEF SubmitFails, Submits
  <1>2. CASE ~(~Mine(c) /\ ~IsCurrent(c))
    <2>1. Leaves(c, TRUE) /\ session' = ReleasedThrough(c, worker[c].frame.epoch)
      BY <1>2 DEF SubmitFails
    <2>2. Closes
      BY <2>1, ReleasesClose
    <2> QED
      BY <2>1, <2>2, LeavesKeeps DEF SubmitFails, Submits
  <1> QED
    BY <1>1, <1>2

LEMMA BeginFailsKeeps ==
    ASSUME IInv, NEW c \in Conns, worker[c].pc = "hold", session' = ReleasedThrough(c, worker[c].frame.epoch),
           Leaves(c, TRUE), UNCHANGED <<sendVars, net, recvVars, queue, mailbox, current, mainVars>>
    PROVE  IInv'
  <1>1. Closes
    BY ReleasesClose
  <1> QED
    BY <1>1, LeavesKeeps

LEMMA FinishKeeps ==
    ASSUME IInv, NEW c \in Conns, Finish(c)
    PROVE  IInv'
  <1> USE DEF sendVars, recvVars, mainVars
  <1> DEFINE w == [FreshWorker EXCEPT !.pc = "done"]
  <1>0. Types /\ peer[c] \in Peers /\ UNCHANGED <<sendVars, net, recvVars, mainVars>> /\ worker[c].pc = "end"
        /\ peer[c] # None
    BY Made DEF IInv, Finish
  <1>1. /\ w \in Workers /\ w.pc = "done" /\ w.active = 0 /\ w.frame = NoFrame
    BY FramesTyped DEF FreshWorker, Workers
  <1>2. /\ worker' \in [Conns -> Workers] /\ worker'[c] = w /\ \A d \in Conns : d # c => worker'[d] = worker[d]
    <2>1. worker' = [worker EXCEPT ![c] = w]
      BY DEF Finish
    <2> HIDE DEF w
    <2> QED
      BY <1>0, <1>1, <2>1, WorkersTyped
  <1> HIDE DEF w
  <1>3. Closes
    BY ReleasesClose DEF Finish, Closes
  <1>4. session' \in Sessions /\ \A d : Milder(d)
    BY <1>0, <1>3, ClosesWell
  <1>5. /\ queue' \in [Conns -> Seq(Frames)] /\ mailbox' \in [Conns -> Frames]
        /\ queue'[c] = <<>> /\ mailbox'[c] = NoFrame
        /\ \A d \in Conns : d # c => queue'[d] = queue[d] /\ mailbox'[d] = mailbox[d]
        /\ \A d \in Conns : Len(queue'[d]) <= QueueCap
    <2>1. queue' = [queue EXCEPT ![c] = <<>>] /\ mailbox' = [mailbox EXCEPT ![c] = NoFrame]
      BY DEF Finish
    <2>2. queue \in [Conns -> Seq(Frames)] /\ mailbox \in [Conns -> Frames] /\ \A d \in Conns : Len(queue[d]) <= QueueCap
      BY <1>0 DEF Types
    <2>3. <<>> \in Seq(Frames) /\ Len(<<>>) <= QueueCap
      BY LanesConstantsAssumption
    <2> QED
      BY <2>1, <2>2, <2>3, FramesTyped
  <1>6. /\ current' \in [Peers -> 0..ConnMax] /\ current'[peer[c]] # c
        /\ \A p \in Peers : current'[p] = current[p] \/ current'[p] = 0
    <2>1. current \in [Peers -> 0..ConnMax] /\ 0 \in 0..ConnMax
      BY <1>0, LanesConstantsAssumption DEF Types
    <2>2. CASE IsCurrent(c)
      <3>1. current' = [current EXCEPT ![peer[c]] = 0] /\ c # 0
        BY <2>2 DEF Finish, Conns
      <3> QED
        BY <1>0, <2>1, <3>1
    <2>3. CASE ~IsCurrent(c)
      BY <2>1, <2>3 DEF Finish, IsCurrent
    <2> QED
      BY <2>2, <2>3
  <1>7. Types'
    BY <1>0, <1>2, <1>4, <1>5, <1>6 DEF Types
  <1>8. WorkStep(c)
    BY <1>0, <1>2, <1>5 DEF WorkStep
  <1>9. \A d \in Conns : peer[d] \in Peers /\ IsCurrent(d)' => IsCurrent(d)
    BY <1>0, <1>6 DEF IsCurrent, Conns
  <1>10. \A d \in Conns : worker[d].pc # "off" => peer[d] \in Peers
    BY Made
  <1>11. \A d \in Conns : d # c => (Serving(d)' => Serving(d))
    BY <1>2, <1>9, <1>10 DEF Serving
  <1>12. LinkInv'
    <2>1. \A d \in Conns : peer'[d] = None => Unmade(d)'
      BY <1>0, <1>2, <1>5, ZenonT(60), SMTT(60) DEF IInv, LinkInv, Unmade
    <2>2. \A d, x \in Conns : d < x /\ worker'[x].pc # "off" => worker'[d].pc # "off"
      BY <1>0, <1>1, <1>2 DEF IInv, LinkInv
    <2>3. ASSUME NEW p \in Peers, current'[p] # 0
          PROVE  peer'[current'[p]] = p /\ worker'[current'[p]].pc \in {"wait", "hold", "end"}
      <3>1. /\ current'[p] = current[p] /\ peer[current[p]] = p
            /\ worker[current[p]].pc \in {"wait", "hold", "end"}
        BY <1>6, <2>3 DEF IInv, LinkInv
      <3>2. current[p] # c
        BY <1>6, <3>1
      <3>3. current[p] \in Conns
        BY <1>0, <2>3, <3>1, LanesConstantsAssumption DEF Types, Conns
      <3> QED
        BY <1>0, <1>2, <3>1, <3>2, <3>3
    <2>4. \A d \in Conns : worker'[d].pc = "end" /\ ~worker'[d].failed => phase'[d] = "ended" \/ ~IsCurrent(d)'
      <3> SUFFICES ASSUME NEW d \in Conns, worker'[d].pc = "end", ~worker'[d].failed
                   PROVE  phase'[d] = "ended" \/ ~IsCurrent(d)'
        OBVIOUS
      <3>1. worker'[d] = worker[d]
        BY <1>1, <1>2
      <3>2. phase[d] = "ended" \/ ~IsCurrent(d)
        BY <3>1 DEF IInv, LinkInv
      <3> QED
        BY <1>0, <1>9, <1>10, <3>1, <3>2
    <2> QED
      BY <1>0, <2>1, <2>2, <2>3, <2>4 DEF IInv, LinkInv, Open
  <1>13. SessionInv'
    BY <1>1, <1>2, <1>3, <1>8, ClosedSessionKeeps
  <1>14. Row(c)' /\ AllAnswered(c)'
    BY <1>1, <1>2, LeftOwesNothing
  <1>15. Fewer(c)
    BY <1>1, <1>2, <1>5 DEF Fewer
  <1>16. session'.epoch = session.epoch /\ session'.owner = session.owner
    BY <1>0, <1>3, ClosesWell
  <1> QED
    BY <1>4, <1>7, <1>8, <1>11, <1>12, <1>13, <1>14, <1>15, <1>16, WorkStepKeeps

\* Nothing but the session and what the daemon is told, and the session at most closes.
LEMMA TellingKeeps ==
    ASSUME IInv, Closes, UNCHANGED <<sendVars, net, phase, inbound, laneVars>>,
           releases' \in [Conns -> Emitters],
           \A d \in Conns : releases'[d].high = releases[d].high /\ releases'[d].due \subseteq releases[d].due,
           news' \in [Conns -> {"none", "up", "down"}], known' \in [Peers -> 0..ConnMax]
    PROVE  IInv'
  <1> USE DEF sendVars, laneVars
  <1>0. Types
    BY DEF IInv
  <1>1. session' \in Sessions /\ \A d : Milder(d)
    BY <1>0, ClosesWell
  <1>2. Types'
    <2>1. \A d \in Conns : releases'[d].due \subseteq 1..releases'[d].high
      BY <1>0 DEF Types
    <2> QED
      BY <1>0, <1>1, <2>1 DEF Types
  <1>3. LinkInv'
    <2>1. ASSUME NEW d \in Conns, peer'[d] = None PROVE Unmade(d)'
      <3>1. Unmade(d)
        BY <2>1 DEF IInv, LinkInv
      <3>2. releases'[d] = [due |-> {}, high |-> 0]
        <4>1. releases[d] = [due |-> {}, high |-> 0] /\ releases'[d] \in Emitters
          BY <3>1 DEF Unmade
        <4>2. releases'[d].due = {} /\ releases'[d].high = 0
          BY <4>1
        <4> QED
          BY <4>1, <4>2 DEF Emitters
      <3> QED
        BY <3>1, <3>2 DEF Unmade
    <2> QED
      BY <2>1 DEF IInv, LinkInv, Open, IsCurrent
  <1>4. SessionInv'
    BY <1>0, ClosesWell DEF IInv, SessionInv
  <1>5. ASSUME NEW d \in Conns PROVE Local(d)'
    <2>1. Alike(d)
      BY DEF Alike
    <2>2. Serving(d)' => Serving(d)
      BY DEF Serving, IsCurrent
    <2> QED
      BY <1>0, <1>1, <1>2, <2>1, <2>2, AlikeKeeps DEF IInv
  <1> QED
    BY <1>2, <1>3, <1>4, <1>5 DEF IInv

LEMMA ToldConnectedKeeps ==
    ASSUME IInv, NEW c \in Conns, ToldConnected(c)
    PROVE  IInv'
  <1>0. Types
    BY DEF IInv
  <1>1. Closes
    BY DEF ToldConnected, Closes
  <1>2. news' \in [Conns -> {"none", "up", "down"}] /\ known' \in [Peers -> 0..ConnMax]
    <2>1. c \in 0..ConnMax
      BY LanesConstantsAssumption DEF Conns
    <2> QED
      BY <1>0, <2>1 DEF Types, ToldConnected
  <1> QED
    BY <1>0, <1>1, <1>2, TellingKeeps DEF ToldConnected, recvVars, Types

LEMMA ToldDisconnectedKeeps ==
    ASSUME IInv, NEW c \in Conns, ToldDisconnected(c)
    PROVE  IInv'
  <1>0. Types
    BY DEF IInv
  <1>1. Closes
    BY ReleasesClose DEF ToldDisconnected, Closes
  <1>2. news' \in [Conns -> {"none", "up", "down"}] /\ known' \in [Peers -> 0..ConnMax]
    <2>1. 0 \in 0..ConnMax
      BY LanesConstantsAssumption
    <2> QED
      BY <1>0, <2>1 DEF Types, ToldDisconnected
  <1> QED
    BY <1>0, <1>1, <1>2, TellingKeeps DEF ToldDisconnected, recvVars, Types

LEMMA ToldReleasedKeeps ==
    ASSUME IInv, NEW c \in Conns, NEW e \in 1..EpochMax, ToldReleased(c, e)
    PROVE  IInv'
  <1>0. Types
    BY DEF IInv
  <1>1. Closes
    BY ReleasesClose DEF ToldReleased, Closes
  <1>2. /\ releases' \in [Conns -> Emitters]
        /\ \A d \in Conns : releases'[d].high = releases[d].high /\ releases'[d].due \subseteq releases[d].due
    <2> DEFINE r == [releases[c] EXCEPT !.due = @ \ {e}]
    <2>1. releases[c] \in Emitters
      BY <1>0 DEF Types
    <2>2. r \in Emitters /\ r.high = releases[c].high /\ r.due \subseteq releases[c].due
      BY <2>1 DEF Emitters
    <2>3. releases' = [releases EXCEPT ![c] = r]
      BY DEF ToldReleased
    <2>4. releases \in [Conns -> Emitters]
      BY <1>0 DEF Types
    <2> HIDE DEF r
    <2> QED
      BY <2>2, <2>3, <2>4
  <1>3. UNCHANGED <<sendVars, net, phase, inbound, laneVars, mainVars>>
    BY DEF ToldReleased
  <1>4. news' \in [Conns -> {"none", "up", "down"}] /\ known' \in [Peers -> 0..ConnMax]
    BY <1>0, <1>3 DEF mainVars, Types
  <1> QED
    BY <1>1, <1>2, <1>3, <1>4, TellingKeeps

LEMMA SessionEndsKeeps ==
    ASSUME IInv, SessionEnds
    PROVE  IInv'
  <1>1. Closes
    BY DEF SessionEnds, Closes
  <1>2. UNCHANGED <<sendVars, net, recvVars, laneVars, mainVars>>
    BY DEF SessionEnds
  <1> QED
    BY <1>1, <1>2, TellingKeeps DEF IInv, Types, recvVars, mainVars

LEMMA ServePeerKeeps ==
    ASSUME IInv, NEW c \in Conns, ServePeer(c)
    PROVE  IInv'
  <1> USE DEF sendVars, recvVars, mainVars
  <1> DEFINE w == [worker[c] EXCEPT !.pc = "wait"]
  <1>0. /\ Types /\ peer[c] \in Peers /\ UNCHANGED <<sendVars, net, recvVars, queue, mailbox, mainVars>>
        /\ worker[c].pc = "off" /\ \A d \in 1..(c - 1) : worker[d].pc # "off"
    BY DEF ServePeer, IInv, Types
  <1>1. /\ w \in Workers /\ w.pc = "wait" /\ w.active = worker[c].active /\ w.frame = worker[c].frame
    BY <1>0 DEF Types, Workers
  <1>2. /\ worker' \in [Conns -> Workers] /\ worker'[c] = w /\ \A d \in Conns : d # c => worker'[d] = worker[d]
    <2>1. worker' = [worker EXCEPT ![c] = w]
      BY DEF ServePeer
    <2> HIDE DEF w
    <2> QED
      BY <1>0, <1>1, <2>1, WorkersTyped
  <1> HIDE DEF w
  <1>3. Closes
    BY ReleasesClose DEF ServePeer, Closes
  <1>4. session' \in Sessions /\ \A d : Milder(d)
    BY <1>0, <1>3, ClosesWell
  <1>5. c \in Nat /\ c # 0 /\ c \in 0..ConnMax /\ \A d \in Conns : d \in Nat /\ (d < c => d \in 1..(c - 1))
    BY LanesConstantsAssumption DEF Conns
  <1>6. /\ current' \in [Peers -> 0..ConnMax] /\ current'[peer[c]] = c
        /\ \A p \in Peers : p # peer[c] => current'[p] = current[p]
    <2>1. current \in [Peers -> 0..ConnMax]
      BY <1>0 DEF Types
    <2> QED
      BY <1>0, <1>5, <2>1 DEF ServePeer
  <1>7. Types'
    BY <1>0, <1>2, <1>4, <1>6 DEF Types
  <1>8. WorkStep(c)
    BY <1>0, <1>2 DEF WorkStep
  <1>9. \A d \in Conns : d # c /\ peer[d] \in Peers /\ IsCurrent(d)' => IsCurrent(d)
    BY <1>0, <1>6 DEF IsCurrent
  <1>10. \A d \in Conns : worker[d].pc # "off" => peer[d] \in Peers
    BY Made
  <1>11. \A d \in Conns : d # c => (Serving(d)' => Serving(d))
    BY <1>2, <1>9, <1>10 DEF Serving
  <1>12. LinkInv'
    <2>1. \A d \in Conns : peer'[d] = None => Unmade(d)'
      BY <1>0, <1>2, LanesConstantsAssumption DEF IInv, LinkInv, Unmade
    <2>2. ASSUME NEW d \in Conns, NEW x \in Conns, d < x, worker'[x].pc # "off"
          PROVE  worker'[d].pc # "off"
      <3>1. CASE x = c
        BY <1>0, <1>2, <1>5, <2>2, <3>1
      <3>2. CASE x # c
        <4>1. worker[d].pc # "off"
          BY <1>2, <2>2, <3>2 DEF IInv, LinkInv
        <4> QED
          BY <1>1, <1>2, <4>1
      <3> QED
        BY <3>1, <3>2
    <2>3. ASSUME NEW p \in Peers, current'[p] # 0
          PROVE  peer'[current'[p]] = p /\ worker'[current'[p]].pc \in {"wait", "hold", "end"}
      <3>1. CASE p = peer[c]
        BY <1>0, <1>1, <1>2, <1>6, <3>1
      <3>2. CASE p # peer[c]
        <4>1. /\ current'[p] = current[p] /\ peer[current[p]] = p
              /\ worker[current[p]].pc \in {"wait", "hold", "end"}
          BY <1>6, <2>3, <3>2 DEF IInv, LinkInv
        <4>2. current[p] \in Conns
          BY <1>0, <2>3, <4>1, LanesConstantsAssumption DEF Types, Conns
        <4> QED
          BY <1>0, <1>2, <3>2, <4>1, <4>2
      <3> QED
        BY <3>1, <3>2
    <2>4. ASSUME NEW d \in Conns, worker'[d].pc = "end", ~worker'[d].failed
          PROVE  phase'[d] = "ended" \/ ~IsCurrent(d)'
      <3>1. d # c /\ worker'[d] = worker[d]
        BY <1>1, <1>2, <2>4
      <3>2. phase[d] = "ended" \/ ~IsCurrent(d)
        BY <2>4, <3>1 DEF IInv, LinkInv
      <3> QED
        BY <1>0, <1>9, <1>10, <2>4, <3>1, <3>2
    <2> QED
      BY <1>0, <2>1, <2>2, <2>3, <2>4 DEF IInv, LinkInv, Open
  <1>13. session.owner # c
    BY <1>0 DEF IInv, SessionInv
  <1>14. SessionInv'
    BY <1>1, <1>2, <1>3, <1>8, <1>13, ClosedSessionKeeps
  <1>15. session'.epoch = session.epoch /\ session'.owner = session.owner
    BY <1>0, <1>3, ClosesWell
  <1>16. worker[c].frame = NoFrame
    BY <1>0, Known DEF Kinds
  <1>17. Fewer(c)
    BY <1>0, <1>1, <1>2, <1>16 DEF Fewer
  <1>18. \A f : (OnItsWay(c, f)' <=> OnItsWay(c, f)) /\ (InReader(c, f)' <=> InReader(c, f))
                /\ (InQueue(c, f)' <=> InQueue(c, f)) /\ ~InHand(c, f)' /\ ~InHand(c, f)
    BY <1>0, <1>1, <1>2 DEF OnItsWay, InHand, InQueue, InReader, Streams
  <1>19. Serving(c)
    BY <1>0 DEF Serving
  <1>20. Row(c)'
    <2>1. Gapless(c) /\ InOrder(c) /\ UpToLast(c)
      BY <1>19, Known DEF Row
    <2>2. HandFits(c)'
      BY <1>1, <1>2 DEF HandFits
    <2>3. Gapless(c)'
      <3>1. \A f : Reached(c, f.epoch, f.seq) => Reached(c, f.epoch, f.seq)'
        BY <1>13, <1>15 DEF Reached
      <3>2. \A f : NotPast(c, f)'
        BY <1>13, <1>15 DEF NotPast
      <3> QED
        BY <1>0, <1>18, <2>1, <3>1, <3>2 DEF Gapless, Follows
    <2>4. InOrder(c)'
      BY <1>0, <1>18, <2>1 DEF InOrder
    <2>5. UpToLast(c)'
      BY <1>0, <1>13, <1>15, <1>18, <2>1 DEF UpToLast, Reached
    <2> QED
      BY <2>2, <2>3, <2>4, <2>5 DEF Row
  <1>21. AllAnswered(c)'
    <2>1. \A x : Answered(c, x) => Answered(c, x)'
      BY <1>0, <1>18 DEF Answered, Open
    <2> QED
      BY <1>0, <1>13, <1>15, <1>18, <1>19, <2>1, Known DEF AllAnswered
  <1> QED
    BY <1>4, <1>7, <1>8, <1>11, <1>12, <1>14, <1>15, <1>17, <1>20, <1>21, WorkStepKeeps

\* The worker of c goes on, in the session it has; what it holds or waits for may change.
LEMMA GoesOn ==
    ASSUME IInv, NEW c \in Conns, worker[c].pc \in {"wait", "hold"}, NEW w \in Workers,
           worker' = [worker EXCEPT ![c] = w], w.pc \in {"wait", "hold"}, w.active = worker[c].active,
           UNCHANGED <<sendVars, net, recvVars, current, mainVars>>, session' \in Sessions,
           session'.epoch = session.epoch, session'.owner = session.owner, session'.open => session.open,
           session'.rel = session.rel \/ session.owner = c,
           queue' \in [Conns -> Seq(Frames)], mailbox' \in [Conns -> Frames],
           \A d \in Conns : Len(queue'[d]) <= QueueCap /\ (d # c => queue'[d] = queue[d] /\ mailbox'[d] = mailbox[d]),
           Fewer(c), Row(c)', AllAnswered(c)'
    PROVE  IInv'
  <1> USE DEF sendVars, recvVars, mainVars
  <1>0. Types
    BY DEF IInv
  <1>1. /\ worker' \in [Conns -> Workers] /\ worker'[c] = w
        /\ \A d \in Conns : d # c => worker'[d] = worker[d]
    BY <1>0, WorkersTyped
  <1>2. Types'
    BY <1>0, <1>1 DEF Types
  <1>3. WorkStep(c)
    BY <1>1 DEF WorkStep
  <1>4. LinkInv' /\ \A d \in Conns : d # c => (Serving(d)' => Serving(d))
    BY <1>1, <1>3, WorkLinkKeeps
  <1>5. SessionInv'
    BY <1>1 DEF IInv, SessionInv
  <1>6. \A d \in Conns : d # c => Milder(d)
    BY DEF Milder
  <1> QED
    BY <1>2, <1>3, <1>4, <1>5, <1>6, WorkStepKeeps

LEMMA TakeReliableKeeps ==
    ASSUME IInv, NEW c \in Conns, TakeReliable(c)
    PROVE  IInv'
  <1> USE DEF sendVars, recvVars, mainVars
  <1> DEFINE h == Head(queue[c])
             w == IF IsCurrent(c) THEN [worker[c] EXCEPT !.pc = "hold", !.frame = h] ELSE worker[c]
             q == Tail(queue[c])
  <1>0. /\ Types /\ worker[c].pc = "wait" /\ queue[c] # <<>> /\ UNCHANGED mailbox
        /\ queue' = [queue EXCEPT ![c] = q]
        /\ UNCHANGED <<sendVars, net, recvVars, current, mainVars, session>>
    BY DEF IInv, TakeReliable, Take
  <1>1. /\ q \in Seq(Frames) /\ h = queue[c][1] /\ h \in Frames /\ 1 \in DOMAIN queue[c]
        /\ Len(q) = Len(queue[c]) - 1 /\ Len(queue[c]) \in Nat
        /\ DOMAIN queue[c] = 1..Len(queue[c]) /\ DOMAIN q = 1..Len(queue[c]) - 1
        /\ \A i \in DOMAIN q : i + 1 \in DOMAIN queue[c] /\ q[i] = queue[c][i + 1]
    <2>1. queue[c] \in Seq(Frames)
      BY Known
    <2> QED
      BY <1>0, <2>1, Pops
  <1>2. worker' = [worker EXCEPT ![c] = w]
    <2>1. CASE IsCurrent(c)
      BY <2>1 DEF TakeReliable, Take
    <2>2. CASE ~IsCurrent(c)
      <3>1. worker' = worker /\ worker \in [Conns -> Workers]
        BY <1>0, <2>2 DEF TakeReliable, Take, Types
      <3> QED
        BY <2>2, <3>1
    <2> QED
      BY <2>1, <2>2
  <1> HIDE DEF h, q
  <1>3. /\ w \in Workers /\ w.active = worker[c].active /\ w.pc \in {"wait", "hold"}
        /\ IsCurrent(c) => w.pc = "hold" /\ w.frame = h
        /\ ~IsCurrent(c) => w = worker[c]
    <2>1. worker[c] \in Workers
      BY <1>0 DEF Types
    <2>2. CASE IsCurrent(c)
      <3>1. w = [worker[c] EXCEPT !.pc = "hold", !.frame = h]
        BY <2>2
      <3> HIDE DEF w, h
      <3>2. w \in Workers /\ w.pc = "hold" /\ w.frame = h /\ w.active = worker[c].active
        BY <1>1, <2>1, <3>1 DEF Workers
      <3> QED
        BY <2>2, <3>2
    <2>3. CASE ~IsCurrent(c)
      <3>1. w = worker[c]
        BY <2>3
      <3> HIDE DEF w
      <3> QED
        BY <1>0, <2>1, <2>3, <3>1
    <2> QED
      BY <2>2, <2>3
  <1> HIDE DEF w
  <1>4. worker'[c] = w
    BY <1>0, <1>2, <1>3, WorkersTyped
  <1>5. /\ queue' \in [Conns -> Seq(Frames)] /\ queue'[c] = q
        /\ \A d \in Conns : Len(queue'[d]) <= QueueCap /\ (d # c => queue'[d] = queue[d])
    <2>1. queue \in [Conns -> Seq(Frames)] /\ \A d \in Conns : Len(queue[d]) <= QueueCap
      BY <1>0 DEF Types
    <2>2. Len(q) <= QueueCap
      BY <1>1, <2>1, LanesConstantsAssumption
    <2> QED
      BY <1>0, <1>1, <2>1, <2>2
  <1>6. \A f : InQueue(c, f) <=> f = h \/ InQueue(c, f)'
    <2> TAKE f
    <2>1. \A k \in DOMAIN queue[c] : k = 1 \/ (k - 1 \in DOMAIN q /\ q[k - 1] = queue[c][k])
      <3> SUFFICES ASSUME NEW k \in DOMAIN queue[c], k # 1
                   PROVE  k - 1 \in DOMAIN q /\ q[k - 1] = queue[c][k]
        OBVIOUS
      <3>1. k - 1 \in DOMAIN q /\ (k - 1) + 1 = k
        BY <1>1
      <3>2. q[k - 1] = queue[c][(k - 1) + 1]
        BY <1>1, <3>1
      <3> QED
        BY <3>1, <3>2
    <2>2. InQueue(c, f) => f = h \/ InQueue(c, f)'
      <3> SUFFICES ASSUME NEW k \in DOMAIN queue[c], queue[c][k] = f, f # h
                   PROVE  InQueue(c, f)'
        BY DEF InQueue
      <3>1. k - 1 \in DOMAIN q /\ q[k - 1] = f
        BY <1>1, <2>1
      <3> QED
        BY <1>5, <3>1 DEF InQueue
    <2>3. f = h \/ InQueue(c, f)' => InQueue(c, f)
      BY <1>1, <1>5 DEF InQueue
    <2> QED
      BY <2>2, <2>3
  <1>7. worker[c].frame = NoFrame
    BY <1>0, Known DEF Kinds
  <1>8. Fewer(c)
    <2>1. \A k \in DOMAIN queue'[c] : \E l \in DOMAIN queue[c] : queue'[c][k] = queue[c][l]
      BY <1>1, <1>5
    <2>2. InQueue(c, h)
      BY <1>6
    <2> QED
      BY <1>0, <1>3, <1>4, <1>7, <2>1, <2>2 DEF Fewer
  <1>9. Row(c)' /\ AllAnswered(c)'
    <2>1. CASE ~IsCurrent(c)
      <3>1. ~Serving(c)'
        BY <1>0, <1>3, <1>4, <2>1 DEF Serving, IsCurrent
      <3>2. HandFits(c)'
        BY <1>0, <1>3, <1>4, <2>1 DEF HandFits
      <3> QED
        BY <3>1, <3>2 DEF Row, AllAnswered
    <2>2. CASE IsCurrent(c)
      <3>1. w.pc = "hold" /\ w.frame = h /\ Serving(c)
        BY <1>0, <1>3, <2>2 DEF Serving
      <3>2. Gapless(c) /\ InOrder(c) /\ UpToLast(c)
        BY <3>1, Known DEF Row
      <3>3. \A f : /\ InHand(c, f)' <=> f = h
                   /\ ~InHand(c, f)
                   /\ InReader(c, f)' <=> InReader(c, f)
        BY <1>0, <1>4, <3>1 DEF InHand, InReader, Streams
      <3>4. \A f : OnItsWay(c, f)' <=> OnItsWay(c, f)
        BY <1>6, <3>3 DEF OnItsWay
      <3>5. \A f \in Frames : f.seq \in Nat
        BY LanesConstantsAssumption DEF Frames
      <3>6. ASSUME NEW g \in Frames, Input(h), Input(g), OnItsWay(c, g), g # h
            PROVE  Before(h, g)
        <4>1. CASE InQueue(c, g)
          <5>1. PICK k \in DOMAIN queue[c] : queue[c][k] = g
            BY <4>1 DEF InQueue
          <5>2. 1 < k
            BY <1>1, <3>6, <5>1
          <5> QED
            BY <1>1, <3>2, <3>6, <5>1, <5>2 DEF InOrder
        <4>2. CASE InReader(c, g)
          BY <1>1, <1>6, <3>2, <3>6, <4>2 DEF InOrder
        <4> QED
          BY <3>3, <3>6, <4>1, <4>2 DEF OnItsWay
      <3>7. HandFits(c)'
        <4> SUFFICES ASSUME Input(h) PROVE (h.seq = 0 \/ Reached(c, h.epoch, h.seq)) /\ NotPast(c, h)
          BY <1>0, <1>4, <3>1 DEF HandFits, Reached, NotPast
        <4>1. OnItsWay(c, h)
          BY <3>3, <3>4 DEF OnItsWay
        <4>2. Follows(c, h) /\ NotPast(c, h)
          BY <1>1, <3>2, <4>1 DEF Gapless
        <4>3. ASSUME NEW g \in Frames, Input(g), OnItsWay(c, g), g.epoch = h.epoch, g.seq = h.seq - 1
              PROVE  FALSE
          <5>1. g # h
            BY <1>1, <3>5, <4>3
          <5>2. h.seq < g.seq
            BY <3>6, <4>3, <5>1 DEF Before
          <5> QED
            BY <1>1, <3>5, <4>3, <5>2
        <4> QED
          BY <4>2, <4>3 DEF Follows
      <3>8. Gapless(c)'
        BY <1>0, <3>2, <3>4 DEF Gapless, Follows, Reached, NotPast
      <3>9. InOrder(c)'
        <4>1. ASSUME NEW f \in Frames, NEW g \in Frames, Input(f), Input(g),
                     InHand(c, f)', InQueue(c, g)' \/ InReader(c, g)'
              PROVE  Before(f, g)
          <5>1. f = h
            BY <3>3, <4>1
          <5>2. CASE InQueue(c, g)'
            <6>1. PICK k \in DOMAIN q : q[k] = g
              BY <1>5, <5>2 DEF InQueue
            <6>2. 1 < k + 1 /\ k + 1 \in DOMAIN queue[c] /\ queue[c][k + 1] = g
              BY <1>1, <6>1
            <6> QED
              BY <1>1, <3>2, <4>1, <5>1, <6>2 DEF InOrder
          <5>3. CASE InReader(c, g)'
            BY <1>6, <3>2, <3>3, <4>1, <5>1, <5>3 DEF InOrder
          <5> QED
            BY <4>1, <5>2, <5>3
        <4>2. ASSUME NEW f \in Frames, NEW g \in Frames, Input(f), Input(g), InQueue(c, f)', InReader(c, g)'
              PROVE  Before(f, g)
          BY <1>6, <3>2, <3>3, <4>2 DEF InOrder
        <4>3. ASSUME NEW k \in DOMAIN queue'[c], NEW l \in DOMAIN queue'[c], k < l, Input(queue'[c][k]), Input(queue'[c][l])
              PROVE  Before(queue'[c][k], queue'[c][l])
          <5>1. k + 1 \in DOMAIN queue[c] /\ l + 1 \in DOMAIN queue[c] /\ q[k] = queue[c][k + 1] /\ q[l] = queue[c][l + 1]
                /\ k + 1 < l + 1
            BY <1>1, <1>5, <4>3
          <5> QED
            BY <1>5, <3>2, <4>3, <5>1 DEF InOrder
        <4> QED
          BY <4>1, <4>2, <4>3 DEF InOrder
      <3>10. UpToLast(c)'
        BY <1>0, <3>2, <3>4 DEF UpToLast, Reached
      <3>11. AllAnswered(c)'
        <4>1. \A x : Answered(c, x) => Answered(c, x)'
          BY <1>0, <3>4 DEF Answered, Open
        <4> QED
          BY <1>0, <3>1, <3>4, <4>1, Known DEF AllAnswered
      <3> QED
        BY <3>7, <3>8, <3>9, <3>10, <3>11 DEF Row
    <2> QED
      BY <2>1, <2>2
  <1>10. mailbox' \in [Conns -> Frames] /\ session' \in Sessions
    BY <1>0 DEF Types
  <1> QED
    BY <1>0, <1>2, <1>3, <1>5, <1>8, <1>9, <1>10, GoesOn

LEMMA TakeMotionKeeps ==
    ASSUME IInv, NEW c \in Conns, TakeMotion(c)
    PROVE  IInv'
  <1> USE DEF sendVars, recvVars, mainVars
  <1> DEFINE h == mailbox[c]
             w == IF IsCurrent(c) THEN [worker[c] EXCEPT !.pc = "hold", !.frame = h] ELSE worker[c]
  <1>0. /\ Types /\ worker[c].pc = "wait" /\ h # NoFrame /\ UNCHANGED queue
        /\ mailbox' = [mailbox EXCEPT ![c] = NoFrame]
        /\ UNCHANGED <<sendVars, net, recvVars, current, mainVars, session>>
    BY DEF IInv, TakeMotion, Take
  <1>1. h \in Frames /\ ~Input(h)
    BY <1>0, Known DEF Kinds, Input
  <1>2. worker' = [worker EXCEPT ![c] = w]
    <2>1. CASE IsCurrent(c)
      BY <2>1 DEF TakeMotion, Take
    <2>2. CASE ~IsCurrent(c)
      <3>1. worker' = worker /\ worker \in [Conns -> Workers]
        BY <1>0, <2>2 DEF TakeMotion, Take, Types
      <3> QED
        BY <2>2, <3>1
    <2> QED
      BY <2>1, <2>2
  <1>3. /\ w \in Workers /\ w.active = worker[c].active /\ w.pc \in {"wait", "hold"}
        /\ IsCurrent(c) => w.pc = "hold" /\ w.frame = h
        /\ ~IsCurrent(c) => w = worker[c]
    <2>1. worker[c] \in Workers
      BY <1>0 DEF Types
    <2>2. CASE IsCurrent(c)
      <3>1. w = [worker[c] EXCEPT !.pc = "hold", !.frame = h]
        BY <2>2
      <3> HIDE DEF w, h
      <3>2. w \in Workers /\ w.pc = "hold" /\ w.frame = h /\ w.active = worker[c].active
        BY <1>1, <2>1, <3>1 DEF Workers
      <3> QED
        BY <2>2, <3>2
    <2>3. CASE ~IsCurrent(c)
      <3>1. w = worker[c]
        BY <2>3
      <3> HIDE DEF w
      <3> QED
        BY <1>0, <2>1, <2>3, <3>1
    <2> QED
      BY <2>2, <2>3
  <1> HIDE DEF w
  <1>4. worker'[c] = w
    BY <1>0, <1>2, <1>3, WorkersTyped
  <1>5. /\ mailbox' \in [Conns -> Frames] /\ mailbox'[c] = NoFrame
        /\ \A d \in Conns : d # c => mailbox'[d] = mailbox[d]
    BY <1>0, FramesTyped DEF Types
  <1>6. worker[c].frame = NoFrame
    BY <1>0, Known DEF Kinds
  <1>7. Fewer(c)
    BY <1>0, <1>3, <1>4, <1>5, <1>6 DEF Fewer
  <1>8. Row(c)' /\ AllAnswered(c)'
    <2>1. CASE ~IsCurrent(c)
      <3>1. ~Serving(c)'
        BY <1>0, <1>3, <1>4, <2>1 DEF Serving, IsCurrent
      <3>2. HandFits(c)'
        BY <1>0, <1>3, <1>4, <2>1 DEF HandFits
      <3> QED
        BY <3>1, <3>2 DEF Row, AllAnswered
    <2>2. CASE IsCurrent(c)
      <3>1. w.pc = "hold" /\ w.frame = h /\ Serving(c)
        BY <1>0, <1>3, <2>2 DEF Serving
      <3>2. Gapless(c) /\ InOrder(c) /\ UpToLast(c)
        BY <3>1, Known DEF Row
      <3>3. \A f : /\ InHand(c, f)' <=> f = h
                   /\ ~InHand(c, f)
                   /\ InReader(c, f)' <=> InReader(c, f)
                   /\ InQueue(c, f)' <=> InQueue(c, f)
        BY <1>0, <1>4, <3>1 DEF InHand, InReader, InQueue, Streams
      <3>4. \A f : /\ OnItsWay(c, f)' <=> OnItsWay(c, f) \/ f = h
                   /\ Input(f) => (OnItsWay(c, f)' <=> OnItsWay(c, f))
        BY <1>1, <3>3 DEF OnItsWay
      <3>5. HandFits(c)'
        BY <1>1, <1>4, <3>1 DEF HandFits
      <3>6. Gapless(c)'
        BY <1>0, <3>2, <3>4 DEF Gapless, Follows, Reached, NotPast
      <3>7. InOrder(c)'
        <4>1. \A f : Input(f) => ~InHand(c, f)'
          BY <1>1, <3>3
        <4> QED
          BY <1>0, <3>2, <3>3, <4>1 DEF InOrder
      <3>8. UpToLast(c)'
        BY <1>0, <3>2, <3>4 DEF UpToLast, Reached
      <3>9. AllAnswered(c)'
        <4>1. \A x : Answered(c, x) => Answered(c, x)'
          BY <1>0, <3>4 DEF Answered, Open
        <4>2. ~(NoFrame.epoch > session.epoch)
          BY FramesTyped, Known
        <4> QED
          BY <1>0, <1>5, <3>1, <3>4, <4>1, <4>2, Known DEF AllAnswered
      <3> QED
        BY <3>5, <3>6, <3>7, <3>8, <3>9 DEF Row
    <2> QED
      BY <2>1, <2>2
  <1>9. queue' \in [Conns -> Seq(Frames)] /\ session' \in Sessions /\ \A d \in Conns : Len(queue'[d]) <= QueueCap
    BY <1>0 DEF Types
  <1> QED
    BY <1>0, <1>2, <1>3, <1>5, <1>7, <1>8, <1>9, GoesOn

\* The worker of c has submitted the frame in its hand, and waits.
LEMMA SubmittedKeeps ==
    ASSUME IInv, NEW c \in Conns, Submits(c), Waits(c), session.owner = c \/ session' = session,
           UNCHANGED <<sendVars, net, recvVars, queue, mailbox, current, mainVars>>, session' \in Sessions,
           session'.epoch = session.epoch, session'.owner = session.owner, session'.open => session.open,
           Serving(c) /\ Gapless(c) /\ InOrder(c) /\ UpToLast(c) =>
               Gapless(c)' /\ UpToLast(c)',
           worker[c].frame.kind = "ReleaseAll" => ~session'.open /\ session.owner = c
    PROVE  IInv'
  <1> USE DEF sendVars, recvVars, mainVars
  <1> DEFINE w == [worker[c] EXCEPT !.pc = "wait", !.frame = NoFrame]
  <1>0. Types /\ worker[c] \in Workers /\ worker[c].pc = "hold" /\ worker[c].active = worker[c].frame.epoch
    BY DEF IInv, Types, Submits
  <1>1. worker' = [worker EXCEPT ![c] = w]
    BY <1>0 DEF Waits, Types
  <1>2. w \in Workers /\ w.pc = "wait" /\ w.frame = NoFrame /\ w.active = worker[c].active
    BY <1>0, FramesTyped DEF Workers
  <1> HIDE DEF w
  <1>3. worker'[c] = w
    BY <1>0, <1>1, <1>2, WorkersTyped
  <1>4. /\ queue' \in [Conns -> Seq(Frames)] /\ mailbox' \in [Conns -> Frames]
        /\ \A d \in Conns : Len(queue'[d]) <= QueueCap /\ queue'[d] = queue[d] /\ mailbox'[d] = mailbox[d]
    BY <1>0 DEF Types
  <1>5. Fewer(c)
    BY <1>2, <1>3, <1>4 DEF Fewer
  <1>6. \A f : /\ ~InHand(c, f)'
               /\ InReader(c, f)' <=> InReader(c, f)
               /\ InQueue(c, f)' <=> InQueue(c, f)
    BY <1>2, <1>3, <1>4 DEF InHand, InReader, InQueue, Streams
  <1>7. \A f : /\ OnItsWay(c, f)' => OnItsWay(c, f)
               /\ OnItsWay(c, f) => OnItsWay(c, f)' \/ f = worker[c].frame
    BY <1>6 DEF OnItsWay, InHand
  <1>8. Serving(c)' => Serving(c)
    BY <1>0, <1>2, <1>3 DEF Serving, IsCurrent
  <1>9. Row(c)'
    <2>1. HandFits(c)'
      BY <1>2, <1>3 DEF HandFits
    <2>2. ASSUME Serving(c)' PROVE Gapless(c)' /\ InOrder(c)' /\ UpToLast(c)'
      <3>1. Serving(c) /\ Gapless(c) /\ InOrder(c) /\ UpToLast(c)
        BY <1>8, <2>2, Known DEF Row
      <3>2. InOrder(c)'
        BY <1>4, <1>6, <3>1 DEF InOrder
      <3> QED
        BY <3>1, <3>2
    <2> QED
      BY <2>1, <2>2 DEF Row
  <1>10. AllAnswered(c)'
    <2>1. worker[c].frame \in Frames /\ worker[c].frame.epoch <= session.epoch
      BY <1>0 DEF IInv, SessionInv, Workers
    <2>2. ASSUME NEW x \in Nat, Answered(c, x), x > session.epoch \/ (x = session.epoch /\ session'.open)
          PROVE  Answered(c, x)'
      <3>1. worker[c].frame.epoch \in Nat /\ session.epoch \in Nat
        BY <2>1, Known
      <3>2. ~(worker[c].frame.epoch > x)
        BY <2>1, <2>2, <3>1
      <3>3. ~(worker[c].frame.kind = "ReleaseAll" /\ worker[c].frame.epoch = x)
        BY <2>1, <2>2, <3>1
      <3>4. ~Ends(worker[c].frame, x)
        BY <3>2, <3>3 DEF Ends
      <3>5. \A f \in Frames : OnItsWay(c, f) /\ Ends(f, x) => OnItsWay(c, f)'
        BY <1>7, <3>4
      <3> QED
        BY <2>2, <3>5 DEF Answered, Open
    <2>3. session.epoch \in Nat /\ \A f \in Frames : f.epoch \in Nat
      BY Known
    <2>4. ASSUME Serving(c)', session'.open, session'.owner = c, NEW x, x = session.epoch
          PROVE  Answered(c, x)'
      BY <1>8, <2>2, <2>3, <2>4, Known DEF AllAnswered
    <2>5. ASSUME Serving(c)', NEW f \in Frames, OnItsWay(c, f)' \/ mailbox'[c] = f, f.epoch > session'.epoch
          PROVE  Answered(c, f.epoch)'
      <3>1. Answered(c, f.epoch)
        BY <1>4, <1>7, <1>8, <2>5, Known DEF AllAnswered
      <3> QED
        BY <2>2, <2>3, <2>5, <3>1
    <2> QED
      BY <2>4, <2>5 DEF AllAnswered
  <1>11. session'.rel = session.rel \/ session.owner = c
    OBVIOUS
  <1> QED
    BY <1>0, <1>1, <1>2, <1>4, <1>5, <1>9, <1>10, <1>11, GoesOn

\* A frame that is no input goes, and the session's place stays.
LEMMA OthersFollow ==
    ASSUME IInv, NEW c \in Conns, Submits(c), Waits(c), ~Input(worker[c].frame),
           UNCHANGED <<net, queue, inbound>>,
           session'.epoch = session.epoch, session'.owner = session.owner, session'.rel = session.rel,
           Gapless(c), UpToLast(c)
    PROVE  Gapless(c)' /\ UpToLast(c)'
  <1>1. worker'[c].pc = "wait"
    <2>1. worker[c] \in Workers /\ worker \in [Conns -> Workers]
      BY DEF IInv, Types
    <2> QED
      BY <2>1 DEF Waits, Workers
  <1>2. \A f : Input(f) => (OnItsWay(c, f)' <=> OnItsWay(c, f))
    BY <1>1 DEF OnItsWay, InHand, InReader, InQueue, Streams
  <1> QED
    BY <1>2 DEF Gapless, UpToLast, Follows, Reached, NotPast

LEMMA SubmitMotionKeeps ==
    ASSUME IInv, NEW c \in Conns, SubmitMotion(c)
    PROVE  IInv'
  <1>1. ~Input(worker[c].frame) /\ worker[c].frame.kind # "ReleaseAll"
    BY DEF SubmitMotion, Input
  <1>2. session' = session /\ session' \in Sessions
    BY DEF SubmitMotion, IInv, Types
  <1>3. Gapless(c) /\ UpToLast(c) => Gapless(c)' /\ UpToLast(c)'
    BY <1>1, <1>2, OthersFollow DEF SubmitMotion, recvVars
  <1> QED
    BY <1>1, <1>2, <1>3, SubmittedKeeps DEF SubmitMotion

LEMMA SubmitReleaseKeeps ==
    ASSUME IInv, NEW c \in Conns, SubmitRelease(c)
    PROVE  IInv'
  <1>1. ~Input(worker[c].frame) /\ session.owner = c
    BY DEF SubmitRelease, Input, Mine
  <1>2. /\ session' \in Sessions /\ session'.epoch = session.epoch /\ session'.owner = session.owner
        /\ session'.rel = session.rel /\ ~session'.open
    <2>1. session \in Sessions
      BY DEF IInv, Types
    <2> QED
      BY <2>1 DEF SubmitRelease, Sessions
  <1>3. Gapless(c) /\ UpToLast(c) => Gapless(c)' /\ UpToLast(c)'
    BY <1>1, <1>2, OthersFollow DEF SubmitRelease, recvVars
  <1> QED
    BY <1>1, <1>2, <1>3, SubmittedKeeps DEF SubmitRelease

LEMMA SubmitInputKeeps ==
    ASSUME IInv, NEW c \in Conns, SubmitInput(c)
    PROVE  IInv'
  <1> DEFINE h == worker[c].frame
  <1>0. /\ Submits(c) /\ Waits(c) /\ session.owner = c /\ session.epoch = h.epoch /\ session.open
        /\ h.kind \in {"Enter", "Key"} /\ UNCHANGED <<sendVars, net, recvVars, queue, mailbox, current, mainVars>>
        /\ worker[c].pc = "hold" /\ Input(h)
    BY DEF SubmitInput, Mine, Submits, Input
  <1>1. h \in Frames /\ h.seq \in 0..SendMax /\ h.seq \in Nat /\ h.epoch \in Nat
    <2>1. worker[c] \in Workers
      BY DEF IInv, Types
    <2>2. h \in Frames
      BY <2>1 DEF Workers
    <2> QED
      BY <2>2, LanesConstantsAssumption DEF Frames, Epochs
  <1>2. /\ session' \in Sessions /\ session'.epoch = session.epoch /\ session'.owner = session.owner
        /\ session'.rel = h.seq + 1 /\ session'.open = session.open /\ session.rel \in Nat
    <2>1. session \in Sessions
      BY DEF IInv, Types
    <2>2. h.seq + 1 \in 0..(SendMax + 1)
      BY <1>1, LanesConstantsAssumption
    <2> HIDE DEF h
    <2>3. session' = [session EXCEPT !.rel = h.seq + 1]
      BY DEF SubmitInput, h
    <2> QED
      BY <2>1, <2>2, <2>3, LanesConstantsAssumption DEF Sessions
  <1>3. worker'[c].pc = "wait"
    <2>1. worker[c] \in Workers /\ worker \in [Conns -> Workers]
      BY DEF IInv, Types
    <2> QED
      BY <1>0, <2>1 DEF Waits, Workers
  <1> HIDE DEF h
  <1>4. /\ InHand(c, h)
        /\ \A f : /\ InReader(c, f)' <=> InReader(c, f)
                  /\ InQueue(c, f)' <=> InQueue(c, f)
                  /\ ~InHand(c, f)' /\ (InHand(c, f) => f = h)
    BY <1>0, <1>3 DEF InHand, InReader, InQueue, Streams, h
  <1>5. \A f : /\ OnItsWay(c, f)' => OnItsWay(c, f) /\ (InQueue(c, f) \/ InReader(c, f))
               /\ OnItsWay(c, f) => OnItsWay(c, f)' \/ f = h
    BY <1>4 DEF OnItsWay
  <1>6. \A f \in Frames : f.epoch \in Nat /\ f.seq \in Nat
    BY Known, LanesConstantsAssumption DEF Frames
  <1>7. ASSUME Gapless(c), InOrder(c), UpToLast(c)
        PROVE  Gapless(c)' /\ UpToLast(c)'
    <2>1. /\ NotPast(c, h) /\ session.rel <= h.seq
          /\ h.epoch = inbound[c].active => h.seq <= inbound[c].last
      BY <1>0, <1>1, <1>4, <1>7 DEF Gapless, OnItsWay, NotPast
    <2>2. ASSUME NEW f \in Frames, Input(f), OnItsWay(c, f)'
          PROVE  /\ Follows(c, f)' /\ NotPast(c, f)'
                 /\ f.epoch = inbound'[c].active => f.seq <= inbound'[c].last
      <3>1. /\ Follows(c, f) /\ (f.epoch = inbound[c].active => f.seq <= inbound[c].last)
            /\ OnItsWay(c, f) /\ (InQueue(c, f) \/ InReader(c, f))
        BY <1>5, <1>7, <2>2 DEF Gapless
      <3>2. Before(h, f)
        BY <1>0, <1>1, <1>4, <1>7, <2>2, <3>1 DEF InOrder
      <3>3. NotPast(c, f)'
        BY <1>0, <1>1, <1>2, <1>6, <2>2, <3>2 DEF NotPast, Before
      <3>4. Follows(c, f)'
        <4>1. CASE f.seq = 0
          BY <4>1 DEF Follows
        <4>2. CASE Reached(c, f.epoch, f.seq)
          <5>1. session.epoch > f.epoch
            BY <1>0, <1>1, <1>6, <2>1, <3>2, <4>2 DEF Reached, Before
          <5> QED
            BY <1>2, <5>1 DEF Follows, Reached
        <4>3. ASSUME NEW g \in Frames, Input(g), OnItsWay(c, g), g.epoch = f.epoch, g.seq = f.seq - 1
              PROVE  Follows(c, f)'
          <5>1. CASE g = h
            <6>1. Reached(c, f.epoch, f.seq)'
              BY <1>0, <1>1, <1>2, <1>6, <4>3, <5>1 DEF Reached
            <6> QED
              BY <6>1 DEF Follows
          <5>2. CASE g # h
            <6>1. OnItsWay(c, g)'
              BY <1>5, <4>3, <5>2
            <6> QED
              BY <4>3, <6>1 DEF Follows
          <5> QED
            BY <5>1, <5>2
        <4> QED
          BY <3>1, <4>1, <4>2, <4>3 DEF Follows
      <3> QED
        BY <1>0, <3>1, <3>3, <3>4 DEF recvVars
    <2>3. Gapless(c)'
      BY <2>2 DEF Gapless
    <2>4. inbound[c].active \in Nat /\ inbound[c].last \in Nat
      BY Known, LanesConstantsAssumption DEF Inbounds
    <2>5. ASSUME inbound[c].active # 0
          PROVE  \/ Reached(c, inbound[c].active, inbound[c].last + 1)'
                 \/ \E f \in Frames : Input(f) /\ OnItsWay(c, f)' /\ f.epoch = inbound[c].active
                                      /\ f.seq = inbound[c].last
      <3>1. CASE Reached(c, inbound[c].active, inbound[c].last + 1)
        <4>1. session.epoch > inbound[c].active
          BY <1>0, <1>1, <2>1, <2>4, <3>1 DEF Reached
        <4> QED
          BY <1>0, <1>2, <4>1 DEF Reached, recvVars
      <3>2. ASSUME NEW f \in Frames, Input(f), OnItsWay(c, f), f.epoch = inbound[c].active, f.seq = inbound[c].last
            PROVE  \/ Reached(c, inbound[c].active, inbound[c].last + 1)'
                   \/ OnItsWay(c, f)'
        <4>1. CASE f = h
          BY <1>0, <1>2, <3>2, <4>1 DEF Reached, recvVars
        <4>2. CASE f # h
          BY <1>5, <3>2, <4>2
        <4> QED
          BY <4>1, <4>2
      <3> QED
        BY <1>7, <2>5, <3>1, <3>2 DEF UpToLast
    <2>6. UpToLast(c)'
      BY <1>0, <2>5 DEF UpToLast, recvVars
    <2> QED
      BY <2>3, <2>6
  <1>8. worker[c].frame.kind # "ReleaseAll"
    BY <1>0 DEF h
  <1> QED
    BY <1>0, <1>2, <1>7, <1>8, SubmittedKeeps

LEMMA BeginKeeps ==
    ASSUME IInv, NEW c \in Conns, Begin(c)
    PROVE  IInv'
  <1> USE DEF sendVars, recvVars, mainVars
  <1> DEFINE h == worker[c].frame
             w == [worker[c] EXCEPT !.active = h.epoch]
  <1>0. /\ Types /\ worker[c] \in Workers /\ worker[c].pc = "hold"
        /\ UNCHANGED <<sendVars, net, recvVars, queue, mailbox, current, mainVars>> /\ Begins(c)
    BY DEF Begin, IInv, Types
  <1>1. CASE session' = ReleasedThrough(c, h.epoch) /\ Leaves(c, TRUE)
    BY <1>0, <1>1, BeginFailsKeeps
  <1>2. CASE h.epoch > session.epoch /\ session' = SessionOf(c, h.epoch) /\ worker' = [worker EXCEPT ![c].active = h.epoch]
    <2>0. h \in Frames /\ h.epoch \in Epochs /\ h.epoch \in Nat /\ session.epoch \in Nat /\ h.epoch # 0
      <3>1. h \in Frames
        BY <1>0 DEF Workers
      <3> QED
        BY <1>0, <3>1, Known DEF Kinds
    <2>1. worker' = [worker EXCEPT ![c] = w]
      BY <1>0, <1>2 DEF Types
    <2>2. w \in Workers /\ w.pc = "hold" /\ w.frame = h /\ w.active = h.epoch
      BY <1>0, <2>0 DEF Workers
    <2>3. /\ session' \in Sessions /\ session'.owner = c /\ session'.epoch = h.epoch /\ session'.rel = 0 /\ session'.open
      <3>1. c \in 0..ConnMax /\ 0 \in 0..ConnMax /\ 0 \in 0..(SendMax + 1) /\ 0 \in Epochs
        BY LanesConstantsAssumption DEF Conns, Epochs
      <3>2. session' = [[NoSession EXCEPT !.owner = c] EXCEPT !.epoch = h.epoch, !.open = TRUE]
        BY <1>2, ZenonT(60), SMTT(60) DEF SessionOf
      <3> HIDE DEF h
      <3> QED
        BY <1>2, <2>0, <3>1 DEF SessionOf, NoSession, Sessions
    <2> HIDE DEF w, h
    <2>4. /\ worker' \in [Conns -> Workers] /\ worker'[c] = w
          /\ \A d \in Conns : d # c => worker'[d] = worker[d]
      BY <1>0, <2>1, <2>2, WorkersTyped
    <2>5. Types'
      BY <1>0, <2>3, <2>4 DEF Types
    <2>6. WorkStep(c)
      BY <1>0, <2>4 DEF WorkStep
    <2>7. LinkInv' /\ \A d \in Conns : d # c => (Serving(d)' => Serving(d))
      BY <1>0, <2>2, <2>4, <2>6, WorkLinkKeeps
    <2>8. SessionInv'
      <3>1. c # 0
        BY DEF Conns
      <3>2. ASSUME NEW d \in Conns
            PROVE  /\ session'.owner = d /\ worker'[d].pc \in {"wait", "hold"} => worker'[d].active = session'.epoch
                   /\ session'.owner = d => worker'[d].pc # "off"
                   /\ worker'[d].active <= session'.epoch
        <4>1. CASE d = c
          BY <2>0, <2>2, <2>3, <2>4, <4>1
        <4>2. CASE d # c
          <5>1. worker[d].active <= session.epoch /\ worker[d].active \in Nat
            BY <1>0, LanesConstantsAssumption DEF IInv, SessionInv, Types, Workers, Epochs
          <5> QED
            BY <1>2, <2>0, <2>3, <2>4, <4>2, <5>1
        <4> QED
          BY <4>1, <4>2
      <3> QED
        BY <2>0, <2>3, <3>1, <3>2 DEF SessionInv
    <2>9. \A d \in Conns : d # c => Milder(d)
      BY <1>2, <2>3 DEF Milder
    <2>10. Fewer(c)
      BY <1>0, <2>2, <2>4 DEF Fewer, h
    <2>11. \A f : /\ InHand(c, f)' <=> InHand(c, f)
                  /\ InReader(c, f)' <=> InReader(c, f)
                  /\ InQueue(c, f)' <=> InQueue(c, f)
                  /\ OnItsWay(c, f)' <=> OnItsWay(c, f)
      BY <1>0, <2>2, <2>4 DEF OnItsWay, InHand, InReader, InQueue, Streams, h
    <2>12. Serving(c)' => Serving(c)
      BY <1>0, <2>2, <2>4 DEF Serving, IsCurrent
    <2>13. \A x \in Nat : \A s : Reached(c, x, s) => Reached(c, x, s)'
      BY <1>2, <2>0, <2>3 DEF Reached, h
    <2>14. \A f \in Frames : NotPast(c, f)' /\ f.epoch \in Nat
      <3>1. \A f \in Frames : f.seq \in Nat
        BY LanesConstantsAssumption DEF Frames
      <3> QED
        BY <2>3, <3>1, Known DEF NotPast
    <2>15. Row(c)'
      <3>0. Row(c) /\ inbound[c].active \in Nat /\ UNCHANGED <<inbound, queue>>
        BY <1>0, Known
      <3>1. HandFits(c)'
        <4> SUFFICES ASSUME NEW g \in Frames, g = h, Input(g)
                     PROVE  (g.seq = 0 \/ Reached(c, g.epoch, g.seq)') /\ NotPast(c, g)'
          BY <2>0, <2>2, <2>4 DEF HandFits, Reached, NotPast
        <4>1. g.seq = 0 \/ Reached(c, g.epoch, g.seq)
          BY <1>0, <3>0 DEF Row, HandFits, h
        <4> QED
          BY <2>13, <2>14, <4>1
      <3>2. Gapless(c) => Gapless(c)'
        BY <2>11, <2>13, <2>14, <3>0 DEF Gapless, Follows
      <3>3. InOrder(c) => InOrder(c)'
        BY <2>11, <3>0 DEF InOrder
      <3>4. UpToLast(c) => UpToLast(c)'
        BY <2>11, <2>13, <3>0 DEF UpToLast
      <3> QED
        BY <2>12, <3>0, <3>1, <3>2, <3>3, <3>4 DEF Row
    <2>16. AllAnswered(c)'
      <3>1. \A x : Answered(c, x) => Answered(c, x)'
        BY <1>0, <2>11 DEF Answered, Open
      <3>2. OnItsWay(c, h)
        BY <1>0 DEF OnItsWay, InHand, h
      <3>3. ASSUME Serving(c) PROVE Answered(c, h.epoch)
        BY <1>2, <2>0, <3>2, <3>3, Known DEF AllAnswered, h
      <3>4. ASSUME Serving(c), NEW f \in Frames, OnItsWay(c, f) \/ mailbox[c] = f, f.epoch > h.epoch
            PROVE  Answered(c, f.epoch)
        <4>1. f.epoch > session.epoch
          BY <1>2, <2>0, <2>14, <3>4 DEF h
        <4> QED
          BY <3>4, <4>1, Known DEF AllAnswered
      <3> QED
        BY <1>0, <2>3, <2>11, <2>12, <3>1, <3>3, <3>4 DEF AllAnswered
    <2>17. session'.owner = c /\ worker[c].pc = "hold" /\ session'.epoch = worker[c].frame.epoch
      BY <1>0, <2>3 DEF h
    <2> QED
      BY <2>5, <2>6, <2>7, <2>8, <2>9, <2>10, <2>15, <2>16, <2>17, WorkStepKeeps
  <1> QED
    BY <1>0, <1>1, <1>2 DEF Begins

LEMMA InitKeeps ==
    ASSUME Init
    PROVE  IInv
  <1>1. /\ 0 \in Epochs /\ 0 \in 0..SendMax /\ 0 \in 0..ConnMax /\ 0 \in 0..(SendMax + 1) /\ NoFrame \in Frames
    BY FramesTyped, LanesConstantsAssumption
  <1>2. /\ FreshLane \in LaneStates(Epochs) /\ FreshInbound \in Inbounds /\ Sane(FreshInbound)
        /\ FreshWorker \in Workers /\ NoSession \in Sessions
        /\ [due |-> {}, high |-> 0] \in Emitters
    BY <1>1 DEF FreshLane, LaneStates, FreshInbound, Inbounds, Sane, FreshWorker, Workers, NoSession, Sessions, Emitters
  <1>3. [streams |-> <<>>, urgent |-> {}, rushed |-> {}, datagrams |-> {}] \in Nets
    BY DEF Nets
  <1>4. <<>> \in Seq(Frames) /\ Len(<<>>) <= QueueCap
    BY LanesConstantsAssumption
  <1>5. Types
    <2>1. \A c \in Conns : Sane(inbound[c]) /\ releases[c].due \subseteq 1..releases[c].high /\ Len(queue[c]) <= QueueCap
      BY <1>2, <1>4 DEF Init
    <2> QED
      BY <1>1, <1>2, <1>3, <1>4, <2>1 DEF Init, Types
  <1>6. \A c \in Conns : Unmade(c) /\ peer[c] = None
    BY DEF Init, Unmade
  <1>7. LinkInv
    BY <1>6 DEF Init, LinkInv, Unmade, FreshWorker, Open
  <1>8. SessionInv
    BY LanesConstantsAssumption DEF Init, SessionInv, NoSession, FreshWorker, Conns
  <1>9. ASSUME NEW c \in Conns PROVE Local(c)
    <2>1. /\ net[c] = [streams |-> <<>>, urgent |-> {}, rushed |-> {}, datagrams |-> {}]
          /\ inbound[c] = FreshInbound /\ releases[c] = [due |-> {}, high |-> 0]
          /\ queue[c] = <<>> /\ mailbox[c] = NoFrame /\ worker[c] = FreshWorker /\ ~Open(c)
          /\ session = NoSession
      BY <1>6 DEF Unmade, Open, Init
    <2>2. Streams(c) = {} /\ DOMAIN queue[c] = {}
      BY <2>1 DEF Streams
    <2>3. \A f : ~OnItsWay(c, f)
      BY <2>1, <2>2 DEF OnItsWay, InHand, InQueue, InReader, FreshWorker
    <2>4. Kinds(c) /\ HeardOf(c)
      BY <2>1, <2>2, FramesTyped DEF Kinds, HeardOf, FreshWorker, FreshInbound, NoSession, Conns, Heard, Larger
    <2>5. OwnedOnce(c) /\ SenderKnows(c)
      BY <2>1, <2>2 DEF OwnedOnce, SenderKnows
    <2>6. Row(c)
      <3>1. HandFits(c)
        BY <2>1 DEF HandFits, FreshWorker
      <3>2. Gapless(c) /\ InOrder(c) /\ UpToLast(c)
        BY <2>1, <2>2, <2>3 DEF Gapless, InOrder, UpToLast, FreshInbound, OnItsWay
      <3> QED
        BY <3>1, <3>2 DEF Row
    <2>7. AllAnswered(c)
      BY <2>1 DEF AllAnswered, Answered
    <2> QED
      BY <2>4, <2>5, <2>6, <2>7 DEF Local
  <1> QED
    BY <1>5, <1>7, <1>8, <1>9 DEF IInv

LEMMA NextKeeps ==
    ASSUME IInv, [Next]_vars
    PROVE  IInv'
  <1>1. CASE UNCHANGED vars
    <2>1. UNCHANGED <<sendVars, net, recvVars, laneVars, mainVars, session>>
      BY <1>1 DEF vars, sendVars, recvVars, laneVars, mainVars
    <2>2. Closes
      BY <2>1 DEF Closes
    <2> QED
      BY <2>1, <2>2, TellingKeeps DEF IInv, Types, recvVars, mainVars
  <1>2. CASE SessionEnds
    BY <1>2, SessionEndsKeeps
  <1>3. ASSUME NEW c \in Conns, Sends(c) PROVE IInv'
    <2>1. ASSUME NEW p \in Peers, NEW e \in 0..EpochMax, Connect(c, p, e) PROVE IInv'
      BY <2>1, ConnectKeeps DEF Epochs
    <2>2. CASE SendEnter(c)
      BY <2>2, SendEnterKeeps
    <2>3. CASE SendKey(c)
      BY <2>3, SendKeyKeeps
    <2>4. CASE SendRelease(c)
      BY <2>4, SendReleaseKeeps
    <2>5. CASE SendMotion(c)
      BY <2>5, SendMotionKeeps
    <2>6. CASE Lose(c)
      BY <2>6, LoseKeeps
    <2> QED
      BY <1>3, <2>1, <2>2, <2>3, <2>4, <2>5, <2>6 DEF Sends
  <1>4. ASSUME NEW c \in Conns, Reading(c) PROVE IInv'
    <2>1. ASSUME NEW i \in Streams(c), ReadReliable(c, i) PROVE IInv'
      BY <2>1, ReadReliableKeeps
    <2>2. ASSUME NEW i \in Streams(c), QueueReliable(c, i) PROVE IInv'
      BY <2>2, QueueReliableKeeps
    <2>3. ASSUME NEW i \in Streams(c), StreamReset(c, i) PROVE IInv'
      BY <2>3, StreamResetKeeps
    <2>4. ASSUME NEW e \in 1..EpochMax, ReadUrgent(c, e) PROVE IInv'
      BY <2>4, ReadUrgentKeeps
    <2>5. ASSUME NEW e \in 1..EpochMax, QueueUrgent(c, e) PROVE IInv'
      BY <2>5, QueueUrgentKeeps
    <2>6. ASSUME NEW e \in 1..EpochMax, ReadDatagram(c, e) PROVE IInv'
      BY <2>6, ReadDatagramKeeps
    <2>7. CASE ConnectionEnds(c)
      BY <2>7, ConnectionEndsKeeps
    <2> QED
      BY <1>4, <2>1, <2>2, <2>3, <2>4, <2>5, <2>6, <2>7 DEF Reading
  <1>5. ASSUME NEW c \in Conns, Idles(c) PROVE IInv'
    BY <1>5, StreamIdleKeeps DEF Idles
  <1>6. ASSUME NEW c \in Conns, Work(c) PROVE IInv'
    <2>1. CASE ServePeer(c)
      BY <2>1, ServePeerKeeps
    <2>2. CASE TakeReliable(c)
      BY <2>2, TakeReliableKeeps
    <2>3. CASE TakeMotion(c)
      BY <2>3, TakeMotionKeeps
    <2>4. CASE Begin(c)
      BY <2>4, BeginKeeps
    <2>5. CASE SubmitMotion(c)
      BY <2>5, SubmitMotionKeeps
    <2>6. CASE SubmitRelease(c)
      BY <2>6, SubmitReleaseKeeps
    <2>7. CASE SubmitInput(c)
      BY <2>7, SubmitInputKeeps
    <2>8. CASE SubmitFails(c)
      BY <2>8, SubmitFailsKeeps
    <2>9. CASE LanesClosed(c)
      BY <2>9, LanesClosedKeeps
    <2>10. CASE Finish(c)
      BY <2>10, FinishKeeps
    <2> QED
      BY <1>6, <2>1, <2>2, <2>3, <2>4, <2>5, <2>6, <2>7, <2>8, <2>9, <2>10 DEF Work
  <1>7. ASSUME NEW c \in Conns, Told(c) PROVE IInv'
    <2>1. ASSUME NEW e \in 1..EpochMax, ToldReleased(c, e) PROVE IInv'
      BY <2>1, ToldReleasedKeeps
    <2> QED
      BY <1>7, <2>1, ToldConnectedKeeps, ToldDisconnectedKeeps DEF Told
  <1> QED
    BY <1>1, <1>2, <1>3, <1>4, <1>5, <1>6, <1>7 DEF Next

\* Whatever the network, the readers, the worker and the daemon's handlers do, in
\* whatever order, the inductive invariant holds.
THEOREM LanesInvariant == Spec => []IInv
  <1>1. Init => IInv
    BY InitKeeps
  <1>2. IInv /\ [Next]_vars => IInv'
    BY NextKeeps
  <1> QED
    BY <1>1, <1>2, PTL DEF Spec

LEMMA TypesHold == ASSUME IInv PROVE LanesTypeOK
  <1>1. Types
    BY DEF IInv
  <1>2. ASSUME NEW c \in Conns
        PROVE  /\ inbound[c].active \in Epochs /\ inbound[c].retired \in Epochs
               /\ inbound[c].active # 0 => inbound[c].active > inbound[c].retired /\ ~inbound[c].terminal
               /\ releases[c].due \subseteq 1..releases[c].high
               /\ Len(queue[c]) <= QueueCap /\ \A i \in DOMAIN queue[c] : queue[c][i] \in Frames
               /\ mailbox[c] \in Frames /\ worker[c].frame \in Frames
               /\ worker[c].pc \in {"off", "wait", "hold", "end", "done"}
               /\ \A i \in Streams(c) : net[c].streams[i].held \in Frames
    <2>1. inbound[c] \in Inbounds /\ Sane(inbound[c]) /\ worker[c] \in Workers /\ net[c] \in Nets
          /\ queue[c] \in Seq(Frames) /\ mailbox[c] \in Frames
      BY <1>1 DEF Types
    <2>2. \A i \in Streams(c) : net[c].streams[i].held \in Frames
      BY <2>1, StreamsTyped DEF Streams
    <2>3. \A i \in DOMAIN queue[c] : queue[c][i] \in Frames
      BY <2>1
    <2>4. releases[c].due \subseteq 1..releases[c].high /\ Len(queue[c]) <= QueueCap
      BY <1>1 DEF Types
    <2> QED
      BY <2>1, <2>2, <2>3, <2>4 DEF Inbounds, Workers, Sane
  <1> QED
    BY <1>1, <1>2 DEF LanesTypeOK, Types, Sessions

LEMMA NoGap ==
    ASSUME IInv, NEW c \in Conns, Submits(c), Input(worker[c].frame), Mine(c)
    PROVE  InSequence(c)
  <1>1. HandFits(c) /\ worker[c].frame \in Frames /\ session.rel \in Nat
    <2>1. Types /\ worker[c] \in Workers /\ session \in Sessions
      BY DEF IInv, Types
    <2> QED
      BY <2>1, Known, LanesConstantsAssumption DEF Row, Workers, Sessions
  <1>2. worker[c].frame.seq \in Nat /\ worker[c].frame.epoch \in Nat
    BY <1>1, Known, LanesConstantsAssumption DEF Frames
  <1>3. session.owner = c /\ session.epoch = worker[c].frame.epoch
    BY DEF Mine, Submits
  <1>4. /\ worker[c].frame.seq = 0 \/ session.rel = worker[c].frame.seq
        /\ session.rel <= worker[c].frame.seq
    BY <1>1, <1>2, <1>3 DEF HandFits, Reached, NotPast, Submits
  <1> QED
    BY <1>1, <1>2, <1>4 DEF InSequence

\* No order of readers, resets, cancellations and releases makes a gap in what
\* the worker submits to an open session, nor overfills its queue.
THEOREM GapNeverReachesActor == Spec => []NoGapReachesActor
  <1>1. IInv => NoGapReachesActor
    BY TypesHold, NoGap DEF NoGapReachesActor, Input
  <1> QED
    BY <1>1, LanesInvariant, PTL

\* As long as the worker of a connection serves, the session it holds open is
\* under way at the transport, or what ends it is on its way to the worker.
THEOREM SessionsAlwaysAnswered == Spec => []SessionAnswered
  <1>1. ASSUME IInv, NEW c \in Conns, session.open, session.owner = c, worker[c].pc \in {"wait", "hold"},
               IsCurrent(c), NEW e, e = session.epoch
        PROVE  \/ ~Open(c)
               \/ inbound[c].active = e
               \/ \E i \in DOMAIN queue[c] : Ends(queue[c][i], e)
               \/ Ends(worker[c].frame, e)
               \/ \E i \in Streams(c) : Ends(net[c].streams[i].held, e)
               \/ \E f \in net[c].urgent \cup net[c].rushed : f >= e
    <2>1. Answered(c, e)
      BY <1>1, Known DEF AllAnswered, Serving
    <2>2. ASSUME NEW f \in Frames, OnItsWay(c, f), Ends(f, e)
          PROVE  \/ \E i \in DOMAIN queue[c] : Ends(queue[c][i], e)
                 \/ Ends(worker[c].frame, e)
                 \/ \E i \in Streams(c) : Ends(net[c].streams[i].held, e)
      BY <2>2 DEF OnItsWay, InHand, InQueue, InReader
    <2> QED
      BY <2>1, <2>2 DEF Answered
  <1>2. IInv => SessionAnswered
    BY <1>1 DEF SessionAnswered
  <1> QED
    BY <1>2, LanesInvariant, PTL

\* What may close the session of c that is under way at the transport.
LEMMA OnlyLapses ==
    ASSUME IInv, Next, NEW c \in Conns, session.open, session.owner = c, ~session'.open,
           Open(c), IsCurrent(c), inbound[c].active = session.epoch
    PROVE  SessionEnds \/ (Overload /\ SubmitFails(c))
  <1> USE DEF sendVars, recvVars, mainVars
  <1>0. /\ session.epoch # 0 /\ session.epoch \in Nat /\ inbound[c].retired \in Nat
        /\ inbound[c].active > inbound[c].retired /\ Heard(c) = session.epoch /\ worker[c].pc # "off"
        /\ session \in Sessions /\ Types /\ LinkInv
    <2>1. session.epoch # 0 /\ worker[c].pc # "off" /\ LinkInv /\ Types /\ session \in Sessions
      BY DEF IInv, SessionInv, Types
    <2> QED
      BY <2>1, Known DEF Sane, Heard, Larger
  <1>1. ASSUME NEW d, NEW e, session' = ReleasedThrough(d, e)
        PROVE  d = c /\ session.epoch <= e
    BY <1>1 DEF ReleasedThrough
  <1>2. session' # session
    OBVIOUS
  <1>3. ASSUME NEW d \in Conns, Sends(d) \/ Reading(d) \/ Idles(d) PROVE FALSE
    <2>1. session' = session
      <3>1. CASE Sends(d)
        BY <3>1 DEF Sends, Connect, SendEnter, SendKey, SendRelease, SendMotion, Lose, SendReliable
      <3>2. CASE Reading(d)
        BY <3>2 DEF Reading, ReadReliable, QueueReliable, StreamReset, ReadUrgent, QueueUrgent, ReadDatagram, ConnectionEnds
      <3>3. CASE Idles(d)
        BY <3>3 DEF Idles, StreamIdle
      <3> QED
        BY <1>3, <3>1, <3>2, <3>3
    <2> QED
      BY <1>2, <2>1
  <1>4. ASSUME NEW d \in Conns, ServePeer(d) PROVE FALSE
    <2>1. session' = ReleasedThrough(current[peer[d]], EpochMax) /\ current[peer[d]] # 0
      BY <1>2, <1>4 DEF ServePeer
    <2>2. current[peer[d]] = c
      BY <1>1, <2>1
    <2>3. peer[c] = peer[d]
      <3>1. peer[d] \in Peers
        BY <1>0, <1>4 DEF ServePeer, Types
      <3> QED
        BY <1>0, <2>1, <2>2, <3>1 DEF LinkInv
    <2>4. c # d /\ worker[d].pc = "off"
      BY <1>0, <1>4 DEF ServePeer
    <2>5. ~(d < c)
      BY <1>0, <2>4 DEF LinkInv
    <2>6. ~(c < d)
      BY <1>0, <2>3 DEF LinkInv
    <2> QED
      BY <2>4, <2>5, <2>6, LanesConstantsAssumption DEF Conns
  <1>5. ASSUME NEW d \in Conns, Begin(d) PROVE FALSE
    <2>1. session' = ReleasedThrough(d, worker[d].frame.epoch)
      BY <1>5 DEF Begin, Begins, SessionOf, NoSession
    <2>2. d = c /\ session.epoch <= worker[c].frame.epoch
      BY <1>1, <2>1
    <2>3. worker[c].frame.epoch <= session.epoch
      BY <1>0, Known DEF HeardOf
    <2>4. worker[c].active = session.epoch
      BY <1>5, <2>2 DEF IInv, SessionInv, Begin
    <2>5. worker[c].frame.epoch \in Nat
      BY <1>0, Known DEF Types, Workers
    <2> QED
      BY <1>0, <1>5, <2>2, <2>3, <2>4, <2>5 DEF Begin
  <1>6. ASSUME NEW d \in Conns, SubmitRelease(d) PROVE FALSE
    <2>1. d = c /\ worker[c].frame.kind = "ReleaseAll" /\ worker[c].frame.epoch = session.epoch
      BY <1>6 DEF SubmitRelease, Mine, Submits
    <2>2. worker[c].frame.epoch <= inbound[c].retired
      BY <2>1, Known DEF HeardOf
    <2> QED
      BY <1>0, <2>1, <2>2
  <1>7. ASSUME NEW d \in Conns, SubmitFails(d) PROVE Overload /\ SubmitFails(c)
    <2>1. session' = ReleasedThrough(d, worker[d].frame.epoch)
      BY <1>2, <1>7 DEF SubmitFails
    <2>2. d = c
      BY <1>1, <2>1
    <2>3. Submits(c) /\ worker[c].frame.kind # "Motion" /\ worker[c].pc = "hold"
      BY <1>7, <2>2 DEF SubmitFails, Submits
    <2>4. Mine(c)
      BY <2>3 DEF Mine, IInv, SessionInv
    <2>5. worker[c].frame.kind # "None" /\ worker[c].frame \in Frames
      BY <1>0, <2>3, Known DEF Kinds, Types, Workers
    <2>6. worker[c].frame.kind # "ReleaseAll" => InSequence(c)
      BY <2>3, <2>4, <2>5, NoGap DEF Input, Frames
    <2> QED
      BY <1>7, <2>2, <2>4, <2>6 DEF SubmitFails
  <1>8. ASSUME NEW d \in Conns, Finish(d) PROVE FALSE
    <2>1. session' = ReleasedThrough(d, EpochMax) /\ IsCurrent(d) /\ ~worker[d].failed /\ worker[d].pc = "end"
      BY <1>2, <1>8 DEF Finish
    <2>2. d = c
      BY <1>1, <2>1
    <2>3. phase[c] = "ended" \/ ~IsCurrent(c)
      BY <1>0, <2>1, <2>2 DEF LinkInv
    <2> QED
      BY <2>3 DEF Open
  <1>9. ASSUME NEW d \in Conns, ToldDisconnected(d) PROVE FALSE
    <2>1. session' = ReleasedThrough(d, EpochMax)
      BY <1>2, <1>9 DEF ToldDisconnected
    <2>2. d = c
      BY <1>1, <2>1
    <2> QED
      BY <1>9, <2>2 DEF ToldDisconnected, Open
  <1>10. ASSUME NEW d \in Conns, NEW e \in 1..EpochMax, ToldReleased(d, e) PROVE FALSE
    <2>1. session' = ReleasedThrough(d, e) /\ e \in releases[d].due
      BY <1>2, <1>10 DEF ToldReleased
    <2>2. d = c /\ session.epoch <= e
      BY <1>1, <2>1
    <2>3. e \in Nat /\ e <= releases[c].high
      BY <1>0, <2>1, <2>2, Known DEF Types
    <2> QED
      BY <1>0, <2>2, <2>3, Known
  <1>11. ASSUME NEW d \in Conns, SubmitInput(d) PROVE FALSE
    <2>1. session' = [session EXCEPT !.rel = worker[d].frame.seq + 1]
      BY <1>11 DEF SubmitInput
    <2> QED
      BY <1>0, <2>1 DEF Sessions
  <1>12. ASSUME NEW d \in Conns, TakeReliable(d) \/ TakeMotion(d) \/ SubmitMotion(d) \/ LanesClosed(d) \/ ToldConnected(d)
         PROVE  FALSE
    BY <1>2, <1>12 DEF TakeReliable, TakeMotion, Take, SubmitMotion, LanesClosed, ToldConnected
  <1> QED
    BY <1>3, <1>4, <1>5, <1>6, <1>7, <1>8, <1>9, <1>10, <1>11, <1>12 DEF Next, Work, Told

\* Only its lease, or an actor whose queue is full, closes the session that is under
\* way on a connection that is up and served: no release, reset or event of an
\* earlier session, no reconnection and no other connection does.
THEOREM LateReleaseSpares == Spec => LateReleaseSparesNewer
  <1>1. ASSUME IInv, [Next]_vars, NEW c \in Conns, session.open, session.owner = c, ~session'.open,
               Open(c), IsCurrent(c), inbound[c].active = session.epoch
        PROVE  SessionEnds \/ (Overload /\ SubmitFails(c))
    <2>1. Next
      BY <1>1 DEF vars
    <2> QED
      BY <1>1, <2>1, OnlyLapses
  <1>2. IInv /\ [Next]_vars =>
          [ \A c \in Conns :
              /\ session.open /\ session.owner = c /\ ~session'.open
              /\ Open(c) /\ IsCurrent(c) /\ inbound[c].active = session.epoch
              => SessionEnds \/ (Overload /\ SubmitFails(c)) ]_vars
    BY <1>1
  <1> QED
    BY <1>2, LanesInvariant, PTL DEF Spec, LateReleaseSparesNewer
==============================================================================
