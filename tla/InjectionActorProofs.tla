------------------------ MODULE InjectionActorProofs ------------------------
(***************************************************************************)
(* Safety of the injection actor for any owners, keys, buttons, classes of *)
(* motion and capacities: its types, that what is down is accounted for,   *)
(* and that admission and the worker's gate agree.                         *)
(*                                                                         *)
(* Then safety of the stream of what is held and shown (UiStateStream), for*)
(* any fields of the input, capacities and numbers of changes: that nobody *)
(* shows under a revision what the aggregator did not, and that the input  *)
(* mutations all arrive.                                                   *)
(***************************************************************************)
EXTENDS InjectionActor, UiStateStream, FiniteSetTheorems, SequenceTheorems, WellFoundedInduction, TLAPS

-----------------------------------------------------------------------------
(* Types of the queued work.                                               *)

Kinds == Classes \cup {None, "Press", "Release", "Other"}
Works == [type : WorkTypes, epoch : 0..EpochMax, kind : Kinds, seqs : Seq(Seqs),
          control : Controls \cup {None}, anchor : Seqs]

(* A frame has a sequence and an epoch, a press or release a control.      *)
Fitting(x) ==
    /\ x.type \in {"Begin", "Realtime", "Reliable"} => x.epoch # 0
    /\ x.type \in {"Realtime", "Reliable"} => x.seqs # <<>>
    /\ x.type \in {"TrustedLocal", "Reliable"} /\ x.kind \in {"Press", "Release"} => x.control # None
Items == {x \in Works : Fitting(x)}

SessionTypes ==
    /\ admission \in [owner : Owners \cup {None}, epoch : 0..EpochMax, open : BOOLEAN,
                      rt : 0..(SeqMax + 1), rel : 0..(SeqMax + 1), due : BOOLEAN]
    /\ admission.open => admission.epoch # 0
    /\ releaseAll \in BOOLEAN /\ shutdown \in BOOLEAN
QueueTypes ==
    /\ controls \in Seq(Items) /\ \A i \in DOMAIN controls : controls[i].type \in {"Begin", "Close"}
    /\ trusted \in Seq(Items) /\ \A i \in DOMAIN trusted : trusted[i].type = "TrustedLocal"
    /\ ordinary \in Seq(Items) /\ \A i \in DOMAIN ordinary : ordinary[i].type \in {"Realtime", "Reliable"}
WorkerTypes ==
    /\ gate \in [epoch : 0..EpochMax, rt : 0..(SeqMax + 1), rel : 0..(SeqMax + 1)]
    /\ remote \in [Controls -> 0..EpochMax]
    /\ local \subseteq Controls /\ backend \subseteq Controls
    /\ mishaps \subseteq {"Inject", "Ledger", "Gate"}
Types == SessionTypes /\ QueueTypes /\ work \in Items /\ WorkerTypes

Fits ==
    /\ Len(controls) + (IF admission.open THEN 1 ELSE 0) <= ControlCapacity + 1
    /\ ReliableLen <= ReliableCapacity /\ Len(trusted) <= ReliableCapacity

-----------------------------------------------------------------------------
(* What is down.                                                           *)

DownIsHeld == "Ledger" \notin mishaps => backend \subseteq HeldRemote \cup local
HeldInv == DownIsHeld /\ (mishaps = {} => HeldBySession /\ NothingSurvives)

-----------------------------------------------------------------------------
(* Admission and the gate.                                                 *)

(* The open session is the last that the worker has been told of.          *)
Begins(x) == x.type = "Begin" /\ x.epoch = admission.epoch
Told ==
    admission.open /\ ~shutdown =>
        \/ controls # <<>> /\ Begins(Last(controls))
        \/ controls = <<>> /\ ~releaseAll /\ Begins(work)
        \/ /\ controls = <<>> /\ ~releaseAll /\ gate.epoch = admission.epoch
           /\ work.type \in {"Idle", "TrustedLocal", "Realtime", "Reliable"}

(* What the worker has applied of a session when it comes to its frames.   *)
Pending == controls # <<>> \/ work.type = "Begin"
NextRel == IF Pending THEN 0
           ELSE IF work.type = "Reliable" THEN work.seqs[1] + 1 ELSE gate.rel
NextRt == IF Pending THEN 0
          ELSE IF work.type = "Realtime" THEN Last(work.seqs) + 1 ELSE gate.rt

(* Reliable frames go on from next without a gap and end before end; a     *)
(* worker that has applied none takes any.                                 *)
Rel(x) == x.type = "Reliable"
RelsInOrder(q, next, end) ==
    /\ \A i \in DOMAIN q : Rel(q[i]) => q[i].seqs[1] < end
    /\ \A i, j \in DOMAIN q : i < j /\ Rel(q[i]) /\ Rel(q[j]) /\ (\A k \in (i + 1)..(j - 1) : ~Rel(q[k]))
            => q[j].seqs[1] = q[i].seqs[1] + 1
    /\ \A i \in DOMAIN q : Rel(q[i]) /\ (\A k \in 1..(i - 1) : ~Rel(q[k])) => next \in {0, q[i].seqs[1]}
    /\ \A i \in DOMAIN q : Rel(q[i]) /\ (\A k \in (i + 1)..Len(q) : ~Rel(q[k])) => q[i].seqs[1] + 1 = end
    /\ (\A i \in DOMAIN q : ~Rel(q[i])) => next = end

(* Motion is in order, in a batch and from one to the next.                *)
Rising(s) == \A a, b \in DOMAIN s : a < b => s[a] < s[b]
Within(s, next, end) == \A a \in DOMAIN s : next <= s[a] /\ s[a] < end
Before(s, t) == \A a \in DOMAIN s, b \in DOMAIN t : s[a] < t[b]
MotionsInOrder(q, next, end) ==
    /\ next <= end
    /\ \A i \in DOMAIN q : IsRealtime(q[i]) => Rising(q[i].seqs) /\ Within(q[i].seqs, next, end)
    /\ \A i, j \in DOMAIN q : i < j /\ IsRealtime(q[i]) /\ IsRealtime(q[j]) => Before(q[i].seqs, q[j].seqs)

InOrder ==
    admission.open /\ ~shutdown =>
        /\ RelsInOrder(ordinary, NextRel, admission.rel)
        /\ MotionsInOrder(ordinary, NextRt, admission.rt)

MatchInv == Told /\ AdmissionMatchesGate /\ InOrder
                 /\ (work.type = "Realtime" => Rising(work.seqs))

-----------------------------------------------------------------------------
(* Types are kept.                                                         *)

USE DEF Controls, Epochs, Seqs

LEMMA Bounds ==
    /\ EpochMax \in Nat /\ SeqMax \in Nat /\ None \notin Controls
    /\ 0 \in 0..EpochMax /\ 0 \in 0..SeqMax /\ \A s \in 0..SeqMax : s + 1 \in 0..(SeqMax + 1)
  <1>1. EpochMax \in Nat /\ SeqMax \in Nat /\ None \notin Controls
    BY ActorConstantsAssumption
  <1> QED
    BY <1>1

LEMMA SimpleItems ==
    ASSUME NEW t \in WorkTypes \ {"Realtime", "Reliable", "TrustedLocal"}, NEW e \in 0..EpochMax, t = "Begin" => e # 0
    PROVE  Simple(t, e) \in Items /\ Simple(t, e).type = t /\ Simple(t, e).epoch = e
  BY Bounds DEF Simple, Work, Items, Works, Fitting, Kinds, WorkTypes

LEMMA LocalItems ==
    ASSUME NEW c \in Controls \cup {None}, NEW kind \in {"Press", "Release", "Other"},
           kind # "Other" => c # None
    PROVE  TrustedEvent(kind, c) \in Items /\ TrustedEvent(kind, c).type = "TrustedLocal"
  BY Bounds DEF TrustedEvent, Work, Items, Works, Fitting, Kinds, WorkTypes

LEMMA FrameItems ==
    ASSUME Types, admission.epoch # 0
    PROVE  /\ \A kind \in {"Press", "Release", "Other"}, s \in Seqs, c \in Controls \cup {None}, a \in Seqs :
                kind = "Other" \/ c # None => ReliableFrame(kind, s, c, a) \in Items
           /\ \A class \in Classes, seqs \in Seq(Seqs) \ {<<>>} : RealtimeBatch(class, seqs) \in Items
  <1>1. admission.epoch \in 0..EpochMax
    BY DEF Types, SessionTypes
  <1> QED
    BY <1>1, Bounds, SMTT(60), ZenonT(60)
       DEF ReliableFrame, RealtimeBatch, Work, Items, Works, Fitting, Kinds, WorkTypes

(* Items of a queue under another number of sequences.                     *)
LEMMA CutItems ==
    ASSUME NEW x \in Items, x.type = "Realtime", NEW seqs \in Seq(Seqs) \ {<<>>}
    PROVE  [x EXCEPT !.seqs = seqs] \in Items /\ IsRealtime([x EXCEPT !.seqs = seqs])
  BY DEF Items, Works, Fitting, IsRealtime

LEMMA Ends ==
    ASSUME NEW S, NEW s \in Seq(S), s # <<>>
    PROVE  Len(s) \in Nat \ {0} /\ s[1] \in S /\ s[Len(s)] \in S /\ Head(s) = s[1]
  <1>1. Len(s) \in Nat \ {0}
    BY EmptySeq
  <1> QED
    BY <1>1

LEMMA QueuesTaken ==
    ASSUME NEW q \in Seq(Items), q # <<>>, NEW T, \A i \in DOMAIN q : q[i].type \in T
    PROVE  /\ Head(q) \in Items /\ Head(q).type \in T /\ Tail(q) \in Seq(Items)
           /\ \A i \in DOMAIN Tail(q) : Tail(q)[i].type \in T
  BY HeadTailProperties

LEMMA QueuesGrow ==
    ASSUME NEW q \in Seq(Items), NEW x \in Items, NEW T, x.type \in T, \A i \in DOMAIN q : q[i].type \in T
    PROVE  /\ Append(q, x) \in Seq(Items)
           /\ \A i \in DOMAIN Append(q, x) : Append(q, x)[i].type \in T
  BY AppendProperties

LEMMA CloseTypes ==
    ASSUME Types, CloseAdmission, UNCHANGED <<releaseAll, trusted, shutdown>>
    PROVE  SessionTypes' /\ QueueTypes'
  <1>1. Simple("Close", admission.epoch) \in Items /\ Simple("Close", admission.epoch).type = "Close"
    BY SimpleItems DEF Types, SessionTypes, WorkTypes
  <1>2. CASE admission.open
    <2>1. /\ controls' \in Seq(Items)
          /\ \A i \in DOMAIN controls' : controls'[i].type \in {"Begin", "Close"}
      <3> DEFINE x == Simple("Close", admission.epoch)
                 T == {"Begin", "Close"}
      <3>1. controls' = Append(controls, x)
        BY <1>2 DEF CloseAdmission
      <3>2. x \in Items /\ x.type \in T /\ controls \in Seq(Items) /\ \A i \in DOMAIN controls : controls[i].type \in T
        BY <1>1 DEF Types, QueueTypes
      <3> HIDE DEF x, T
      <3>3. Append(controls, x) \in Seq(Items) /\ \A i \in DOMAIN Append(controls, x) : Append(controls, x)[i].type \in T
        BY <3>2, QueuesGrow
      <3> QED
        BY <3>1, <3>3 DEF T
    <2>2. admission' = [admission EXCEPT !.open = FALSE] /\ ordinary' = <<>> /\ UNCHANGED trusted
      BY <1>2 DEF CloseAdmission
    <2>3. SessionTypes'
      BY <2>2 DEF Types, SessionTypes
    <2>4. ordinary' \in Seq(Items) /\ \A i \in DOMAIN ordinary' : FALSE
      BY <2>2
    <2> QED
      BY <2>1, <2>2, <2>3, <2>4 DEF Types, QueueTypes
  <1>3. CASE ~admission.open
    BY <1>3 DEF CloseAdmission, Types, SessionTypes, QueueTypes
  <1> QED
    BY <1>2, <1>3

(* The steps of the producers.                                             *)
LEMMA BeginTypes ==
    ASSUME Types, NEW o \in Owners, NEW e \in 1..EpochMax, BeginSession(o, e)
    PROVE  SessionTypes' /\ QueueTypes'
  <1>1. /\ Simple("Close", admission.epoch) \in Items /\ Simple("Close", admission.epoch).type = "Close"
        /\ Simple("Begin", e) \in Items /\ Simple("Begin", e).type = "Begin"
    BY SimpleItems, Bounds DEF Types, SessionTypes, WorkTypes
  <1>2. SessionTypes'
    <2>1. admission' = [owner |-> o, epoch |-> e, open |-> TRUE, rt |-> 0, rel |-> 0, due |-> FALSE]
          /\ UNCHANGED <<releaseAll, shutdown>>
      BY DEF BeginSession, NoSession
    <2>2. e \in 0..EpochMax /\ e # 0 /\ 0 \in 0..(SeqMax + 1)
      BY Bounds
    <2> QED
      BY <2>1, <2>2 DEF Types, SessionTypes
  <1>3. \A q : q \in Seq(Items) /\ (\A i \in DOMAIN q : q[i].type \in {"Begin", "Close"})
          => \A x \in Items : x.type \in {"Begin", "Close"} =>
               q \o <<x>> \in Seq(Items) /\ \A i \in DOMAIN (q \o <<x>>) : (q \o <<x>>)[i].type \in {"Begin", "Close"}
    <2> SUFFICES ASSUME NEW q \in Seq(Items), \A i \in DOMAIN q : q[i].type \in {"Begin", "Close"},
                        NEW x \in Items, x.type \in {"Begin", "Close"}
                 PROVE  q \o <<x>> \in Seq(Items)
                        /\ \A i \in DOMAIN (q \o <<x>>) : (q \o <<x>>)[i].type \in {"Begin", "Close"}
      OBVIOUS
    <2>1. q \o <<x>> = Append(q, x)
      BY AppendIsConcat
    <2> QED
      BY <2>1, QueuesGrow
  <1>4. controls' \in Seq(Items) /\ \A i \in DOMAIN controls' : controls'[i].type \in {"Begin", "Close"}
    <2>1. controls \in Seq(Items) /\ \A i \in DOMAIN controls : controls[i].type \in {"Begin", "Close"}
      BY DEF Types, QueueTypes
    <2>2. CASE admission.open
      <3>1. controls' = (controls \o <<Simple("Close", admission.epoch)>>) \o <<Simple("Begin", e)>>
        BY <2>2 DEF BeginSession
      <3> QED
        BY <1>1, <1>3, <2>1, <3>1
    <2>3. CASE ~admission.open
      <3>1. controls' = (controls \o <<>>) \o <<Simple("Begin", e)>>
        BY <2>3 DEF BeginSession
      <3>2. controls \o <<>> = controls
        BY <2>1, ConcatEmptySeq
      <3> QED
        BY <1>1, <1>3, <2>1, <3>1, <3>2
    <2> QED
      BY <2>2, <2>3
  <1> QED
    BY <1>2, <1>4 DEF BeginSession, Types, QueueTypes

LEMMA RealtimeTypes ==
    ASSUME Types, NEW o \in Owners, NEW e \in 1..EpochMax, NEW class \in Classes, NEW s \in Seqs,
           SubmitRealtime(o, e, class, s)
    PROVE  SessionTypes' /\ QueueTypes'
  <1>1. SessionTypes'
    BY Bounds DEF SubmitRealtime, From, Types, SessionTypes
  <1>2. ordinary \in Seq(Items) /\ (\A i \in DOMAIN ordinary : ordinary[i].type \in {"Realtime", "Reliable"})
    BY DEF Types, QueueTypes
  <1>3. admission.epoch # 0
    BY DEF SubmitRealtime, From, Types, SessionTypes
  <1>4. <<s>> \in Seq(Seqs) \ {<<>>}
    OBVIOUS
  <1>5. ordinary' \in Seq(Items) /\ (\A i \in DOMAIN ordinary' : ordinary'[i].type \in {"Realtime", "Reliable"})
    <2>1. ASSUME ordinary # <<>>, IsRealtime(Last(ordinary)), NEW seqs \in Seq(Seqs) \ {<<>>},
                 ordinary' = [ordinary EXCEPT ![Len(ordinary)].seqs = seqs]
          PROVE  ordinary' \in Seq(Items) /\ (\A i \in DOMAIN ordinary' : ordinary'[i].type \in {"Realtime", "Reliable"})
      <3>1. Len(ordinary) \in 1..Len(ordinary) /\ ordinary[Len(ordinary)] \in Items
        BY <1>2, <2>1, EmptySeq
      <3>2. [ordinary[Len(ordinary)] EXCEPT !.seqs = seqs] \in Items
            /\ IsRealtime([ordinary[Len(ordinary)] EXCEPT !.seqs = seqs])
        BY <2>1, <3>1, CutItems DEF Last, IsRealtime
      <3>3. ordinary' = [ordinary EXCEPT ![Len(ordinary)] = [ordinary[Len(ordinary)] EXCEPT !.seqs = seqs]]
        BY <2>1, <3>1, <1>2
      <3> QED
        BY <1>2, <3>1, <3>2, <3>3, ExceptSeq DEF IsRealtime
    <2>2. ASSUME ordinary' = Append(ordinary, RealtimeBatch(class, <<s>>))
          PROVE  ordinary' \in Seq(Items) /\ (\A i \in DOMAIN ordinary' : ordinary'[i].type \in {"Realtime", "Reliable"})
      <3>1. RealtimeBatch(class, <<s>>) \in Items /\ RealtimeBatch(class, <<s>>).type = "Realtime"
        BY <1>3, <1>4, FrameItems DEF RealtimeBatch, Work
      <3> QED
        BY <1>2, <2>2, <3>1, QueuesGrow
    <2>3. ASSUME ordinary # <<>>, IsRealtime(Last(ordinary)) PROVE Append(Last(ordinary).seqs, s) \in Seq(Seqs) \ {<<>>}
      <3>1. Last(ordinary).seqs \in Seq(Seqs)
        BY <1>2, <2>3 DEF Last, Items, Works
      <3> QED
        BY <3>1, AppendProperties
    <2> QED
      BY <1>2, <1>4, <2>1, <2>2, <2>3 DEF SubmitRealtime, RealtimeQueues
  <1> QED
    BY <1>1, <1>5 DEF SubmitRealtime, Types, QueueTypes

LEMMA ReliableTypes ==
    ASSUME Types, NEW o \in Owners, NEW e \in 1..EpochMax, NEW kind \in {"Press", "Release", "Other"},
           NEW s \in Seqs, NEW c \in Controls \cup {None}, kind # "Other" => c # None, NEW a \in Seqs,
           SubmitReliable(o, e, kind, s, c, a)
    PROVE  SessionTypes' /\ QueueTypes'
  <1>1. SessionTypes'
    BY Bounds DEF SubmitReliable, From, Types, SessionTypes
  <1>2. admission.epoch # 0
    BY DEF SubmitReliable, From, Types, SessionTypes
  <1>3. ReliableFrame(kind, s, c, a) \in Items /\ ReliableFrame(kind, s, c, a).type = "Reliable"
    <2>1. ReliableFrame(kind, s, c, a) \in Items
      BY <1>2, FrameItems
    <2> QED
      BY <2>1 DEF ReliableFrame, Work
  <1>4. ordinary' \in Seq(Items) /\ (\A i \in DOMAIN ordinary' : ordinary'[i].type \in {"Realtime", "Reliable"})
    BY <1>3, QueuesGrow DEF SubmitReliable, Types, QueueTypes
  <1> QED
    BY <1>1, <1>4 DEF SubmitReliable, Types, QueueTypes

-----------------------------------------------------------------------------
(* What next_work_item may take from the ordinary queue q, leaving r: its  *)
(* front, the button behind it, or the part of the front that comes before *)
(* the button.                                                             *)

FrontTaken(q, r, w) ==
    /\ q # <<>> /\ w = q[1] /\ Len(r) = Len(q) - 1
    /\ \A i \in 1..(Len(q) - 1) : r[i] = q[i + 1]
ButtonTaken(q, r, w) ==
    /\ Len(q) > 1 /\ IsRealtime(q[1]) /\ Rel(q[2])
    /\ w = q[2] /\ Len(r) = Len(q) - 1 /\ r[1] = q[1]
    /\ \A i \in 2..(Len(q) - 1) : r[i] = q[i + 1]
SplitTaken(q, r, w, k) ==
    /\ Len(q) > 1 /\ IsRealtime(q[1]) /\ Rel(q[2])
    /\ k \in 2..Len(q[1].seqs)
    /\ w = [q[1] EXCEPT !.seqs = SubSeq(q[1].seqs, 1, k - 1)]
    /\ Len(r) = Len(q) /\ r[1] = q[2]
    /\ r[2] = [q[1] EXCEPT !.seqs = SubSeq(q[1].seqs, k, Len(q[1].seqs))]
    /\ \A i \in 3..Len(q) : r[i] = q[i]

LEMMA SeqParts ==
    ASSUME NEW S, NEW s \in Seq(S), NEW k \in 2..Len(s)
    PROVE  /\ SubSeq(s, 1, k - 1) # <<>> /\ SubSeq(s, k, Len(s)) # <<>>
           /\ SubSeq(s, 1, k - 1) \in Seq(S) /\ Len(SubSeq(s, 1, k - 1)) = k - 1
           /\ \A i \in 1..(k - 1) : SubSeq(s, 1, k - 1)[i] = s[i]
           /\ SubSeq(s, k, Len(s)) \in Seq(S) /\ Len(SubSeq(s, k, Len(s))) = Len(s) - k + 1
           /\ \A i \in 1..(Len(s) - k + 1) : SubSeq(s, k, Len(s))[i] = s[k + i - 1]
  <1>1. Len(s) \in Nat /\ \A i \in 1..Len(s) : s[i] \in S
    OBVIOUS
  <1>2. /\ SubSeq(s, 1, k - 1) \in Seq(S) /\ Len(SubSeq(s, 1, k - 1)) = IF 1 <= k - 1 THEN (k - 1) - 1 + 1 ELSE 0
        /\ \A i \in 1..((k - 1) - 1 + 1) : SubSeq(s, 1, k - 1)[i] = s[1 + i - 1]
    <2>1. \A i \in 1..(k - 1) : s[i] \in S
      BY <1>1
    <2>2. k - 1 \in Int
      BY <1>1
    <2> QED
      BY <2>1, <2>2, SubSeqProperties
  <1>3. /\ SubSeq(s, k, Len(s)) \in Seq(S) /\ Len(SubSeq(s, k, Len(s))) = IF k <= Len(s) THEN Len(s) - k + 1 ELSE 0
        /\ \A i \in 1..(Len(s) - k + 1) : SubSeq(s, k, Len(s))[i] = s[k + i - 1]
    <2>1. \A i \in k..Len(s) : s[i] \in S
      BY <1>1
    <2> QED
      BY <1>1, <2>1, SubSeqProperties
  <1>4. \A i \in 1..(k - 1) : 1 + i - 1 = i
    BY <1>1
  <1>5. SubSeq(s, 1, k - 1) # <<>> /\ SubSeq(s, k, Len(s)) # <<>>
    <2>1. Len(SubSeq(s, 1, k - 1)) > 0 /\ Len(SubSeq(s, k, Len(s))) > 0
      BY <1>1, <1>2, <1>3
    <2>2. Len(<<>>) = 0
      OBVIOUS
    <2>3. \A t : Len(t) > 0 => t # <<>>
      BY <2>2
    <2> QED
      BY <2>1, <2>3, ZenonT(60), SMTT(60)
  <1> QED
    BY <1>1, <1>2, <1>3, <1>4, <1>5, SMTT(60), ZenonT(60)

LEMMA SeqRest ==
    ASSUME NEW S, NEW s \in Seq(S), Len(s) > 1
    PROVE  /\ SubSeq(s, 3, Len(s)) \in Seq(S) /\ Len(SubSeq(s, 3, Len(s))) = Len(s) - 2
           /\ \A i \in 1..(Len(s) - 2) : SubSeq(s, 3, Len(s))[i] = s[i + 2]
  <1>1. Len(s) \in Nat /\ \A i \in 3..Len(s) : s[i] \in S
    OBVIOUS
  <1>2. /\ SubSeq(s, 3, Len(s)) \in Seq(S) /\ Len(SubSeq(s, 3, Len(s))) = IF 3 <= Len(s) THEN Len(s) - 3 + 1 ELSE 0
        /\ \A i \in 1..(Len(s) - 3 + 1) : SubSeq(s, 3, Len(s))[i] = s[3 + i - 1]
    BY <1>1, SubSeqProperties
  <1>3. Len(s) - 3 + 1 = Len(s) - 2 /\ \A i \in 1..(Len(s) - 2) : 3 + i - 1 = i + 2
    BY <1>1
  <1> QED
    BY <1>1, <1>2, <1>3

LEMMA OrdinaryTaken ==
    ASSUME Types, TakeOrdinary
    PROVE  /\ ordinary' \in Seq(Items) /\ work' \in Items
           /\ \/ FrontTaken(ordinary, ordinary', work')
              \/ ButtonTaken(ordinary, ordinary', work')
              \/ \E k \in 2..Len(ordinary[1].seqs) : SplitTaken(ordinary, ordinary', work', k)
  <1> DEFINE q == ordinary
             front == q[1]
             rest == SubSeq(q, 3, Len(q))
             anchored == IsRealtime(Head(q)) /\ Len(q) > 1 /\ IsButton(q[2])
             late == {k \in DOMAIN Head(q).seqs : Head(q).seqs[k] > q[2].anchor}
  <1>1. q \in Seq(Items) /\ q # <<>> /\ Len(q) \in Nat \ {0} /\ Head(q) = front /\ front \in Items
    BY EmptySeq DEF TakeOrdinary, Types, QueueTypes
  <1>2. front.seqs \in Seq(Seqs) /\ Len(front.seqs) \in Nat /\ (IsRealtime(front) => front.seqs # <<>>)
    BY <1>1, SMTT(60), ZenonT(60) DEF Items, Works, Fitting, IsRealtime
  <1>3. ASSUME anchored PROVE
          /\ rest \in Seq(Items) /\ Len(rest) = Len(q) - 2 /\ \A i \in 1..(Len(q) - 2) : rest[i] = q[i + 2]
          /\ q[2] \in Items /\ Rel(q[2])
    <2>1. Len(q) > 1 /\ q[2] \in Items /\ Rel(q[2])
      BY <1>1, <1>3 DEF IsButton, Rel
    <2> QED
      BY <1>1, <2>1, SeqRest
  <1>4. CASE /\ anchored /\ 1 \notin late
             /\ \E k \in late : /\ \A j \in late : k <= j
                                /\ work' = [Head(q) EXCEPT !.seqs = SubSeq(@, 1, k - 1)]
                                /\ ordinary' = <<q[2], [Head(q) EXCEPT !.seqs = SubSeq(@, k, Len(@))]>> \o rest
    <2>1. PICK k \in late :
               /\ work' = [front EXCEPT !.seqs = SubSeq(front.seqs, 1, k - 1)]
               /\ ordinary' = <<q[2], [front EXCEPT !.seqs = SubSeq(front.seqs, k, Len(front.seqs))]>> \o rest
      BY <1>1, <1>4
    <2>2. k \in 2..Len(front.seqs) /\ IsRealtime(front)
      BY <1>1, <1>2, <1>4, SMTT(60), ZenonT(60)
    <2>3. /\ SubSeq(front.seqs, 1, k - 1) \in Seq(Seqs) \ {<<>>}
          /\ SubSeq(front.seqs, k, Len(front.seqs)) \in Seq(Seqs) \ {<<>>}
      BY <1>2, <2>2, SeqParts, ZenonT(60), SMTT(60)
    <2> DEFINE a == [front EXCEPT !.seqs = SubSeq(front.seqs, 1, k - 1)]
               b == [front EXCEPT !.seqs = SubSeq(front.seqs, k, Len(front.seqs))]
    <2>4. a \in Items /\ b \in Items
      BY <1>1, <2>2, <2>3, CutItems DEF IsRealtime
    <2> HIDE DEF a, b, rest
    <2>5. /\ <<q[2], b>> \o rest \in Seq(Items) /\ Len(<<q[2], b>> \o rest) = Len(q)
          /\ (<<q[2], b>> \o rest)[1] = q[2] /\ (<<q[2], b>> \o rest)[2] = b
          /\ \A i \in 3..Len(q) : (<<q[2], b>> \o rest)[i] = q[i]
      <3>1. <<q[2], b>> \in Seq(Items) /\ Len(<<q[2], b>>) = 2
        BY <1>3, <1>4, <2>4
      <3>2. /\ <<q[2], b>> \o rest \in Seq(Items) /\ Len(<<q[2], b>> \o rest) = 2 + Len(rest)
            /\ \A i \in 1..(2 + Len(rest)) :
                 (<<q[2], b>> \o rest)[i] = IF i <= 2 THEN <<q[2], b>>[i] ELSE rest[i - 2]
        BY <1>3, <1>4, <3>1, ConcatProperties
      <3>3. Len(rest) = Len(q) - 2 /\ \A i \in 1..(Len(q) - 2) : rest[i] = q[i + 2]
        BY <1>3, <1>4
      <3> HIDE DEF q
      <3>4. Len(q) \in Nat /\ Len(q) > 1
        BY <1>1, <1>4
      <3>5. \A i \in 3..Len(q) : rest[i - 2] = q[i]
        BY <3>3, <3>4
      <3> QED
        BY <3>2, <3>3, <3>4, <3>5
    <2>6. work' = a /\ ordinary' = <<q[2], b>> \o rest
      BY <2>1 DEF a, b
    <2>7. SplitTaken(q, ordinary', work', k)
      BY <1>3, <1>4, <2>2, <2>5, <2>6 DEF SplitTaken, a, b
    <2> QED
      BY <2>2, <2>4, <2>5, <2>6, <2>7
  <1>5. CASE anchored /\ 1 \in late /\ work' = q[2] /\ ordinary' = <<Head(q)>> \o rest
    <2> HIDE DEF rest
    <2>1. <<front>> \in Seq(Items) /\ Len(<<front>>) = 1
      BY <1>1
    <2>2. /\ <<front>> \o rest \in Seq(Items) /\ Len(<<front>> \o rest) = 1 + Len(rest)
          /\ \A i \in 1..(1 + Len(rest)) : (<<front>> \o rest)[i] = IF i <= 1 THEN <<front>>[i] ELSE rest[i - 1]
      BY <1>3, <1>5, <2>1, ConcatProperties
    <2>3. Len(rest) = Len(q) - 2 /\ \A i \in 1..(Len(q) - 2) : rest[i] = q[i + 2]
      BY <1>3, <1>5
    <2>4. ordinary' = <<front>> \o rest /\ work' = q[2] /\ IsRealtime(front) /\ Len(q) > 1 /\ q[2] \in Items /\ Rel(q[2])
      BY <1>1, <1>3, <1>5
    <2>5. \A i \in 2..(Len(q) - 1) : rest[i - 1] = q[i + 1]
      BY <1>1, <2>3
    <2>6. ButtonTaken(q, ordinary', work')
      BY <1>1, <2>2, <2>3, <2>4, <2>5 DEF ButtonTaken
    <2> QED
      BY <2>2, <2>4, <2>6
  <1>6. CASE work' = Head(q) /\ ordinary' = Tail(q)
    <2>1. FrontTaken(q, ordinary', work')
      BY <1>1, <1>6, HeadTailProperties DEF FrontTaken
    <2> QED
      BY <1>1, <1>6, <2>1, HeadTailProperties
  <1> QED
    BY <1>4, <1>5, <1>6 DEF TakeOrdinary

-----------------------------------------------------------------------------
(* release_held: what may be left of the ledgers and at the backend.       *)

LEMMA LedgersReleased ==
    ASSUME Types, NEW remoteToo \in BOOLEAN, NEW localToo \in BOOLEAN, NEW down \in SUBSET Controls,
           NEW mishap \in SUBSET {"Inject", "Ledger", "Gate"},
           ReleaseLedgers(remoteToo, localToo, down, mishap)
    PROVE  /\ remote' \in [Controls -> 0..EpochMax] /\ local' \subseteq Controls
           /\ backend' \subseteq Controls /\ mishaps' \subseteq {"Inject", "Ledger", "Gate"}
           /\ mishaps \cup mishap \subseteq mishaps'
           /\ \A c \in Controls : remote'[c] \in {0, remote[c]}
           /\ down \subseteq HeldRemote \cup local => backend' \subseteq HeldRemote' \cup local'
           /\ remoteToo /\ mishaps' = {} => \A c \in Controls : remote'[c] = 0
           /\ localToo /\ mishaps' = {} => local' = {}
  <1>1. PICK r \in SUBSET HeldRemote, l \in SUBSET local :
            /\ remoteToo \/ r = {}
            /\ localToo \/ l = {}
            /\ remote' = [c \in Controls |-> IF remoteToo /\ c \notin StillHeld(HeldRemote, r)
                                             THEN 0 ELSE remote[c]]
            /\ local' = IF localToo THEN StillHeld(local, l) ELSE local
            /\ backend' = down \ (r \cup l)
            /\ mishaps' = mishaps \cup mishap
                          \cup (IF \/ remoteToo /\ r # HeldRemote
                                   \/ localToo /\ l # local THEN {"Inject"} ELSE {})
    BY DEF ReleaseLedgers
  <1>2. /\ remote \in [Controls -> 0..EpochMax] /\ local \subseteq Controls
        /\ mishaps \subseteq {"Inject", "Ledger", "Gate"} /\ 0 \in 0..EpochMax
    BY Bounds DEF Types, WorkerTypes
  <1>3. StillHeld(local, l) \subseteq local
    BY DEF StillHeld
  <1>4. mishaps' \subseteq {"Inject", "Ledger", "Gate"} /\ mishaps \cup mishap \subseteq mishaps'
    BY <1>1, <1>2
  <1>5. remote' \in [Controls -> 0..EpochMax] /\ local' \subseteq Controls /\ backend' \subseteq Controls
    BY <1>1, <1>2, <1>3
  <1>6. \A c \in Controls : remote'[c] = IF remoteToo /\ c \notin StillHeld(HeldRemote, r) THEN 0 ELSE remote[c]
    BY <1>1
  <1>7. ASSUME down \subseteq HeldRemote \cup local PROVE backend' \subseteq HeldRemote' \cup local'
    <2> SUFFICES ASSUME NEW c \in backend' PROVE c \in HeldRemote' \cup local'
      OBVIOUS
    <2>1. c \in Controls /\ c \notin r /\ c \notin l /\ c \in HeldRemote \cup local
      BY <1>1, <1>7
    <2>2. CASE c \in HeldRemote
      <3>1. c \in StillHeld(HeldRemote, r)
        BY <2>1, <2>2 DEF StillHeld
      <3>2. remote'[c] = remote[c] /\ remote[c] # 0
        BY <1>6, <2>1, <2>2, <3>1 DEF HeldRemote
      <3> QED
        BY <2>1, <3>2 DEF HeldRemote
    <2>3. CASE c \in local
      <3>1. c \in StillHeld(local, l)
        BY <2>1, <2>3 DEF StillHeld
      <3> QED
        BY <1>1, <2>3, <3>1
    <2> QED
      BY <2>1, <2>2, <2>3
  <1>8. ASSUME remoteToo, mishaps' = {}, NEW c \in Controls PROVE remote'[c] = 0
    <2>1. r = HeldRemote
      BY <1>1, <1>8
    <2>2. StillHeld(HeldRemote, r) = {}
      BY <2>1 DEF StillHeld
    <2> QED
      BY <1>6, <1>8, <2>2
  <1>9. ASSUME localToo, mishaps' = {} PROVE local' = {}
    <2>1. l = local
      BY <1>1, <1>9
    <2> QED
      BY <1>1, <1>9, <2>1 DEF StillHeld
  <1> QED
    BY <1>4, <1>5, <1>6, <1>7, <1>8, <1>9

(* fail_worker_session.                                                    *)
LEMMA SessionFailed ==
    ASSUME Types, NEW f \in [down : SUBSET Controls, mishap : SUBSET {"Inject", "Ledger", "Gate"}],
           FailSession(f), UNCHANGED <<controls, releaseAll, trusted, shutdown>>
    PROVE  SessionTypes' /\ QueueTypes' /\ WorkerTypes'
  <1>1. /\ remote' \in [Controls -> 0..EpochMax] /\ local' \subseteq Controls
        /\ backend' \subseteq Controls /\ mishaps' \subseteq {"Inject", "Ledger", "Gate"}
    BY LedgersReleased DEF FailSession
  <1>2. gate' \in [epoch : 0..EpochMax, rt : 0..(SeqMax + 1), rel : 0..(SeqMax + 1)]
    BY Bounds DEF FailSession, NoGate
  <1>3. CASE admission' = [admission EXCEPT !.open = FALSE] /\ ordinary' = <<>>
    <2>1. SessionTypes'
      BY <1>3 DEF Types, SessionTypes
    <2>2. ordinary' \in Seq(Items) /\ \A i \in DOMAIN ordinary' : FALSE
      BY <1>3
    <2> QED
      BY <1>1, <1>2, <2>1, <2>2 DEF Types, QueueTypes, WorkerTypes
  <1>4. CASE UNCHANGED <<admission, ordinary>>
    BY <1>1, <1>2, <1>4 DEF Types, SessionTypes, QueueTypes, WorkerTypes
  <1> QED
    BY <1>3, <1>4 DEF FailSession

LEMMA AttemptsFail ==
    ASSUME Types, NEW kind, NEW c \in Controls \cup {None}, kind \in {"Press", "Release"} => c # None,
           NEW ledger, NEW f \in FailedAttempts(kind, c, ledger)
    PROVE  /\ f \in [down : SUBSET Controls, mishap : SUBSET {"Inject", "Ledger", "Gate"}]
           /\ f.down \in SUBSET Controls /\ f.mishap \in SUBSET {"Inject", "Ledger", "Gate"}
           /\ f.mishap # {} /\ ("Ledger" \notin f.mishap => f.down = backend)
  BY DEF FailedAttempts, Types, WorkerTypes

-----------------------------------------------------------------------------
(* Types are kept: the worker's steps.                                     *)

LEMMA IdleItems == Idle \in Items /\ Exited \in Items
  BY SimpleItems, Bounds DEF Idle, Exited, WorkTypes

LEMMA TakeTypes ==
    ASSUME Types, Take
    PROVE  Types'
  <1>1. UNCHANGED workerVars => WorkerTypes'
    BY DEF Types, WorkerTypes, workerVars
  <1>2. UNCHANGED workerVars
    BY DEF Take, TakeShutdown, TakeReleaseAllSources, TakeControl, TakeLeaseExpired, TakeTrusted, TakeOrdinary
  <1>3. CASE TakeShutdown
    <2>1. work' \in Items
      BY <1>3, SimpleItems, Bounds DEF TakeShutdown, WorkTypes
    <2> QED
      BY <1>1, <1>2, <1>3, <2>1 DEF TakeShutdown, queueVars, Types, SessionTypes, QueueTypes
  <1>4. CASE TakeReleaseAllSources
    <2>1. work' \in Items
      BY <1>4, SimpleItems, Bounds DEF TakeReleaseAllSources, WorkTypes
    <2> QED
      BY <1>1, <1>2, <1>4, <2>1 DEF TakeReleaseAllSources, Types, SessionTypes, QueueTypes
  <1>5. CASE TakeControl
    <2>1. /\ work' \in Items /\ controls' \in Seq(Items)
          /\ \A i \in DOMAIN controls' : controls'[i].type \in {"Begin", "Close"}
      BY <1>5, QueuesTaken DEF TakeControl, Types, QueueTypes
    <2> QED
      BY <1>1, <1>2, <1>5, <2>1 DEF TakeControl, Types, SessionTypes, QueueTypes
  <1>6. CASE TakeLeaseExpired
    <2>1. work' \in Items
      BY <1>6, SimpleItems DEF TakeLeaseExpired, Types, WorkerTypes, WorkTypes
    <2>2. admission' = [admission EXCEPT !.open = FALSE] /\ ordinary' = <<>>
          /\ UNCHANGED <<controls, releaseAll, trusted, shutdown>>
      BY <1>6 DEF TakeLeaseExpired
    <2>3. SessionTypes'
      BY <2>2 DEF Types, SessionTypes
    <2>4. ordinary' \in Seq(Items) /\ \A i \in DOMAIN ordinary' : FALSE
      BY <2>2
    <2> QED
      BY <1>1, <1>2, <2>1, <2>2, <2>3, <2>4 DEF Types, QueueTypes
  <1>7. CASE TakeTrusted
    <2>1. /\ work' \in Items /\ trusted' \in Seq(Items)
          /\ \A i \in DOMAIN trusted' : trusted'[i].type = "TrustedLocal"
      BY <1>7, HeadTailProperties DEF TakeTrusted, Types, QueueTypes
    <2> QED
      BY <1>1, <1>2, <1>7, <2>1 DEF TakeTrusted, Types, SessionTypes, QueueTypes
  <1>8. CASE TakeOrdinary
    <2>1. work' \in Items /\ ordinary' \in Seq(Items)
      BY <1>8, OrdinaryTaken
    <2>2. ordinary \in Seq(Items) /\ \A i \in DOMAIN ordinary : ordinary[i].type \in {"Realtime", "Reliable"}
      BY DEF Types, QueueTypes
    <2>3. ASSUME NEW i \in DOMAIN ordinary' PROVE ordinary'[i].type \in {"Realtime", "Reliable"}
      <3>1. i \in 1..Len(ordinary') /\ Len(ordinary') \in Nat /\ Len(ordinary) \in Nat
        BY <2>1, <2>2, <2>3
      <3>2. CASE FrontTaken(ordinary, ordinary', work')
        BY <2>2, <3>1, <3>2, SMTT(60), ZenonT(60) DEF FrontTaken
      <3>3. CASE ButtonTaken(ordinary, ordinary', work')
        <4>1. i = 1 \/ i \in 2..(Len(ordinary) - 1)
          BY <3>1, <3>3 DEF ButtonTaken
        <4>2. ordinary'[i] = ordinary[1] \/ (i + 1 \in 1..Len(ordinary) /\ ordinary'[i] = ordinary[i + 1])
          BY <3>1, <3>3, <4>1 DEF ButtonTaken
        <4>3. 1 \in 1..Len(ordinary)
          BY <3>1, <3>3 DEF ButtonTaken
        <4> QED
          BY <2>2, <4>2, <4>3
      <3>4. ASSUME NEW k \in 2..Len(ordinary[1].seqs), SplitTaken(ordinary, ordinary', work', k)
            PROVE  ordinary'[i].type \in {"Realtime", "Reliable"}
        <4>1. i = 1 \/ i = 2 \/ i \in 3..Len(ordinary)
          BY <3>1, <3>4 DEF SplitTaken
        <4>2. CASE i = 1
          BY <3>4, <4>2 DEF SplitTaken, Rel
        <4>3. CASE i = 2
          <5>1. ordinary[1] \in Items
            BY <2>2, <3>1, <3>4 DEF SplitTaken
          <5> QED
            BY <3>4, <4>3, <5>1 DEF SplitTaken, IsRealtime, Items, Works
        <4>4. CASE i \in 3..Len(ordinary)
          BY <2>2, <3>1, <3>4, <4>4 DEF SplitTaken
        <4> QED
          BY <4>1, <4>2, <4>3, <4>4
      <3> QED
        BY <1>8, <3>2, <3>3, <3>4, OrdinaryTaken
    <2> QED
      BY <1>1, <1>2, <1>8, <2>1, <2>3 DEF TakeOrdinary, Types, SessionTypes, QueueTypes
  <1> QED
    BY <1>3, <1>4, <1>5, <1>6, <1>7, <1>8 DEF Take

LEMMA ExecuteTypes ==
    ASSUME Types, Execute
    PROVE  Types'
  <1>1. Idle \in Items /\ Exited \in Items /\ NoGate \in [epoch : 0..EpochMax, rt : 0..(SeqMax + 1), rel : 0..(SeqMax + 1)]
    BY IdleItems, Bounds DEF NoGate
  <1>2. work' \in Items
    BY <1>1 DEF Execute, ExecuteShutdown, ExecuteReleaseAllSources, ExecuteBegin, ExecuteClose,
                ExecuteTrusted, ExecuteRealtime, ExecuteReliable, Done
  <1>3. UNCHANGED queueVars => SessionTypes' /\ QueueTypes'
    BY DEF Types, SessionTypes, QueueTypes, queueVars
  <1>4. work \in Items /\ work.epoch \in 0..EpochMax /\ work.control \in Controls \cup {None}
        /\ work.seqs \in Seq(Seqs)
    BY DEF Types, Items, Works
  <1>5. /\ gate \in [epoch : 0..EpochMax, rt : 0..(SeqMax + 1), rel : 0..(SeqMax + 1)]
        /\ remote \in [Controls -> 0..EpochMax] /\ local \subseteq Controls
        /\ backend \subseteq Controls /\ mishaps \subseteq {"Inject", "Ledger", "Gate"}
    BY DEF Types, WorkerTypes
  <1>6. ASSUME NEW down \in SUBSET Controls, NEW mishap \in SUBSET {"Inject", "Ledger", "Gate"},
               NEW remoteToo \in BOOLEAN, NEW localToo \in BOOLEAN,
               ReleaseLedgers(remoteToo, localToo, down, mishap)
        PROVE  /\ remote' \in [Controls -> 0..EpochMax] /\ local' \subseteq Controls
               /\ backend' \subseteq Controls /\ mishaps' \subseteq {"Inject", "Ledger", "Gate"}
    BY <1>6, LedgersReleased
  <1> DEFINE Released == /\ remote' \in [Controls -> 0..EpochMax] /\ local' \subseteq Controls
                         /\ backend' \subseteq Controls /\ mishaps' \subseteq {"Inject", "Ledger", "Gate"}
  <1>61. ASSUME NEW remoteToo \in BOOLEAN, NEW localToo \in BOOLEAN, ReleaseLedgers(remoteToo, localToo, backend, {})
         PROVE  Released
    <2>1. backend \in SUBSET Controls /\ {} \in SUBSET {"Inject", "Ledger", "Gate"}
      BY <1>5
    <2> QED
      BY <1>6, <1>61, <2>1
  <1>7. CASE ExecuteShutdown \/ ExecuteReleaseAllSources
    <2>1. Released
      BY <1>61, <1>7 DEF ExecuteShutdown, ExecuteReleaseAllSources
    <2> QED
      BY <1>1, <1>2, <1>3, <1>7, <2>1 DEF ExecuteShutdown, ExecuteReleaseAllSources, QueuesUnchanged, Types, WorkerTypes
  <1>8. CASE ExecuteBegin
    <2>1. gate' \in [epoch : 0..EpochMax, rt : 0..(SeqMax + 1), rel : 0..(SeqMax + 1)]
      BY <1>4, <1>8, Bounds DEF ExecuteBegin, NoGate
    <2>2. PICK t \in BOOLEAN : ReleaseLedgers(t, FALSE, backend, {})
      BY <1>8 DEF ExecuteBegin
    <2>3. Released
      BY <1>61, <2>2
    <2> QED
      BY <1>2, <1>3, <1>8, <2>1, <2>3 DEF ExecuteBegin, QueuesUnchanged, Types, WorkerTypes
  <1>9. CASE ExecuteClose
    <2>1. PICK t \in BOOLEAN : ReleaseLedgers(t, FALSE, backend, {})
      BY <1>9 DEF ExecuteClose
    <2>2. Released
      BY <1>61, <2>1
    <2>3. gate' \in [epoch : 0..EpochMax, rt : 0..(SeqMax + 1), rel : 0..(SeqMax + 1)]
      BY <1>1, <1>5, <1>9 DEF ExecuteClose
    <2> QED
      BY <1>2, <1>3, <1>9, <2>2, <2>3 DEF ExecuteClose, QueuesUnchanged, Types, WorkerTypes
  <1>10. CASE ExecuteTrusted
    <2>1. CASE /\ backend' = After(work.kind, work.control, backend)
               /\ local' = After(work.kind, work.control, local)
               /\ UNCHANGED <<remote, mishaps>>
      <3>1. work.kind \in {"Press", "Release"} => work.control \in Controls
        BY <1>4, <1>10 DEF ExecuteTrusted, Items, Fitting
      <3>2. backend' \subseteq Controls /\ local' \subseteq Controls
        BY <1>5, <2>1, <3>1 DEF After
      <3> QED
        BY <1>2, <1>3, <1>5, <1>10, <2>1, <3>2 DEF ExecuteTrusted, Types, WorkerTypes
    <2>2. ASSUME NEW f \in FailedAttempts(work.kind, work.control, local),
                 ReleaseLedgers(TRUE, TRUE, f.down, f.mishap)
          PROVE  Types'
      <3>1. work.kind \in {"Press", "Release"} => work.control # None
        BY <1>4, <1>10 DEF ExecuteTrusted, Items, Fitting
      <3>2. f.down \in SUBSET Controls /\ f.mishap \in SUBSET {"Inject", "Ledger", "Gate"}
        BY <1>4, <3>1, AttemptsFail
      <3> QED
        BY <1>2, <1>3, <1>5, <1>6, <1>10, <2>2, <3>2 DEF ExecuteTrusted, Types, WorkerTypes
    <2> QED
      BY <1>10, <2>1, <2>2 DEF ExecuteTrusted
  <1>11. ASSUME NEW f \in [down : SUBSET Controls, mishap : SUBSET {"Inject", "Ledger", "Gate"}],
                FailSession(f), UNCHANGED <<controls, releaseAll, trusted, shutdown>>
         PROVE  Types'
    BY <1>2, <1>11, SessionFailed DEF Types
  <1>12. CASE ExecuteRealtime
    <2>1. CASE UNCHANGED <<admission, ordinary, workerVars>>
      BY <1>2, <1>12, <2>1 DEF ExecuteRealtime, Types, SessionTypes, QueueTypes, WorkerTypes, workerVars
    <2>2. CASE /\ gate' = [gate EXCEPT !.rt = Last(work.seqs) + 1]
               /\ UNCHANGED <<admission, ordinary, remote, local, backend, mishaps>>
      <3>1. Last(work.seqs) \in Seqs
        <4>1. work.seqs # <<>>
          BY <1>4, <1>12 DEF ExecuteRealtime, Items, Fitting
        <4> QED
          BY <1>4, <4>1, Ends DEF Last
      <3>2. Last(work.seqs) + 1 \in 0..(SeqMax + 1)
        BY <3>1, Bounds
      <3> QED
        BY <1>2, <1>5, <1>12, <2>2, <3>2 DEF ExecuteRealtime, Types, SessionTypes, QueueTypes, WorkerTypes
    <2>3. CASE FailSession([down |-> backend, mishap |-> {"Inject"}])
      BY <1>5, <1>11, <1>12, <2>3 DEF ExecuteRealtime
    <2> QED
      BY <1>12, <2>1, <2>2, <2>3 DEF ExecuteRealtime
  <1>13. CASE ExecuteReliable
    <2>1. CASE UNCHANGED <<admission, ordinary, workerVars>>
      BY <1>2, <1>13, <2>1 DEF ExecuteReliable, Types, SessionTypes, QueueTypes, WorkerTypes, workerVars
    <2>2. CASE FailSession([down |-> backend, mishap |-> {"Gate"}])
      BY <1>5, <1>11, <1>13, <2>2 DEF ExecuteReliable
    <2>3. work.seqs[1] + 1 \in 0..(SeqMax + 1) /\ (work.kind \in {"Press", "Release"} => work.control # None)
      <3>1. work.seqs # <<>> /\ (work.kind \in {"Press", "Release"} => work.control # None)
        BY <1>4, <1>13 DEF ExecuteReliable, Items, Fitting
      <3>2. work.seqs[1] \in Seqs
        BY <1>4, <3>1, Ends
      <3> QED
        BY <3>1, <3>2, Bounds
    <2>4. CASE /\ gate' = [gate EXCEPT !.rel = work.seqs[1] + 1]
               /\ backend' = After(work.kind, work.control, backend)
               /\ remote' = IF work.control = None THEN remote
                            ELSE [remote EXCEPT ![work.control] =
                                    IF work.kind = "Release" THEN 0 ELSE IF @ = 0 THEN gate.epoch ELSE @]
               /\ UNCHANGED <<admission, ordinary, local, mishaps>>
      <3>1. backend' \subseteq Controls
        BY <1>4, <1>5, <2>3, <2>4 DEF After
      <3>2. remote' \in [Controls -> 0..EpochMax]
        BY <1>4, <1>5, <2>4, Bounds
      <3>3. gate' \in [epoch : 0..EpochMax, rt : 0..(SeqMax + 1), rel : 0..(SeqMax + 1)]
        BY <1>5, <2>3, <2>4
      <3> QED
        BY <1>2, <1>5, <1>13, <2>4, <3>1, <3>2, <3>3
           DEF ExecuteReliable, Types, SessionTypes, QueueTypes, WorkerTypes
    <2>5. ASSUME NEW f \in FailedAttempts(work.kind, work.control, HeldRemote), FailSession(f) PROVE Types'
      <3>1. f \in [down : SUBSET Controls, mishap : SUBSET {"Inject", "Ledger", "Gate"}]
        BY <1>4, <2>3, AttemptsFail
      <3> QED
        BY <1>11, <1>13, <2>5, <3>1 DEF ExecuteReliable
    <2> QED
      BY <1>13, <2>1, <2>2, <2>4, <2>5 DEF ExecuteReliable
  <1> QED
    BY <1>7, <1>8, <1>9, <1>10, <1>12, <1>13 DEF Execute

-----------------------------------------------------------------------------
(* Types are kept by every step.                                           *)

LEMMA ProducersKeepWorker ==
    ASSUME Producers
    PROVE  UNCHANGED <<work, workerVars>>
  BY ZenonT(60), SMTT(60) DEF Producers, BeginSession, SubmitRealtime, SubmitReliable, SubmitTerminal,
     RequestReleaseThrough,
         RequestReleaseAll, RequestReleaseAllSources, InjectTrustedLocal, Shutdown, LeaseElapses

(* What ends the session of admission, and what else producers do.         *)
Closes == CloseAdmission /\ UNCHANGED <<releaseAll, trusted, shutdown, work, workerVars>>
Submits ==
    \E o \in Owners, e \in 1..EpochMax :
        \/ BeginSession(o, e)
        \/ \E class \in Classes, s \in Seqs : SubmitRealtime(o, e, class, s)
        \/ \E kind \in {"Press", "Release", "Other"}, s \in Seqs, c \in Controls \cup {None}, a \in Seqs :
              (kind # "Other" => c # None) /\ SubmitReliable(o, e, kind, s, c, a)

LEMMA ProducersDo ==
    ASSUME Producers
    PROVE  \/ Closes \/ Submits \/ RequestReleaseAllSources \/ Shutdown \/ LeaseElapses
           \/ \E c \in Controls \cup {None}, kind \in {"Press", "Release", "Other"} :
                (kind # "Other" => c # None) /\ InjectTrustedLocal(kind, c)
  <1>1. ASSUME NEW o \in Owners, NEW e \in Epochs, NEW s \in Seqs,
               \/ SubmitReliable(o, e, "Other", s, None, 0)
               \/ \E kind \in {"Press", "Release"} :
                    \/ \E c \in Keys : SubmitReliable(o, e, kind, s, c, 0)
                    \/ \E c \in Buttons, a \in Seqs : SubmitReliable(o, e, kind, s, c, a)
        PROVE  \E kind \in {"Press", "Release", "Other"}, c \in Controls \cup {None}, a \in Seqs :
                 (kind # "Other" => c # None) /\ SubmitReliable(o, e, kind, s, c, a)
    <2>1. 0 \in Seqs /\ None \notin Keys \cup Buttons
      BY Bounds
    <2> QED
      BY <1>1, <2>1
  <1>2. ASSUME NEW o \in Owners, NEW e \in Epochs, NEW s \in Seqs,
               \/ SubmitReliable(o, e, "Other", s, None, 0)
               \/ \E kind \in {"Press", "Release"} :
                    \/ \E c \in Keys : SubmitReliable(o, e, kind, s, c, 0)
                    \/ \E c \in Buttons, a \in Seqs : SubmitReliable(o, e, kind, s, c, a)
        PROVE  Submits
    BY <1>1, <1>2 DEF Submits
  <1>3. ASSUME NEW o \in Owners, NEW e \in Epochs,
               \/ BeginSession(o, e)
               \/ \E class \in Classes, s \in Seqs : SubmitRealtime(o, e, class, s)
        PROVE  Submits
    BY <1>3 DEF Submits
  <1>4. ASSUME NEW o \in Owners, NEW e \in Epochs, SubmitTerminal(o, e) \/ RequestReleaseThrough(o, e)
        PROVE  Closes
    BY <1>4 DEF Closes, SubmitTerminal, RequestReleaseThrough
  <1>5. RequestReleaseAll => Closes
    BY DEF Closes, RequestReleaseAll
  <1>6. ASSUME \/ \E c \in Controls, kind \in {"Press", "Release"} : InjectTrustedLocal(kind, c)
               \/ InjectTrustedLocal("Other", None)
        PROVE  \E c \in Controls \cup {None}, kind \in {"Press", "Release", "Other"} :
                 (kind # "Other" => c # None) /\ InjectTrustedLocal(kind, c)
    BY <1>6, Bounds
  <1> QED
    BY <1>2, <1>3, <1>4, <1>5, <1>6 DEF Producers

LEMMA ProducersTypes ==
    ASSUME Types, Producers
    PROVE  Types'
  <1>1. work' \in Items /\ WorkerTypes'
    BY ProducersKeepWorker DEF Types, WorkerTypes, workerVars
  <1>2. ASSUME Closes PROVE SessionTypes' /\ QueueTypes'
    BY <1>2, CloseTypes DEF Closes
  <1>3. ASSUME Submits PROVE SessionTypes' /\ QueueTypes'
    BY <1>3, BeginTypes, RealtimeTypes, ReliableTypes DEF Submits
  <1>4. ASSUME RequestReleaseAllSources PROVE SessionTypes' /\ QueueTypes'
    <2>1. /\ admission' = [admission EXCEPT !.open = FALSE] /\ releaseAll' = TRUE
          /\ ordinary' = <<>> /\ controls' = <<>> /\ trusted' = <<>> /\ shutdown' = shutdown
      BY <1>4 DEF RequestReleaseAllSources
    <2>2. <<>> \in Seq(Items) /\ DOMAIN <<>> = {}
      OBVIOUS
    <2>3. SessionTypes'
      BY <2>1 DEF Types, SessionTypes
    <2> QED
      BY <2>1, <2>2, <2>3 DEF QueueTypes
  <1>5. ASSUME Shutdown PROVE SessionTypes' /\ QueueTypes'
    <2>1. <<>> \in Seq(Items) /\ DOMAIN <<>> = {}
      OBVIOUS
    <2> QED
      BY <1>5, <2>1 DEF Shutdown, Types, SessionTypes, QueueTypes
  <1>6. ASSUME LeaseElapses PROVE SessionTypes' /\ QueueTypes'
    BY <1>6 DEF LeaseElapses, Types, SessionTypes, QueueTypes
  <1>7. ASSUME NEW c \in Controls \cup {None}, NEW kind \in {"Press", "Release", "Other"},
               kind # "Other" => c # None, InjectTrustedLocal(kind, c)
        PROVE  SessionTypes' /\ QueueTypes'
    <2> DEFINE x == TrustedEvent(kind, c)
    <2>1. x \in Items /\ x.type = "TrustedLocal"
      BY <1>7, LocalItems
    <2>2. trusted' = Append(trusted, x) /\ trusted \in Seq(Items)
          /\ (\A i \in DOMAIN trusted : trusted[i].type = "TrustedLocal")
      BY <1>7 DEF InjectTrustedLocal, Types, QueueTypes
    <2> HIDE DEF x
    <2>3. trusted' \in Seq(Items) /\ \A i \in DOMAIN trusted' : trusted'[i].type = "TrustedLocal"
      BY <2>1, <2>2, AppendProperties
    <2> QED
      BY <1>7, <2>3 DEF InjectTrustedLocal, Types, SessionTypes, QueueTypes
  <1> QED
    BY <1>1, <1>2, <1>3, <1>4, <1>5, <1>6, <1>7, ProducersDo DEF Types

LEMMA TypesStep ==
    ASSUME Types, [ActorNext]_actorVars
    PROVE  Types'
  <1>1. CASE UNCHANGED actorVars
    BY <1>1 DEF actorVars, queueVars, workerVars, Types, SessionTypes, QueueTypes, WorkerTypes
  <1> QED
    BY <1>1, ProducersTypes, TakeTypes, ExecuteTypes DEF ActorNext, Worker

LEMMA TypesInit == ActorInit => Types
  <1> SUFFICES ASSUME ActorInit PROVE Types
    OBVIOUS
  <1>1. work \in Items
    BY IdleItems DEF ActorInit
  <1>2. SessionTypes
    <2>1. admission = [owner |-> None, epoch |-> 0, open |-> FALSE, rt |-> 0, rel |-> 0, due |-> FALSE]
      BY DEF ActorInit, NoSession
    <2>2. 0 \in 0..(SeqMax + 1) /\ 0 \in 0..EpochMax
      BY Bounds
    <2>3. ~admission.open /\ releaseAll = FALSE /\ shutdown = FALSE
      BY <2>1 DEF ActorInit
    <2>4. admission \in [owner : Owners \cup {None}, epoch : 0..EpochMax, open : BOOLEAN,
                         rt : 0..(SeqMax + 1), rel : 0..(SeqMax + 1), due : BOOLEAN]
      BY <2>1, <2>2
    <2> QED
      BY <2>3, <2>4 DEF SessionTypes
  <1>3. QueueTypes
    <2>1. <<>> \in Seq(Items) /\ DOMAIN <<>> = {}
      OBVIOUS
    <2> QED
      BY <2>1 DEF ActorInit, QueueTypes
  <1>4. WorkerTypes
    BY Bounds DEF ActorInit, WorkerTypes, NoGate
  <1> QED
    BY <1>1, <1>2, <1>3, <1>4 DEF Types

-----------------------------------------------------------------------------
(* Capacities are kept.                                                    *)

Reliables(q) == {i \in DOMAIN q : ~IsRealtime(q[i])}

LEMMA ReliablesCounted ==
    ASSUME NEW S, NEW q \in Seq(S)
    PROVE  IsFiniteSet(Reliables(q)) /\ Cardinality(Reliables(q)) \in Nat
  <1>1. Reliables(q) \subseteq 1..Len(q) /\ Len(q) \in Nat
    BY DEF Reliables
  <1>2. IsFiniteSet(1..Len(q))
    BY <1>1, FS_Interval
  <1>3. IsFiniteSet(Reliables(q))
    BY <1>1, <1>2, FS_Subset
  <1> QED
    BY <1>3, FS_CardinalityType

(* What is in r was in q, at places that differ.                           *)
LEMMA NoMoreReliables ==
    ASSUME NEW S, NEW q \in Seq(S), NEW r \in Seq(S), NEW m \in [1..Len(r) -> 1..Len(q)],
           \A i, j \in 1..Len(r) : m[i] = m[j] => i = j,
           \A i \in 1..Len(r) : IsRealtime(q[m[i]]) => IsRealtime(r[i])
    PROVE  Cardinality(Reliables(r)) <= Cardinality(Reliables(q))
  <1> DEFINE f == [i \in Reliables(r) |-> m[i]]
  <1>1. Reliables(r) \subseteq 1..Len(r)
    BY DEF Reliables
  <1>2. \A i \in Reliables(r) : m[i] \in Reliables(q)
    BY DEF Reliables
  <1>3. f \in [Reliables(r) -> Reliables(q)] /\ \A i \in Reliables(r) : f[i] = m[i]
    BY <1>2
  <1>4. \A i, j \in Reliables(r) : f[i] = f[j] => i = j
    BY <1>1, <1>3
  <1> HIDE DEF f
  <1>5. f \in Injection(Reliables(r), Reliables(q))
    BY <1>3, <1>4 DEF Injection, IsInjective
  <1> QED
    BY <1>5, ReliablesCounted, FS_Injection

LEMMA EmptyCount == Cardinality(Reliables(<<>>)) = 0
  <1>1. Reliables(<<>>) = {}
    BY DEF Reliables
  <1> QED
    BY <1>1, FS_EmptySet

LEMMA CountOfLen == ReliableLen = Cardinality(Reliables(ordinary))
  BY DEF ReliableLen, Reliables

LEMMA ReliableFits ==
    ASSUME Types, Types', ReliableLen <= ReliableCapacity, [ActorNext]_actorVars
    PROVE  (ReliableLen <= ReliableCapacity)'
  <1>1. /\ ordinary \in Seq(Items) /\ ordinary' \in Seq(Items)
        /\ Len(ordinary) \in Nat /\ Len(ordinary') \in Nat
    BY DEF Types, QueueTypes
  <1>2. /\ Cardinality(Reliables(ordinary)) \in Nat /\ Cardinality(Reliables(ordinary')) \in Nat
        /\ ReliableCapacity \in Nat
    BY <1>1, ReliablesCounted, ActorConstantsAssumption
  <1>3. Cardinality(Reliables(ordinary)) <= ReliableCapacity
    BY CountOfLen
  <1>4. SUFFICES Cardinality(Reliables(ordinary')) <= ReliableCapacity
    BY DEF ReliableLen, Reliables
  <1>5. CASE ordinary' = ordinary
    BY <1>3, <1>5
  <1>6. CASE ordinary' = <<>>
    BY <1>2, <1>6, EmptyCount
  <1>7. ASSUME NEW m \in [1..Len(ordinary') -> 1..Len(ordinary)],
               \A i, j \in 1..Len(ordinary') : m[i] = m[j] => i = j,
               \A i \in 1..Len(ordinary') : IsRealtime(ordinary[m[i]]) => IsRealtime(ordinary'[i])
        PROVE  Cardinality(Reliables(ordinary')) <= ReliableCapacity
    <2>1. Cardinality(Reliables(ordinary')) <= Cardinality(Reliables(ordinary))
      BY <1>1, <1>7, NoMoreReliables
    <2> QED
      BY <1>2, <1>3, <2>1
  <1>8. ASSUME NEW x \in Items, ordinary' = Append(ordinary, x), IsRealtime(x)
        PROVE  Cardinality(Reliables(ordinary')) <= ReliableCapacity
    <2>1. Reliables(ordinary') = Reliables(ordinary)
      <3>1. /\ DOMAIN ordinary = 1..Len(ordinary) /\ DOMAIN ordinary' = 1..(Len(ordinary) + 1)
            /\ \A i \in 1..Len(ordinary) : ordinary'[i] = ordinary[i]
            /\ IsRealtime(ordinary'[Len(ordinary) + 1])
        BY <1>1, <1>8, AppendProperties
      <3> QED
        BY <1>1, <3>1 DEF Reliables
    <2> QED
      BY <1>3, <2>1
  <1>9. ASSUME NEW x \in Items, ordinary' = Append(ordinary, x), HasRoom
        PROVE  Cardinality(Reliables(ordinary')) <= ReliableCapacity
    <2>1. /\ DOMAIN ordinary = 1..Len(ordinary) /\ DOMAIN ordinary' = 1..(Len(ordinary) + 1)
          /\ \A i \in 1..Len(ordinary) : ordinary'[i] = ordinary[i]
      BY <1>1, <1>9, AppendProperties
    <2>2. Reliables(ordinary') \subseteq Reliables(ordinary) \cup {Len(ordinary) + 1}
      BY <1>1, <2>1 DEF Reliables
    <2>3. /\ IsFiniteSet(Reliables(ordinary) \cup {Len(ordinary) + 1})
          /\ Cardinality(Reliables(ordinary) \cup {Len(ordinary) + 1}) <= Cardinality(Reliables(ordinary)) + 1
          /\ Cardinality(Reliables(ordinary) \cup {Len(ordinary) + 1}) \in Nat
      <3>1. IsFiniteSet(Reliables(ordinary) \cup {Len(ordinary) + 1})
            /\ Cardinality(Reliables(ordinary) \cup {Len(ordinary) + 1})
                 \in {Cardinality(Reliables(ordinary)), Cardinality(Reliables(ordinary)) + 1}
        BY <1>1, ReliablesCounted, FS_AddElement
      <3> QED
        BY <1>2, <3>1
    <2>4. Cardinality(Reliables(ordinary')) <= Cardinality(Reliables(ordinary) \cup {Len(ordinary) + 1})
      BY <2>2, <2>3, FS_Subset
    <2>5. Cardinality(Reliables(ordinary)) < ReliableCapacity
      BY <1>9, CountOfLen DEF HasRoom
    <2> QED
      BY <1>2, <2>3, <2>4, <2>5
  <1>10. ASSUME NEW o \in Owners, NEW e \in 1..EpochMax, NEW class \in Classes, NEW s \in Seqs,
                SubmitRealtime(o, e, class, s)
         PROVE  Cardinality(Reliables(ordinary')) <= ReliableCapacity
    <2>1. CASE ordinary' = Append(ordinary, RealtimeBatch(class, <<s>>))
      <3>1. admission.epoch # 0 /\ <<s>> \in Seq(Seqs) \ {<<>>}
        BY <1>10 DEF SubmitRealtime, From, Types, SessionTypes
      <3>2. RealtimeBatch(class, <<s>>) \in Items /\ IsRealtime(RealtimeBatch(class, <<s>>))
        BY <3>1, FrameItems DEF RealtimeBatch, Work, IsRealtime
      <3> QED
        BY <1>8, <2>1, <3>2
    <2>2. ASSUME ordinary # <<>>, IsRealtime(Last(ordinary)), NEW seqs,
                 ordinary' = [ordinary EXCEPT ![Len(ordinary)].seqs = seqs]
          PROVE  Cardinality(Reliables(ordinary')) <= ReliableCapacity
      <3> DEFINE m == [i \in 1..Len(ordinary') |-> i]
      <3>1. Len(ordinary') = Len(ordinary) /\ Len(ordinary) \in 1..Len(ordinary)
            /\ ordinary[Len(ordinary)] \in Items
        BY <1>1, <2>2, Ends
      <3>2. \A i \in 1..Len(ordinary) : IsRealtime(ordinary[i]) => IsRealtime(ordinary'[i])
        <4>1. ordinary'[Len(ordinary)] = [ordinary[Len(ordinary)] EXCEPT !.seqs = seqs]
          BY <1>1, <2>2, <3>1
        <4>2. \A i \in 1..Len(ordinary) : i # Len(ordinary) => ordinary'[i] = ordinary[i]
          BY <1>1, <2>2, <3>1
        <4> QED
          BY <3>1, <4>1, <4>2 DEF IsRealtime, Items, Works
      <3>3. m \in [1..Len(ordinary') -> 1..Len(ordinary)] /\ \A i \in 1..Len(ordinary') : m[i] = i
        BY <3>1
      <3> HIDE DEF m
      <3>4. \A i \in 1..Len(ordinary') : IsRealtime(ordinary[m[i]]) => IsRealtime(ordinary'[i])
        BY <3>1, <3>2, <3>3
      <3>5. \A i, j \in 1..Len(ordinary') : m[i] = m[j] => i = j
        BY <3>3
      <3> QED
        BY <1>7, <3>3, <3>4, <3>5
    <2> QED
      BY <1>5, <1>10, <2>1, <2>2 DEF SubmitRealtime, RealtimeQueues
  <1>11. ASSUME NEW o \in Owners, NEW e \in 1..EpochMax, NEW kind \in {"Press", "Release", "Other"},
                NEW s \in Seqs, NEW c \in Controls \cup {None}, kind # "Other" => c # None, NEW a \in Seqs,
                SubmitReliable(o, e, kind, s, c, a)
         PROVE  Cardinality(Reliables(ordinary')) <= ReliableCapacity
    <2>1. admission.epoch # 0
      BY <1>11 DEF SubmitReliable, From, Types, SessionTypes
    <2>2. ReliableFrame(kind, s, c, a) \in Items
      BY <1>11, <2>1, FrameItems
    <2> QED
      BY <1>9, <1>11, <2>2 DEF SubmitReliable
  <1>12. CASE TakeOrdinary
    <2> DEFINE n == Len(ordinary')
    <2>1. CASE FrontTaken(ordinary, ordinary', work')
      <3> DEFINE m == [i \in 1..n |-> i + 1]
      <3>1. m \in [1..n -> 1..Len(ordinary)] /\ \A i \in 1..n : m[i] = i + 1 /\ ordinary'[i] = ordinary[i + 1]
        BY <1>1, <2>1 DEF FrontTaken
      <3> HIDE DEF m
      <3>2. \A i \in 1..n : IsRealtime(ordinary[m[i]]) => IsRealtime(ordinary'[i])
        BY <3>1
      <3>3. \A i, j \in 1..n : m[i] = m[j] => i = j
        BY <1>1, <3>1
      <3> QED
        BY <1>7, <3>1, <3>2, <3>3
    <2>2. CASE ButtonTaken(ordinary, ordinary', work')
      <3> DEFINE m == [i \in 1..n |-> IF i = 1 THEN 1 ELSE i + 1]
      <3>1. Len(ordinary) > 1 /\ n = Len(ordinary) - 1 /\ ordinary'[1] = ordinary[1]
            /\ \A i \in 2..n : ordinary'[i] = ordinary[i + 1]
        BY <2>2 DEF ButtonTaken
      <3>2. m \in [1..n -> 1..Len(ordinary)] /\ \A i \in 1..n : m[i] = IF i = 1 THEN 1 ELSE i + 1
        BY <1>1, <3>1
      <3> HIDE DEF m
      <3>3. \A i \in 1..n : ordinary'[i] = ordinary[m[i]]
        BY <1>1, <3>1, <3>2, SMTT(60), ZenonT(60)
      <3>4. \A i, j \in 1..n : m[i] = m[j] => i = j
        BY <1>1, <3>2
      <3> QED
        BY <1>7, <3>2, <3>3, <3>4
    <2>3. ASSUME NEW k \in 2..Len(ordinary[1].seqs), SplitTaken(ordinary, ordinary', work', k)
          PROVE  Cardinality(Reliables(ordinary')) <= ReliableCapacity
      <3> DEFINE m == [i \in 1..n |-> IF i = 1 THEN 2 ELSE IF i = 2 THEN 1 ELSE i]
      <3>1. Len(ordinary) > 1 /\ n = Len(ordinary) /\ ordinary'[1] = ordinary[2]
            /\ (\A i \in 3..n : ordinary'[i] = ordinary[i])
            /\ ordinary'[2] = [ordinary[1] EXCEPT !.seqs = SubSeq(ordinary[1].seqs, k, Len(ordinary[1].seqs))]
            /\ IsRealtime(ordinary[1])
        BY <2>3 DEF SplitTaken
      <3>2. m \in [1..n -> 1..Len(ordinary)]
            /\ \A i \in 1..n : m[i] = IF i = 1 THEN 2 ELSE IF i = 2 THEN 1 ELSE i
        BY <1>1, <3>1
      <3> HIDE DEF m
      <3>3. IsRealtime(ordinary'[2])
        <4>1. ordinary[1] \in Items
          BY <1>1, <3>1
        <4> QED
          BY <3>1, <4>1, CutItems DEF IsRealtime, Items, Works
      <3>4. \A i \in 1..n : IsRealtime(ordinary[m[i]]) => IsRealtime(ordinary'[i])
        <4> SUFFICES ASSUME NEW i \in 1..n, IsRealtime(ordinary[m[i]]) PROVE IsRealtime(ordinary'[i])
          OBVIOUS
        <4>1. i = 1 \/ i = 2 \/ i \in 3..n
          BY <1>1
        <4> QED
          BY <3>1, <3>2, <3>3, <4>1
      <3>5. \A i, j \in 1..n : m[i] = m[j] => i = j
        BY <1>1, <3>2
      <3> QED
        BY <1>7, <3>2, <3>4, <3>5
    <2> QED
      BY <1>12, <2>1, <2>2, <2>3, OrdinaryTaken
  <1>13. CASE Submits
    <2>1. ASSUME NEW o \in Owners, NEW e \in 1..EpochMax, BeginSession(o, e) PROVE ordinary' = <<>>
      BY <2>1 DEF BeginSession
    <2> QED
      BY <1>6, <1>10, <1>11, <1>13, <2>1 DEF Submits
  <1>14. CASE Producers /\ ~Submits
    <2>1. ordinary' = ordinary \/ ordinary' = <<>>
      BY <1>14, ProducersDo DEF Closes, CloseAdmission, RequestReleaseAllSources, Shutdown, LeaseElapses, InjectTrustedLocal
    <2> QED
      BY <1>5, <1>6, <2>1
  <1>15. CASE Take /\ ~TakeOrdinary
    <2>1. ordinary' = ordinary \/ ordinary' = <<>>
      BY <1>15 DEF Take, TakeShutdown, TakeReleaseAllSources, TakeControl, TakeLeaseExpired, TakeTrusted, queueVars
    <2> QED
      BY <1>5, <1>6, <2>1
  <1>16. CASE Execute \/ UNCHANGED actorVars
    <2>1. ordinary' = ordinary \/ ordinary' = <<>>
      BY <1>16 DEF Execute, ExecuteShutdown, ExecuteReleaseAllSources, ExecuteBegin, ExecuteClose, ExecuteTrusted,
                   ExecuteRealtime, ExecuteReliable, QueuesUnchanged, FailSession, queueVars, actorVars
    <2> QED
      BY <1>5, <1>6, <2>1
  <1> QED
    BY <1>12, <1>13, <1>14, <1>15, <1>16 DEF ActorNext, Worker

LEMMA ControlFits ==
    ASSUME Types, Types', Fits, [ActorNext]_actorVars
    PROVE  (Len(controls) + (IF admission.open THEN 1 ELSE 0) <= ControlCapacity + 1)'
  <1>1. /\ controls \in Seq(Items) /\ controls' \in Seq(Items)
        /\ Len(controls) \in Nat /\ Len(controls') \in Nat /\ ControlCapacity \in Nat \ {0}
    BY ActorConstantsAssumption DEF Types, QueueTypes
  <1>2. Len(controls) + (IF admission.open THEN 1 ELSE 0) <= ControlCapacity + 1
    BY DEF Fits
  <1>3. SUFFICES Len(controls') + (IF admission'.open THEN 1 ELSE 0) <= ControlCapacity + 1
    OBVIOUS
  <1>4. CASE UNCHANGED controls /\ (admission'.open => admission.open)
    BY <1>1, <1>2, <1>4
  <1>5. ASSUME admission.open, ~admission'.open, NEW x \in Items, controls' = Append(controls, x)
        PROVE  Len(controls') + (IF admission'.open THEN 1 ELSE 0) <= ControlCapacity + 1
    BY <1>1, <1>2, <1>5, AppendProperties
  <1>6. CASE CloseAdmission
    <2>1. CASE admission.open
      <3>1. /\ ~admission'.open /\ controls' = Append(controls, Simple("Close", admission.epoch))
            /\ Simple("Close", admission.epoch) \in Items
        BY <1>6, <2>1, SimpleItems DEF CloseAdmission, Types, SessionTypes, WorkTypes
      <3> QED
        BY <1>5, <2>1, <3>1
    <2>2. CASE ~admission.open
      BY <1>4, <1>6, <2>2 DEF CloseAdmission
    <2> QED
      BY <2>1, <2>2
  <1>7. ASSUME NEW o \in Owners, NEW e \in 1..EpochMax, BeginSession(o, e)
        PROVE  Len(controls') + (IF admission'.open THEN 1 ELSE 0) <= ControlCapacity + 1
    <2>1. Simple("Close", admission.epoch) \in Items /\ Simple("Begin", e) \in Items
      BY SimpleItems, Bounds DEF Types, SessionTypes, WorkTypes
    <2> DEFINE x == Simple("Close", admission.epoch)
               y == Simple("Begin", e)
               q == controls \o (IF admission.open THEN <<x>> ELSE <<>>)
    <2>2. controls' = q \o <<y>> /\ RoomToBegin
      BY <1>7 DEF BeginSession
    <2> HIDE DEF x, y
    <2>3. q \in Seq(Items) /\ Len(q) = Len(controls) + (IF admission.open THEN 1 ELSE 0)
      <3>1. CASE admission.open
        <4>1. <<x>> \in Seq(Items) /\ Len(<<x>>) = 1 /\ q = controls \o <<x>>
          BY <2>1, <3>1 DEF x
        <4> QED
          BY <1>1, <3>1, <4>1, ConcatProperties
      <3>2. CASE ~admission.open
        BY <1>1, <3>2, ConcatEmptySeq
      <3> QED
        BY <3>1, <3>2
    <2> HIDE DEF q
    <2>4. <<y>> \in Seq(Items) /\ Len(<<y>>) = 1
      BY <2>1 DEF y
    <2>5. Len(controls') = Len(q) + 1
      BY <2>2, <2>3, <2>4, ConcatProperties
    <2>6. Len(controls) + (IF admission.open THEN 2 ELSE 1) <= ControlCapacity
      BY <2>2 DEF RoomToBegin
    <2>8. CASE admission.open
      <3>1. Len(q) = Len(controls) + 1 /\ Len(controls) + 2 <= ControlCapacity
        BY <2>3, <2>6, <2>8
      <3>2. (IF admission'.open THEN 1 ELSE 0) \in {0, 1}
        OBVIOUS
      <3> QED
        BY <1>1, <2>5, <3>1, <3>2
    <2>9. CASE ~admission.open
      <3>1. Len(q) = Len(controls) /\ Len(controls) + 1 <= ControlCapacity
        BY <1>1, <2>3, <2>6, <2>9
      <3>2. (IF admission'.open THEN 1 ELSE 0) \in {0, 1}
        OBVIOUS
      <3> QED
        BY <1>1, <2>5, <3>1, <3>2
    <2> QED
      BY <2>8, <2>9
  <1>8. CASE TakeControl
    <2>1. Len(controls') = Len(controls) - 1 /\ admission' = admission
      BY <1>1, <1>8, HeadTailProperties DEF TakeControl
    <2> QED
      BY <1>1, <1>2, <2>1
  <1>9. CASE RequestReleaseAllSources
    <2>1. controls' = <<>>
      BY <1>9 DEF RequestReleaseAllSources
    <2>2. Len(controls') = 0
      BY <2>1
    <2> QED
      BY <1>1, <2>2
  <1>10. CASE Submits
    <2>1. ASSUME NEW o \in Owners, NEW e \in 1..EpochMax, NEW class, NEW s, SubmitRealtime(o, e, class, s)
          PROVE  UNCHANGED controls /\ admission.open
      BY <2>1 DEF SubmitRealtime, From
    <2>2. ASSUME NEW o \in Owners, NEW e \in 1..EpochMax, NEW kind, NEW s, NEW c, NEW a,
                 SubmitReliable(o, e, kind, s, c, a)
          PROVE  UNCHANGED controls /\ admission.open
      BY <2>2 DEF SubmitReliable, From
    <2> QED
      BY <1>4, <1>7, <1>10, <2>1, <2>2 DEF Submits
  <1>11. CASE Producers
    <2>1. Shutdown \/ LeaseElapses => UNCHANGED controls /\ (admission'.open => admission.open)
      BY DEF Shutdown, LeaseElapses
    <2>2. ASSUME NEW c, NEW kind, InjectTrustedLocal(kind, c) PROVE UNCHANGED controls /\ (admission'.open => admission.open)
      BY <2>2 DEF InjectTrustedLocal
    <2> QED
      BY <1>4, <1>6, <1>9, <1>10, <1>11, <2>1, <2>2, ProducersDo DEF Closes
  <1>12. CASE Take /\ ~TakeControl
    <2>1. CASE TakeLeaseExpired
      <3>1. admission' = [admission EXCEPT !.open = FALSE] /\ UNCHANGED controls
        BY <2>1 DEF TakeLeaseExpired
      <3>2. ~admission'.open
        BY <3>1 DEF Types, SessionTypes
      <3> QED
        BY <1>4, <3>1, <3>2
    <2>2. CASE ~TakeLeaseExpired
      <3>1. UNCHANGED <<controls, admission>>
        BY <1>12, <2>2 DEF Take, TakeShutdown, TakeReleaseAllSources, TakeTrusted, TakeOrdinary, queueVars
      <3> QED
        BY <1>4, <3>1
    <2> QED
      BY <2>1, <2>2
  <1>13. CASE Execute \/ UNCHANGED actorVars
    <2>1. UNCHANGED controls
          /\ (admission' = admission \/ admission' = [admission EXCEPT !.open = FALSE])
      BY <1>13 DEF Execute, ExecuteShutdown, ExecuteReleaseAllSources, ExecuteBegin, ExecuteClose, ExecuteTrusted,
                   ExecuteRealtime, ExecuteReliable, QueuesUnchanged, FailSession, queueVars, actorVars
    <2>2. admission'.open => admission.open
      BY <2>1 DEF Types, SessionTypes
    <2> QED
      BY <1>4, <2>1, <2>2
  <1> QED
    BY <1>8, <1>11, <1>12, <1>13 DEF ActorNext, Worker

LEMMA TrustedFits ==
    ASSUME Types, Types', Fits, [ActorNext]_actorVars
    PROVE  Len(trusted') <= ReliableCapacity
  <1>1. /\ trusted \in Seq(Items) /\ trusted' \in Seq(Items)
        /\ Len(trusted) \in Nat /\ Len(trusted') \in Nat /\ ReliableCapacity \in Nat \ {0}
        /\ Len(trusted) <= ReliableCapacity
    BY ActorConstantsAssumption DEF Types, QueueTypes, Fits
  <1>2. CASE trusted' = trusted
    BY <1>1, <1>2
  <1>3. CASE trusted' = <<>>
    <2>1. Len(trusted') = 0
      BY <1>3
    <2> QED
      BY <1>1, <2>1
  <1>4. ASSUME NEW c \in Controls \cup {None}, NEW kind \in {"Press", "Release", "Other"}, kind # "Other" => c # None,
               InjectTrustedLocal(kind, c)
        PROVE  Len(trusted') <= ReliableCapacity
    <2>1. TrustedEvent(kind, c) \in Items
      BY <1>4, LocalItems
    <2>2. trusted' = Append(trusted, TrustedEvent(kind, c)) /\ Len(trusted) < ReliableCapacity
      BY <1>4 DEF InjectTrustedLocal
    <2>3. Len(trusted') = Len(trusted) + 1
      BY <1>1, <2>1, <2>2, AppendProperties, SMTT(60), ZenonT(60)
    <2> QED
      BY <1>1, <2>2, <2>3
  <1>5. CASE Submits
    BY <1>2, <1>5, ZenonT(60), SMTT(60) DEF Submits, BeginSession, SubmitRealtime, SubmitReliable
  <1>6. CASE Producers
    <2>1. Closes \/ LeaseElapses => trusted' = trusted
      BY DEF Closes, LeaseElapses
    <2>2. RequestReleaseAllSources \/ Shutdown => trusted' = <<>>
      BY DEF RequestReleaseAllSources, Shutdown
    <2> QED
      BY <1>2, <1>3, <1>4, <1>5, <1>6, <2>1, <2>2, ProducersDo
  <1>7. CASE TakeTrusted
    <2>1. Len(trusted') = Len(trusted) - 1
      BY <1>1, <1>7, HeadTailProperties DEF TakeTrusted
    <2> QED
      BY <1>1, <2>1
  <1>8. CASE Take /\ ~TakeTrusted
    <2>1. trusted' = trusted
      BY <1>8 DEF Take, TakeShutdown, TakeReleaseAllSources, TakeControl, TakeLeaseExpired, TakeOrdinary, queueVars
    <2> QED
      BY <1>2, <2>1
  <1>9. CASE Execute \/ UNCHANGED actorVars
    <2>1. trusted' = trusted
      BY <1>9 DEF Execute, ExecuteShutdown, ExecuteReleaseAllSources, ExecuteBegin, ExecuteClose, ExecuteTrusted,
                  ExecuteRealtime, ExecuteReliable, QueuesUnchanged, queueVars, actorVars
    <2> QED
      BY <1>2, <2>1
  <1> QED
    BY <1>6, <1>7, <1>8, <1>9 DEF ActorNext, Worker

LEMMA ActorTypes == ActorSpec => [](Types /\ Fits)
  <1>1. ActorInit => Types /\ Fits
    <2> SUFFICES ASSUME ActorInit PROVE Fits
      BY TypesInit
    <2>1. controls = <<>> /\ trusted = <<>> /\ ordinary = <<>> /\ ~admission.open
      BY DEF ActorInit, NoSession
    <2>2. {ReliableCapacity, ControlCapacity} \subseteq Nat \ {0}
      BY ActorConstantsAssumption
    <2>3. ReliableLen = 0
      BY <2>1, EmptyCount, CountOfLen
    <2> QED
      BY <2>1, <2>2, <2>3 DEF Fits
  <1>2. Types /\ Fits /\ [ActorNext]_actorVars => (Types /\ Fits)'
    <2> SUFFICES ASSUME Types, Fits, [ActorNext]_actorVars PROVE Types' /\ Fits'
      OBVIOUS
    <2>1. Types'
      BY TypesStep
    <2> QED
      BY <2>1, ControlFits, ReliableFits, TrustedFits DEF Fits
  <1> QED
    BY <1>1, <1>2, PTL DEF ActorSpec

(* Fields keep to their ranges and the three bounded queues to their       *)
(* capacities, with the one place that close_admission may use beyond.     *)
THEOREM ActorTypeCorrect == ActorSpec => []ActorTypeOK
  <1>1. Types /\ Fits => ActorTypeOK
    BY DEF Types, SessionTypes, QueueTypes, WorkerTypes, Fits, ActorTypeOK, Items, Works
  <1> QED
    BY <1>1, ActorTypes, PTL

-----------------------------------------------------------------------------
(* What is down is accounted for.                                          *)

LEMMA NotExited == Idle.type = "Idle" /\ Exited.type = "Exited" /\ Idle # Exited
  BY DEF Idle, Exited, Simple, Work

LEMMA TakenTypes ==
    ASSUME Types, Take
    PROVE  /\ work = Idle /\ UNCHANGED workerVars
           /\ work'.type \in {"Shutdown", "ReleaseAllSources", "Begin", "Close", "TrustedLocal", "Realtime", "Reliable"}
  <1>1. work = Idle /\ UNCHANGED workerVars
    BY DEF Take, TakeShutdown, TakeReleaseAllSources, TakeControl, TakeLeaseExpired, TakeTrusted, TakeOrdinary,
           MayTakeTrusted, NoRelease, MayTake
  <1>2. CASE TakeShutdown \/ TakeReleaseAllSources \/ TakeLeaseExpired
    BY <1>1, <1>2 DEF TakeShutdown, TakeReleaseAllSources, TakeLeaseExpired, Simple, Work
  <1>3. CASE TakeControl
    BY <1>1, <1>3, QueuesTaken DEF TakeControl, Types, QueueTypes
  <1>4. CASE TakeTrusted
    BY <1>1, <1>4, Ends DEF TakeTrusted, Types, QueueTypes
  <1>5. CASE TakeOrdinary
    <2>1. ordinary \in Seq(Items) /\ ordinary # <<>> /\ ordinary[1] \in Items /\ Len(ordinary) \in Nat \ {0}
          /\ \A i \in 1..Len(ordinary) : ordinary[i].type \in {"Realtime", "Reliable"}
      BY <1>5, Ends DEF TakeOrdinary, Types, QueueTypes
    <2>2. ASSUME NEW k \in 2..Len(ordinary[1].seqs), SplitTaken(ordinary, ordinary', work', k)
          PROVE  work'.type = "Realtime"
      BY <2>1, <2>2 DEF SplitTaken, IsRealtime, Items, Works
    <2>3. FrontTaken(ordinary, ordinary', work') => work'.type \in {"Realtime", "Reliable"}
      BY <2>1 DEF FrontTaken
    <2>4. ButtonTaken(ordinary, ordinary', work') => work'.type \in {"Realtime", "Reliable"}
      BY <2>1 DEF ButtonTaken
    <2> QED
      BY <1>1, <1>5, <2>2, <2>3, <2>4, OrdinaryTaken
  <1> QED
    BY <1>1, <1>2, <1>3, <1>4, <1>5 DEF Take

LEMMA DownStays ==
    ASSUME Types, NEW remoteToo \in BOOLEAN, NEW localToo \in BOOLEAN, NEW down \in SUBSET Controls,
           NEW mishap \in SUBSET {"Inject", "Ledger", "Gate"},
           ReleaseLedgers(remoteToo, localToo, down, mishap)
    PROVE  down \subseteq HeldRemote \cup local => backend' \subseteq HeldRemote' \cup local'
  BY LedgersReleased

(* An attempt that failed gives everything up: a batch that could not be   *)
(* injected in full leaves a mishap behind.                                *)
LEMMA GivenUp ==
    ASSUME Types, HeldInv, NEW f, f.down \in SUBSET Controls,
           f.mishap \in SUBSET {"Inject", "Ledger", "Gate"}, f.mishap # {},
           "Ledger" \notin f.mishap => f.down = backend,
           ReleaseLedgers(TRUE, TRUE, f.down, f.mishap), work' = Idle
    PROVE  HeldInv'
  <1>1. /\ mishaps \cup f.mishap \subseteq mishaps'
        /\ f.down \subseteq HeldRemote \cup local => backend' \subseteq HeldRemote' \cup local'
    BY LedgersReleased
  <1>2. DownIsHeld'
    <2> SUFFICES ASSUME "Ledger" \notin mishaps' PROVE backend' \subseteq HeldRemote' \cup local'
      BY DEF DownIsHeld, HeldRemote
    <2>1. "Ledger" \notin mishaps /\ "Ledger" \notin f.mishap
      BY <1>1
    <2> QED
      BY <1>1, <2>1 DEF HeldInv, DownIsHeld
  <1>3. mishaps' # {}
    BY <1>1
  <1> QED
    BY <1>2, <1>3 DEF HeldInv

LEMMA HeldStep ==
    ASSUME Types, HeldInv, [ActorNext]_actorVars
    PROVE  HeldInv'
  <1>1. ASSUME UNCHANGED workerVars, work' = Exited => work = Exited PROVE HeldInv'
    BY <1>1 DEF workerVars, HeldInv, DownIsHeld, HeldRemote, HeldBySession, NothingSurvives
  <1>2. CASE Producers \/ UNCHANGED actorVars
    BY <1>1, <1>2, ProducersKeepWorker DEF actorVars
  <1>3. CASE Take
    BY <1>1, <1>3, TakenTypes, NotExited
  <1>4. /\ gate \in [epoch : 0..EpochMax, rt : 0..(SeqMax + 1), rel : 0..(SeqMax + 1)]
        /\ remote \in [Controls -> 0..EpochMax] /\ local \subseteq Controls
        /\ backend \subseteq Controls /\ backend \in SUBSET Controls /\ {} \in SUBSET {"Inject", "Ledger", "Gate"}
    BY DEF Types, WorkerTypes
  <1>5. work \in Items /\ work.control \in Controls \cup {None} /\ None \notin Controls
    BY Bounds DEF Types, Items, Works
  (* A release of what the session, or everybody, holds.                   *)
  <1>6. ASSUME NEW remoteToo \in BOOLEAN, NEW localToo \in BOOLEAN, ReleaseLedgers(remoteToo, localToo, backend, {})
        PROVE  /\ DownIsHeld' /\ mishaps \subseteq mishaps'
               /\ \A c \in Controls : remote'[c] \in {0, remote[c]}
               /\ remoteToo /\ mishaps' = {} => \A c \in Controls : remote'[c] = 0
               /\ remoteToo /\ localToo /\ mishaps' = {} => backend' = {}
    <2>1. /\ mishaps \subseteq mishaps' /\ local' \subseteq Controls
          /\ \A c \in Controls : remote'[c] \in {0, remote[c]}
          /\ backend \subseteq HeldRemote \cup local => backend' \subseteq HeldRemote' \cup local'
          /\ remoteToo /\ mishaps' = {} => \A c \in Controls : remote'[c] = 0
          /\ localToo /\ mishaps' = {} => local' = {}
      <3>1. PICK none \in SUBSET {"Inject", "Ledger", "Gate"} : none = {}
        BY <1>4
      <3>2. ReleaseLedgers(remoteToo, localToo, backend, none)
        BY <1>6, <3>1
      <3>3. mishaps \cup none \subseteq mishaps' /\ local' \subseteq Controls
        BY <1>4, <3>1, <3>2, LedgersReleased
      <3>4. \A c \in Controls : remote'[c] \in {0, remote[c]}
        BY <1>4, <3>1, <3>2, LedgersReleased
      <3>5. backend \subseteq HeldRemote \cup local => backend' \subseteq HeldRemote' \cup local'
        BY <1>4, <3>1, <3>2, DownStays
      <3>6. remoteToo /\ mishaps' = {} => \A c \in Controls : remote'[c] = 0
        BY <1>4, <3>1, <3>2, LedgersReleased
      <3>7. localToo /\ mishaps' = {} => local' = {}
        BY <1>4, <3>1, <3>2, LedgersReleased
      <3> QED
        BY <3>3, <3>4, <3>5, <3>6, <3>7
    <2>2. DownIsHeld'
      BY <2>1 DEF HeldInv, DownIsHeld, HeldRemote
    <2>3. ASSUME remoteToo, localToo, mishaps' = {} PROVE backend' = {}
      BY <2>1, <2>2, <2>3 DEF DownIsHeld, HeldRemote
    <2> QED
      BY <2>1, <2>2, <2>3
  <1>7. CASE ExecuteShutdown \/ ExecuteReleaseAllSources
    <2>1. ReleaseLedgers(TRUE, TRUE, backend, {})
      BY <1>7 DEF ExecuteShutdown, ExecuteReleaseAllSources
    <2>2. /\ DownIsHeld'
          /\ mishaps' = {} => (\A c \in Controls : remote'[c] = 0) /\ backend' = {}
      BY <1>6, <2>1
    <2> QED
      BY <2>2 DEF HeldInv, HeldBySession, HeldRemote, NothingSurvives
  <1>8. work' = Idle => NothingSurvives'
    BY NotExited DEF NothingSurvives
  <1>9. CASE ExecuteBegin
    <2>1. ReleaseLedgers(gate.epoch \notin {0, work.epoch}, FALSE, backend, {}) /\ work' = Idle /\ gate'.epoch = work.epoch
      BY <1>9 DEF ExecuteBegin, Done, NoGate
    <2>2. PICK t \in BOOLEAN : t = (gate.epoch \notin {0, work.epoch})
      OBVIOUS
    <2>3. ReleaseLedgers(t, FALSE, backend, {})
      BY <2>1, <2>2
    <2>4. ASSUME mishaps' = {} PROVE HeldBySession'
      <3> SUFFICES ASSUME NEW c \in Controls, remote'[c] # 0 PROVE remote'[c] = gate'.epoch
        BY DEF HeldBySession, HeldRemote
      <3>1. mishaps = {} /\ remote'[c] = remote[c] /\ ~t
        BY <1>6, <2>3, <2>4
      <3>2. remote[c] = gate.epoch
        BY <3>1 DEF HeldInv, HeldBySession, HeldRemote
      <3> QED
        BY <2>1, <2>2, <3>1, <3>2
    <2>5. DownIsHeld'
      BY <1>6, <2>3
    <2> QED
      BY <1>8, <2>1, <2>4, <2>5 DEF HeldInv
  <1>10. CASE ExecuteClose
    <2>1. /\ ReleaseLedgers(gate.epoch = work.epoch, FALSE, backend, {}) /\ work' = Idle
          /\ gate.epoch # work.epoch => gate' = gate
      BY <1>10 DEF ExecuteClose, Done
    <2>2. PICK t \in BOOLEAN : t = (gate.epoch = work.epoch)
      OBVIOUS
    <2>3. ReleaseLedgers(t, FALSE, backend, {})
      BY <2>1, <2>2
    <2>4. ASSUME mishaps' = {} PROVE HeldBySession'
      <3> SUFFICES ASSUME NEW c \in Controls, remote'[c] # 0 PROVE remote'[c] = gate'.epoch
        BY DEF HeldBySession, HeldRemote
      <3>1. mishaps = {} /\ remote'[c] = remote[c] /\ ~t
        BY <1>6, <2>3, <2>4
      <3>2. remote[c] = gate.epoch
        BY <3>1 DEF HeldInv, HeldBySession, HeldRemote
      <3> QED
        BY <2>1, <2>2, <3>1, <3>2
    <2>5. DownIsHeld'
      BY <1>6, <2>3
    <2> QED
      BY <1>8, <2>1, <2>4, <2>5 DEF HeldInv
  <1>11. CASE ExecuteTrusted
    <2>1. work' = Idle /\ gate' = gate /\ (work.kind \in {"Press", "Release"} => work.control # None)
      BY <1>5, <1>11 DEF ExecuteTrusted, Done, Items, Fitting
    <2>2. CASE /\ backend' = After(work.kind, work.control, backend)
               /\ local' = After(work.kind, work.control, local)
               /\ UNCHANGED <<remote, mishaps>>
      <3>1. backend \subseteq HeldRemote \cup local => backend' \subseteq HeldRemote' \cup local'
        BY <1>4, <2>1, <2>2 DEF After, HeldRemote
      <3>2. DownIsHeld'
        BY <2>2, <3>1 DEF HeldInv, DownIsHeld
      <3>3. mishaps' = {} => HeldBySession'
        BY <2>1, <2>2 DEF HeldInv, HeldBySession, HeldRemote
      <3> QED
        BY <1>8, <2>1, <3>2, <3>3 DEF HeldInv
    <2>3. ASSUME NEW f \in FailedAttempts(work.kind, work.control, local),
                 ReleaseLedgers(TRUE, TRUE, f.down, f.mishap)
          PROVE  HeldInv'
      <3>1. /\ f.down \in SUBSET Controls /\ f.mishap \in SUBSET {"Inject", "Ledger", "Gate"} /\ f.mishap # {}
            /\ "Ledger" \notin f.mishap => f.down = backend
        BY <1>5, <2>1, AttemptsFail, SMTT(60), ZenonT(60)
      <3> QED
        BY <2>1, <2>3, <3>1, GivenUp
    <2> QED
      BY <1>11, <2>2, <2>3 DEF ExecuteTrusted
  <1>12. ASSUME NEW f, f.down \in SUBSET Controls,
                f.mishap \in SUBSET {"Inject", "Ledger", "Gate"}, f.mishap # {},
                "Ledger" \notin f.mishap => f.down = backend, FailSession(f), work' = Idle
         PROVE  HeldInv'
    <2>1. ReleaseLedgers(TRUE, TRUE, f.down, f.mishap)
      BY <1>12 DEF FailSession
    <2> QED
      BY <1>12, <2>1, GivenUp
  <1>13. CASE ExecuteRealtime
    <2>1. work' = Idle
      BY <1>13 DEF ExecuteRealtime, Done
    <2>2. CASE UNCHANGED workerVars
      BY <1>1, <2>1, <2>2, NotExited
    <2>3. CASE /\ gate' = [gate EXCEPT !.rt = Last(work.seqs) + 1]
               /\ UNCHANGED <<remote, local, backend, mishaps>>
      <3>1. gate'.epoch = gate.epoch
        BY <1>4, <2>3
      <3> QED
        BY <1>8, <2>1, <2>3, <3>1 DEF HeldInv, DownIsHeld, HeldRemote, HeldBySession
    <2>4. CASE FailSession([down |-> backend, mishap |-> {"Inject"}])
      BY <1>4, <1>12, <2>1, <2>4
    <2> QED
      BY <1>13, <2>2, <2>3, <2>4 DEF ExecuteRealtime
  <1>14. CASE ExecuteReliable
    <2>1. work' = Idle /\ (work.kind \in {"Press", "Release"} => work.control # None)
      BY <1>5, <1>14 DEF ExecuteReliable, Done, Items, Fitting
    <2>2. CASE UNCHANGED workerVars
      BY <1>1, <2>1, <2>2, NotExited
    <2>3. CASE FailSession([down |-> backend, mishap |-> {"Gate"}])
      BY <1>4, <1>12, <2>1, <2>3
    <2>4. CASE /\ GateAccepts
               /\ gate' = [gate EXCEPT !.rel = work.seqs[1] + 1]
               /\ backend' = After(work.kind, work.control, backend)
               /\ remote' = IF work.control = None THEN remote
                            ELSE [remote EXCEPT ![work.control] =
                                    IF work.kind = "Release" THEN 0 ELSE IF @ = 0 THEN gate.epoch ELSE @]
               /\ UNCHANGED <<local, mishaps>>
      <3>1. gate'.epoch = gate.epoch /\ gate.epoch # 0
        BY <1>4, <2>4 DEF GateAccepts, InSession
      <3>2. \A c \in Controls : remote'[c] = IF c = work.control
                                             THEN IF work.kind = "Release" THEN 0
                                                  ELSE IF remote[c] = 0 THEN gate.epoch ELSE remote[c]
                                             ELSE remote[c]
        BY <1>4, <1>5, <2>4
      <3>3. backend \subseteq HeldRemote \cup local => backend' \subseteq HeldRemote' \cup local'
        <4> SUFFICES ASSUME backend \subseteq HeldRemote \cup local, NEW c \in backend' PROVE c \in HeldRemote' \cup local'
          OBVIOUS
        <4>1. \/ work.kind = "Press" /\ c = work.control
              \/ c \in backend /\ ~(work.kind = "Release" /\ c = work.control)
          BY <2>4 DEF After
        <4>2. c \in Controls
          BY <1>4, <1>5, <2>1, <4>1
        <4>3. CASE c \in local
          BY <2>4, <4>3
        <4>4. CASE c \in HeldRemote
          BY <3>1, <3>2, <4>1, <4>2, <4>4 DEF HeldRemote
        <4>5. CASE work.kind = "Press" /\ c = work.control
          BY <3>1, <3>2, <4>2, <4>5 DEF HeldRemote
        <4> QED
          BY <4>1, <4>3, <4>4, <4>5
      <3>4. DownIsHeld'
        BY <2>4, <3>3 DEF HeldInv, DownIsHeld
      <3>5. mishaps' = {} => HeldBySession'
        BY <2>4, <3>1, <3>2 DEF HeldInv, HeldBySession, HeldRemote
      <3> QED
        BY <1>8, <2>1, <3>4, <3>5 DEF HeldInv
    <2>5. ASSUME NEW f \in FailedAttempts(work.kind, work.control, HeldRemote), FailSession(f) PROVE HeldInv'
      <3>1. /\ f.down \in SUBSET Controls /\ f.mishap \in SUBSET {"Inject", "Ledger", "Gate"} /\ f.mishap # {}
            /\ "Ledger" \notin f.mishap => f.down = backend
        BY <1>5, <2>1, AttemptsFail, ZenonT(60), SMTT(60)
      <3> QED
        BY <1>12, <2>1, <2>5, <3>1
    <2> QED
      BY <1>14, <2>2, <2>3, <2>4, <2>5 DEF ExecuteReliable
  <1> QED
    BY <1>2, <1>3, <1>7, <1>9, <1>10, <1>11, <1>13, <1>14 DEF ActorNext, Worker, Execute

(* A control that is down is in a ledger, so that some release will take   *)
(* it; unless an injection failed, what a remote session pressed belongs   *)
(* to the session the worker is in, and nothing outlives the worker.       *)
THEOREM HeldAlwaysAccounted == ActorSpec => []HeldIsAccounted
  <1>1. ActorInit => HeldInv
    BY NotExited DEF ActorInit, HeldInv, DownIsHeld, HeldRemote, HeldBySession, NothingSurvives
  <1>2. Types /\ HeldInv /\ [ActorNext]_actorVars => HeldInv'
    BY HeldStep
  <1>3. HeldInv => HeldIsAccounted
    BY DEF HeldInv, DownIsHeld, HeldIsAccounted
  <1> QED
    BY <1>1, <1>2, <1>3, ActorTypes, PTL DEF ActorSpec

-----------------------------------------------------------------------------
(* The order of frames, when one is queued and when one is taken.          *)

LEMMA FrameFacts ==
    ASSUME NEW q \in Seq(Items)
    PROVE  /\ Len(q) \in Nat /\ DOMAIN q = 1..Len(q)
           /\ \A i \in 1..Len(q) :
                /\ q[i] \in Items /\ q[i].seqs \in Seq(Seqs) /\ Len(q[i].seqs) \in Nat
                /\ DOMAIN q[i].seqs = 1..Len(q[i].seqs)
                /\ \A a \in 1..Len(q[i].seqs) : q[i].seqs[a] \in Nat
                /\ Rel(q[i]) \/ IsRealtime(q[i]) => Len(q[i].seqs) \in Nat \ {0}
                /\ Rel(q[i]) => ~IsRealtime(q[i])
  <1>1. \A i \in 1..Len(q) : q[i] \in Items /\ q[i].seqs \in Seq(Seqs)
    BY DEF Items, Works
  <1>2. \A s \in Seq(Seqs) : Len(s) \in Nat /\ DOMAIN s = 1..Len(s) /\ \A a \in 1..Len(s) : s[a] \in Nat
    BY Bounds
  <1>3. \A i \in 1..Len(q) : Rel(q[i]) \/ IsRealtime(q[i]) => q[i].seqs # <<>>
    BY <1>1 DEF Items, Fitting, Rel, IsRealtime
  <1>4. \A i \in 1..Len(q) : Rel(q[i]) \/ IsRealtime(q[i]) => Len(q[i].seqs) \in Nat \ {0}
    BY <1>1, <1>3, EmptySeq
  <1> QED
    BY <1>1, <1>2, <1>4 DEF Rel, IsRealtime

LEMMA ReliableQueued ==
    ASSUME NEW q \in Seq(Items), NEW x \in Items, Rel(x), NEW next \in Nat, NEW end \in Nat,
           RelsInOrder(q, next, end), end = 0 \/ x.seqs[1] = end
    PROVE  RelsInOrder(Append(q, x), next, x.seqs[1] + 1)
  <1> DEFINE r == Append(q, x)
             n == Len(q)
             s == x.seqs[1]
  <1>1. /\ n \in Nat /\ DOMAIN q = 1..n /\ DOMAIN r = 1..(n + 1) /\ Len(r) = n + 1
        /\ r[n + 1] = x /\ \A i \in 1..n : r[i] = q[i]
    BY AppendProperties
  <1>2. s \in Nat /\ \A i \in 1..n : Rel(q[i]) => q[i].seqs[1] \in Nat
    <2>1. s \in Seqs
      BY Ends DEF Rel, Items, Works, Fitting
    <2> QED
      BY <2>1, Bounds, FrameFacts
  <1> HIDE DEF r, s
  <1>3. \A i \in 1..n : Rel(q[i]) => end # 0 /\ q[i].seqs[1] < s
    BY <1>1, <1>2 DEF RelsInOrder, s
  <1>4. \A i \in 1..(n + 1) : Rel(r[i]) => r[i].seqs[1] < s + 1
    <2> SUFFICES ASSUME NEW i \in 1..(n + 1), Rel(r[i]) PROVE r[i].seqs[1] < s + 1
      OBVIOUS
    <2>1. CASE i = n + 1
      BY <1>1, <1>2, <2>1 DEF s
    <2>2. CASE i \in 1..n
      BY <1>1, <1>2, <1>3, <2>2
    <2> QED
      BY <1>1, <2>1, <2>2
  <1>5. ASSUME NEW i \in 1..(n + 1), NEW j \in 1..(n + 1), i < j, Rel(r[i]), Rel(r[j]),
               \A k \in (i + 1)..(j - 1) : ~Rel(r[k])
        PROVE  r[j].seqs[1] = r[i].seqs[1] + 1
    <2>1. i \in 1..n /\ Rel(q[i]) /\ r[i] = q[i]
      BY <1>1, <1>5
    <2>2. CASE j = n + 1
      <3>1. \A k \in (i + 1)..n : ~Rel(q[k])
        BY <1>1, <1>5, <2>1, <2>2
      <3>2. q[i].seqs[1] + 1 = end
        BY <1>1, <2>1, <3>1 DEF RelsInOrder
      <3> QED
        BY <1>1, <1>3, <2>1, <2>2, <3>2 DEF s
    <2>3. CASE j \in 1..n
      <3>1. \A k \in (i + 1)..(j - 1) : ~Rel(q[k])
        BY <1>1, <1>5, <2>1, <2>3
      <3> QED
        BY <1>1, <1>5, <2>1, <2>3, <3>1, SMTT(60), ZenonT(60) DEF RelsInOrder
    <2> QED
      BY <1>1, <2>2, <2>3
  <1>6. ASSUME NEW i \in 1..(n + 1), Rel(r[i]), \A k \in 1..(i - 1) : ~Rel(r[k])
        PROVE  next \in {0, r[i].seqs[1]}
    <2>1. CASE i = n + 1
      <3>1. \A k \in 1..n : ~Rel(q[k])
        BY <1>1, <1>6, <2>1
      <3>2. next = end
        BY <1>1, <3>1 DEF RelsInOrder
      <3> QED
        BY <1>1, <2>1, <3>2 DEF s
    <2>2. CASE i \in 1..n
      <3>1. \A k \in 1..(i - 1) : ~Rel(q[k])
        BY <1>1, <1>6, <2>2
      <3> QED
        BY <1>1, <1>6, <2>2, <3>1 DEF RelsInOrder
    <2> QED
      BY <1>1, <2>1, <2>2
  <1>7. ASSUME NEW i \in 1..(n + 1), Rel(r[i]), \A k \in (i + 1)..(n + 1) : ~Rel(r[k])
        PROVE  r[i].seqs[1] + 1 = s + 1
    <2>1. i = n + 1
      BY <1>1, <1>7
    <2> QED
      BY <1>1, <2>1 DEF s
  <1>8. ~\A i \in 1..(n + 1) : ~Rel(r[i])
    BY <1>1
  <1>9. RelsInOrder(r, next, s + 1)
    BY <1>1, <1>4, <1>5, <1>6, <1>7, <1>8 DEF RelsInOrder
  <1> QED
    BY <1>9 DEF r, s

(* The order of reliable frames only reads them and where they are.        *)
LEMMA RelsUntouched ==
    ASSUME NEW q \in Seq(Items), NEW r \in Seq(Items), Len(r) = Len(q), NEW next, NEW end,
           RelsInOrder(q, next, end),
           \A i \in 1..Len(q) : (Rel(r[i]) <=> Rel(q[i])) /\ (Rel(q[i]) => r[i] = q[i])
    PROVE  RelsInOrder(r, next, end)
  <1>1. Len(q) \in Nat /\ DOMAIN q = 1..Len(q) /\ DOMAIN r = 1..Len(q)
    OBVIOUS
  <1>2. \A i \in 1..Len(q) : Rel(r[i]) => r[i].seqs[1] < end
    BY <1>1 DEF RelsInOrder
  <1>3. ASSUME NEW i \in 1..Len(q), NEW j \in 1..Len(q), i < j, Rel(r[i]), Rel(r[j]),
               \A k \in (i + 1)..(j - 1) : ~Rel(r[k])
        PROVE  r[j].seqs[1] = r[i].seqs[1] + 1
    <2>1. \A k \in (i + 1)..(j - 1) : ~Rel(q[k])
      BY <1>1, <1>3
    <2> QED
      BY <1>1, <1>3, <2>1, SMTT(60), ZenonT(60) DEF RelsInOrder
  <1>4. ASSUME NEW i \in 1..Len(q), Rel(r[i]), \A k \in 1..(i - 1) : ~Rel(r[k])
        PROVE  next \in {0, r[i].seqs[1]}
    <2>1. \A k \in 1..(i - 1) : ~Rel(q[k])
      BY <1>1, <1>4
    <2> QED
      BY <1>1, <1>4, <2>1 DEF RelsInOrder
  <1>5. ASSUME NEW i \in 1..Len(q), Rel(r[i]), \A k \in (i + 1)..Len(q) : ~Rel(r[k])
        PROVE  r[i].seqs[1] + 1 = end
    <2>1. \A k \in (i + 1)..Len(q) : ~Rel(q[k])
      BY <1>1, <1>5
    <2> QED
      BY <1>1, <1>5, <2>1 DEF RelsInOrder
  <1>6. (\A i \in 1..Len(q) : ~Rel(r[i])) => next = end
    BY <1>1 DEF RelsInOrder
  <1> QED
    BY <1>1, <1>2, <1>3, <1>4, <1>5, <1>6 DEF RelsInOrder

LEMMA MotionBehindRels ==
    ASSUME NEW q \in Seq(Items), NEW x \in Items, ~Rel(x), NEW next, NEW end, RelsInOrder(q, next, end)
    PROVE  RelsInOrder(Append(q, x), next, end)
  <1> DEFINE r == Append(q, x)
             n == Len(q)
  <1>1. /\ n \in Nat /\ DOMAIN q = 1..n /\ DOMAIN r = 1..(n + 1) /\ Len(r) = n + 1
        /\ ~Rel(r[n + 1]) /\ \A i \in 1..n : r[i] = q[i]
    BY AppendProperties
  <1> HIDE DEF r
  <1>2. \A i \in 1..(n + 1) : Rel(r[i]) => i \in 1..n /\ r[i] = q[i] /\ Rel(q[i])
    BY <1>1
  <1>3. \A i \in 1..(n + 1) : Rel(r[i]) => r[i].seqs[1] < end
    BY <1>1, <1>2 DEF RelsInOrder
  <1>4. ASSUME NEW i \in 1..(n + 1), NEW j \in 1..(n + 1), i < j, Rel(r[i]), Rel(r[j]),
               \A k \in (i + 1)..(j - 1) : ~Rel(r[k])
        PROVE  r[j].seqs[1] = r[i].seqs[1] + 1
    <2>1. i \in 1..n /\ j \in 1..n /\ \A k \in (i + 1)..(j - 1) : ~Rel(q[k])
      BY <1>1, <1>2, <1>4
    <2>2. r[i] = q[i] /\ r[j] = q[j] /\ Rel(q[i]) /\ Rel(q[j])
      BY <1>2, <1>4
    <2>3. q[j].seqs[1] = q[i].seqs[1] + 1
      BY <1>1, <1>4, <2>1, <2>2 DEF RelsInOrder
    <2> QED
      BY <2>2, <2>3
  <1>5. ASSUME NEW i \in 1..(n + 1), Rel(r[i]), \A k \in 1..(i - 1) : ~Rel(r[k])
        PROVE  next \in {0, r[i].seqs[1]}
    <2>1. i \in 1..n /\ \A k \in 1..(i - 1) : ~Rel(q[k])
      BY <1>1, <1>2, <1>5
    <2> QED
      BY <1>1, <1>2, <1>5, <2>1 DEF RelsInOrder
  <1>6. ASSUME NEW i \in 1..(n + 1), Rel(r[i]), \A k \in (i + 1)..(n + 1) : ~Rel(r[k])
        PROVE  r[i].seqs[1] + 1 = end
    <2>1. i \in 1..n /\ \A k \in (i + 1)..n : ~Rel(q[k])
      BY <1>1, <1>2, <1>6
    <2> QED
      BY <1>1, <1>2, <1>6, <2>1 DEF RelsInOrder
  <1>7. (\A i \in 1..(n + 1) : ~Rel(r[i])) => next = end
    <2> SUFFICES ASSUME \A i \in 1..(n + 1) : ~Rel(r[i]) PROVE next = end
      OBVIOUS
    <2>1. \A i \in 1..n : ~Rel(q[i])
      BY <1>1
    <2> QED
      BY <1>1, <2>1 DEF RelsInOrder
  <1>8. RelsInOrder(r, next, end)
    BY <1>1, <1>3, <1>4, <1>5, <1>6, <1>7 DEF RelsInOrder
  <1> QED
    BY <1>8 DEF r

(* One is taken that no reliable frame is before.                          *)
LEMMA RelsLeave ==
    ASSUME NEW q \in Seq(Items), NEW r \in Seq(Items), NEW p \in 1..Len(q), Len(r) = Len(q) - 1,
           \A i \in 1..(p - 1) : ~Rel(q[i]) /\ r[i] = q[i],
           \A i \in p..(Len(q) - 1) : r[i] = q[i + 1],
           NEW next, NEW end, RelsInOrder(q, next, end)
    PROVE  /\ Rel(q[p]) => next \in {0, q[p].seqs[1]} /\ RelsInOrder(r, q[p].seqs[1] + 1, end)
           /\ ~Rel(q[p]) => RelsInOrder(r, next, end)
  <1> DEFINE n == Len(q)
             after == IF Rel(q[p]) THEN q[p].seqs[1] + 1 ELSE next
  <1>1. n \in Nat \ {0} /\ DOMAIN q = 1..n /\ DOMAIN r = 1..(n - 1) /\ p \in 1..n
    OBVIOUS
  <1>2. Rel(q[p]) => next \in {0, q[p].seqs[1]}
    BY <1>1 DEF RelsInOrder
  <1>3. \A i \in 1..(n - 1) : Rel(r[i]) => p <= i /\ i + 1 \in 1..n /\ r[i] = q[i + 1] /\ Rel(q[i + 1])
    <2> SUFFICES ASSUME NEW i \in 1..(n - 1), Rel(r[i])
                 PROVE  p <= i /\ i + 1 \in 1..n /\ r[i] = q[i + 1] /\ Rel(q[i + 1])
      OBVIOUS
    <2>1. ~(i < p)
      BY <1>1, SMTT(60), ZenonT(60)
    <2>2. p <= i /\ i + 1 \in 1..n /\ r[i] = q[i + 1]
      BY <1>1, <2>1
    <2> QED
      BY <2>2
  <1>4. \A i \in p..(n - 1) : r[i] = q[i + 1]
    OBVIOUS
  <1>5. \A i \in 1..(n - 1) : Rel(r[i]) => r[i].seqs[1] < end
    BY <1>1, <1>3, ZenonT(60), SMTT(60) DEF RelsInOrder
  <1>6. ASSUME NEW i \in 1..(n - 1), NEW j \in 1..(n - 1), i < j, Rel(r[i]), Rel(r[j]),
               \A k \in (i + 1)..(j - 1) : ~Rel(r[k])
        PROVE  r[j].seqs[1] = r[i].seqs[1] + 1
    <2>1. \A k \in (i + 2)..j : ~Rel(q[k])
      <3> SUFFICES ASSUME NEW k \in (i + 2)..j PROVE ~Rel(q[k])
        OBVIOUS
      <3>1. k - 1 \in (i + 1)..(j - 1) /\ k - 1 \in p..(n - 1) /\ k = (k - 1) + 1
        BY <1>1, <1>3, <1>6
      <3> QED
        BY <1>4, <1>6, <3>1
    <2>2. /\ i + 1 \in 1..n /\ j + 1 \in 1..n /\ i + 1 < j + 1 /\ (i + 1) + 1 = i + 2 /\ (j + 1) - 1 = j
          /\ r[i] = q[i + 1] /\ Rel(q[i + 1]) /\ r[j] = q[j + 1] /\ Rel(q[j + 1])
      BY <1>1, <1>3, <1>6, SMTT(60), ZenonT(60)
    <2>3. q[j + 1].seqs[1] = q[i + 1].seqs[1] + 1
      BY <1>1, <2>1, <2>2 DEF RelsInOrder
    <2> QED
      BY <2>2, <2>3
  <1>7. ASSUME NEW i \in 1..(n - 1), Rel(r[i]), \A k \in 1..(i - 1) : ~Rel(r[k])
        PROVE  after \in {0, r[i].seqs[1]}
    <2>1. p <= i /\ i + 1 \in 1..n /\ r[i] = q[i + 1] /\ Rel(q[i + 1])
      BY <1>3, <1>7
    <2>2. \A k \in (p + 1)..i : ~Rel(q[k])
      <3> SUFFICES ASSUME NEW k \in (p + 1)..i PROVE ~Rel(q[k])
        OBVIOUS
      <3>1. k - 1 \in 1..(i - 1) /\ k - 1 \in p..(n - 1) /\ k = (k - 1) + 1
        BY <1>1, <1>7, <2>1
      <3> QED
        BY <1>4, <1>7, <3>1
    <2>3. CASE Rel(q[p])
      <3>1. p < i + 1 /\ (i + 1) - 1 = i
        BY <1>1, <1>7, <2>1
      <3>2. q[i + 1].seqs[1] = q[p].seqs[1] + 1
        BY <1>1, <2>1, <2>2, <2>3, <3>1 DEF RelsInOrder
      <3> QED
        BY <2>1, <2>3, <3>2
    <2>4. CASE ~Rel(q[p])
      <3>1. \A k \in 1..i : ~Rel(q[k])
        BY <1>1, <2>1, <2>2, <2>4
      <3>2. (i + 1) - 1 = i
        BY <1>1
      <3>3. next \in {0, q[i + 1].seqs[1]}
        BY <1>1, <2>1, <3>1, <3>2 DEF RelsInOrder
      <3> QED
        BY <2>1, <2>4, <3>3
    <2> QED
      BY <2>3, <2>4
  <1>8. ASSUME NEW i \in 1..(n - 1), Rel(r[i]), \A k \in (i + 1)..(n - 1) : ~Rel(r[k])
        PROVE  r[i].seqs[1] + 1 = end
    <2>1. p <= i /\ i + 1 \in 1..n /\ r[i] = q[i + 1] /\ Rel(q[i + 1])
      BY <1>3, <1>8
    <2>2. \A k \in ((i + 1) + 1)..n : ~Rel(q[k])
      <3> SUFFICES ASSUME NEW k \in ((i + 1) + 1)..n PROVE ~Rel(q[k])
        OBVIOUS
      <3>1. k - 1 \in (i + 1)..(n - 1) /\ k - 1 \in p..(n - 1) /\ k = (k - 1) + 1
        BY <1>1, <2>1
      <3> QED
        BY <1>4, <1>8, <3>1
    <2> QED
      BY <1>1, <2>1, <2>2 DEF RelsInOrder
  <1>9. (\A i \in 1..(n - 1) : ~Rel(r[i])) => after = end
    <2> SUFFICES ASSUME \A i \in 1..(n - 1) : ~Rel(r[i]) PROVE after = end
      OBVIOUS
    <2>1. \A k \in (p + 1)..n : ~Rel(q[k])
      <3> SUFFICES ASSUME NEW k \in (p + 1)..n PROVE ~Rel(q[k])
        OBVIOUS
      <3>1. k - 1 \in 1..(n - 1) /\ k - 1 \in p..(n - 1) /\ k = (k - 1) + 1
        BY <1>1
      <3> QED
        BY <1>4, <3>1
    <2>2. CASE Rel(q[p])
      BY <1>1, <2>1, <2>2 DEF RelsInOrder
    <2>3. CASE ~Rel(q[p])
      <3>1. \A k \in 1..n : ~Rel(q[k])
        BY <1>1, <2>1, <2>3
      <3> QED
        BY <1>1, <2>3, <3>1 DEF RelsInOrder
    <2> QED
      BY <2>2, <2>3
  <1> HIDE DEF after
  <1>10. RelsInOrder(r, after, end)
    BY <1>1, <1>5, <1>6, <1>7, <1>8, <1>9 DEF RelsInOrder
  <1> QED
    BY <1>2, <1>10 DEF after

(* A button passes what is left of the batch that it was right behind.     *)
LEMMA RelsPass ==
    ASSUME NEW q \in Seq(Items), NEW r \in Seq(Items), Len(q) > 1, Len(r) = Len(q),
           ~Rel(q[1]), r[1] = q[2], ~Rel(r[2]), \A i \in 3..Len(q) : r[i] = q[i],
           NEW next, NEW end, RelsInOrder(q, next, end)
    PROVE  RelsInOrder(r, next, end)
  <1> DEFINE n == Len(q)
             M(i) == IF i = 1 THEN 2 ELSE i
  <1>1. n \in Nat \ {0, 1} /\ DOMAIN q = 1..n /\ DOMAIN r = 1..n
    OBVIOUS
  <1>2. \A i \in 1..n : Rel(r[i]) => i # 2 /\ M(i) \in 2..n /\ r[i] = q[M(i)] /\ Rel(q[M(i)])
    BY <1>1
  <1>3. \A i \in 1..n : Rel(q[i]) => i # 1 /\ (i = 2 => Rel(r[1])) /\ (i # 2 => r[i] = q[i])
    BY <1>1
  <1>4. \A i \in 1..n : Rel(r[i]) => r[i].seqs[1] < end
    BY <1>1, <1>2 DEF RelsInOrder
  <1>5. ASSUME NEW i \in 1..n, NEW j \in 1..n, i < j, Rel(r[i]), Rel(r[j]),
               \A k \in (i + 1)..(j - 1) : ~Rel(r[k])
        PROVE  r[j].seqs[1] = r[i].seqs[1] + 1
    <2>1. M(i) \in 2..n /\ M(j) \in 2..n /\ M(i) < M(j) /\ j > 2
      <3>1. i # 2 /\ j # 2
        BY <1>2, <1>5
      <3>2. j > 2
        BY <1>5, <3>1
      <3> QED
        BY <1>1, <1>5, <3>1, <3>2
    <2>2. \A k \in (M(i) + 1)..(M(j) - 1) : ~Rel(q[k])
      <3> SUFFICES ASSUME NEW k \in (M(i) + 1)..(M(j) - 1) PROVE ~Rel(q[k])
        OBVIOUS
      <3>1. k \in 3..n /\ k \in (i + 1)..(j - 1)
        BY <1>1, <1>5, <2>1
      <3> QED
        BY <1>5, <3>1
    <2>3. r[i] = q[M(i)] /\ Rel(q[M(i)]) /\ r[j] = q[M(j)] /\ Rel(q[M(j)])
      BY <1>2, <1>5
    <2> HIDE DEF M
    <2>4. \A a, b \in 1..n : a < b /\ Rel(q[a]) /\ Rel(q[b]) /\ (\A k \in (a + 1)..(b - 1) : ~Rel(q[k]))
            => q[b].seqs[1] = q[a].seqs[1] + 1
      BY <1>1 DEF RelsInOrder
    <2>5. M(i) \in 1..n /\ M(j) \in 1..n
      BY <1>1, <2>1
    <2>6. q[M(j)].seqs[1] = q[M(i)].seqs[1] + 1
      BY <2>1, <2>2, <2>3, <2>4, <2>5
    <2> QED
      BY <2>3, <2>6
  <1>6. ASSUME NEW i \in 1..n, Rel(r[i]), \A k \in 1..(i - 1) : ~Rel(r[k])
        PROVE  next \in {0, r[i].seqs[1]}
    <2>1. \A k \in 1..(M(i) - 1) : ~Rel(q[k])
      <3> SUFFICES ASSUME NEW k \in 1..(M(i) - 1), Rel(q[k]) PROVE FALSE
        OBVIOUS
      <3>1. k \in 2..(M(i) - 1) /\ i > 2
        BY <1>1, <1>2, <1>3, <1>6
      <3>2. k = 2 => Rel(r[1])
        BY <1>1, <1>3, <3>1
      <3>3. k # 2 => Rel(r[k])
        BY <1>1, <1>3, <3>1
      <3> QED
        BY <1>1, <1>6, <3>1, <3>2, <3>3
    <2>2. M(i) \in 1..n /\ r[i] = q[M(i)] /\ Rel(q[M(i)])
      BY <1>1, <1>2, <1>6
    <2> HIDE DEF M
    <2> QED
      BY <1>1, <2>1, <2>2 DEF RelsInOrder
  <1>7. ASSUME NEW i \in 1..n, Rel(r[i]), \A k \in (i + 1)..n : ~Rel(r[k])
        PROVE  r[i].seqs[1] + 1 = end
    <2>1. \A k \in (M(i) + 1)..n : ~Rel(q[k])
      <3> SUFFICES ASSUME NEW k \in (M(i) + 1)..n, Rel(q[k]) PROVE FALSE
        OBVIOUS
      <3>1. k \in 3..n /\ k \in (i + 1)..n
        BY <1>1, <1>2, <1>7
      <3> QED
        BY <1>7, <3>1
    <2>2. M(i) \in 1..n /\ r[i] = q[M(i)] /\ Rel(q[M(i)])
      BY <1>1, <1>2, <1>7
    <2> HIDE DEF M
    <2> QED
      BY <1>1, <2>1, <2>2 DEF RelsInOrder
  <1>8. (\A i \in 1..n : ~Rel(r[i])) => next = end
    <2> SUFFICES ASSUME \A i \in 1..n : ~Rel(r[i]) PROVE next = end
      OBVIOUS
    <2>1. \A i \in 1..n : ~Rel(q[i])
      BY <1>1, <1>3
    <2> QED
      BY <1>1, <2>1 DEF RelsInOrder
  <1> QED
    BY <1>1, <1>4, <1>5, <1>6, <1>7, <1>8 DEF RelsInOrder

(* Motion that stays where it was, or as far apart.                        *)
LEMMA MotionsMoved ==
    ASSUME NEW q \in Seq(Items), NEW r \in Seq(Items), NEW m \in [1..Len(r) -> 1..Len(q)],
           \A i \in 1..Len(r) : IsRealtime(r[i]) => r[i] = q[m[i]],
           \A i, j \in 1..Len(r) : i < j /\ IsRealtime(r[i]) /\ IsRealtime(r[j]) => m[i] < m[j],
           NEW next, NEW end \in Nat, MotionsInOrder(q, next, end)
    PROVE  MotionsInOrder(r, next, end)
  <1>1. DOMAIN q = 1..Len(q) /\ DOMAIN r = 1..Len(r) /\ \A i \in 1..Len(r) : m[i] \in 1..Len(q)
    OBVIOUS
  <1>2. \A i \in 1..Len(q) : IsRealtime(q[i]) => Rising(q[i].seqs) /\ Within(q[i].seqs, next, end)
    BY <1>1 DEF MotionsInOrder
  <1>3. \A i, j \in 1..Len(q) : i < j /\ IsRealtime(q[i]) /\ IsRealtime(q[j]) => Before(q[i].seqs, q[j].seqs)
    BY <1>1 DEF MotionsInOrder
  <1>4. \A i \in 1..Len(r) : IsRealtime(r[i]) => Rising(r[i].seqs) /\ Within(r[i].seqs, next, end)
    BY <1>1, <1>2
  <1>5. \A i, j \in 1..Len(r) : i < j /\ IsRealtime(r[i]) /\ IsRealtime(r[j]) => Before(r[i].seqs, r[j].seqs)
    BY <1>1, <1>3
  <1> QED
    BY <1>1, <1>4, <1>5 DEF MotionsInOrder

(* A later end, and a last batch that ends with it.                        *)
LEMMA MotionsGrow ==
    ASSUME NEW q \in Seq(Items), NEW r \in Seq(Items), NEW m \in Nat, Len(r) = m + 1, m <= Len(q),
           \A i \in 1..m : r[i] = q[i],
           NEW next \in Nat, NEW end \in Nat, NEW end2 \in Nat, end <= end2, MotionsInOrder(q, next, end),
           IsRealtime(r[m + 1]) => Rising(r[m + 1].seqs) /\ Within(r[m + 1].seqs, next, end2)
                                   /\ \A i \in 1..m : IsRealtime(q[i]) => Before(q[i].seqs, r[m + 1].seqs)
    PROVE  MotionsInOrder(r, next, end2)
  <1>1. Len(q) \in Nat /\ DOMAIN q = 1..Len(q) /\ DOMAIN r = 1..(m + 1) /\ next <= end
    BY DEF MotionsInOrder
  <1>2. \A i \in 1..m : IsRealtime(q[i]) => Rising(q[i].seqs) /\ Within(q[i].seqs, next, end)
    BY <1>1 DEF MotionsInOrder
  <1>3. \A i, j \in 1..m : i < j /\ IsRealtime(q[i]) /\ IsRealtime(q[j]) => Before(q[i].seqs, q[j].seqs)
    BY <1>1 DEF MotionsInOrder
  <1>4. \A i \in 1..m : IsRealtime(r[i]) => Rising(r[i].seqs) /\ Within(r[i].seqs, next, end2)
    <2> SUFFICES ASSUME NEW i \in 1..m, IsRealtime(r[i]) PROVE Rising(r[i].seqs) /\ Within(r[i].seqs, next, end2)
      OBVIOUS
    <2>1. i \in 1..Len(q) /\ r[i] = q[i] /\ Rising(q[i].seqs) /\ Within(q[i].seqs, next, end)
      BY <1>1, <1>2
    <2>2. \A a \in DOMAIN q[i].seqs : q[i].seqs[a] \in Nat
      BY <2>1, FrameFacts
    <2>3. Within(q[i].seqs, next, end2)
      BY <2>1, <2>2 DEF Within
    <2> QED
      BY <2>1, <2>3
  <1>5. \A i \in 1..(m + 1) : IsRealtime(r[i]) => Rising(r[i].seqs) /\ Within(r[i].seqs, next, end2)
    BY <1>4
  <1>6. ASSUME NEW i \in 1..(m + 1), NEW j \in 1..(m + 1), i < j, IsRealtime(r[i]), IsRealtime(r[j])
        PROVE  Before(r[i].seqs, r[j].seqs)
    <2>1. i \in 1..m /\ r[i] = q[i] /\ (j = m + 1 \/ j \in 1..m)
      BY <1>6
    <2>2. CASE j = m + 1
      BY <1>6, <2>1, <2>2
    <2>3. CASE j \in 1..m
      BY <1>3, <1>6, <2>1, <2>3
    <2> QED
      BY <2>1, <2>2, <2>3
  <1>7. next <= end2
    BY <1>1
  <1> QED
    BY <1>1, <1>5, <1>6, <1>7 DEF MotionsInOrder

LEMMA RisingAppends ==
    ASSUME NEW s \in Seq(Seqs), NEW x \in Seqs, \A a \in DOMAIN s : s[a] < x, Rising(s)
    PROVE  /\ Rising(Append(s, x)) /\ Rising(<<x>>)
           /\ \A a \in DOMAIN Append(s, x) : Append(s, x)[a] = x \/ (a \in DOMAIN s /\ Append(s, x)[a] = s[a])
           /\ DOMAIN <<x>> = {1} /\ <<x>>[1] = x
  <1>1. /\ Len(s) \in Nat /\ DOMAIN s = 1..Len(s) /\ DOMAIN Append(s, x) = 1..(Len(s) + 1)
        /\ Append(s, x)[Len(s) + 1] = x /\ \A a \in 1..Len(s) : Append(s, x)[a] = s[a]
    BY AppendProperties
  <1>2. \A a \in 1..(Len(s) + 1) : a = Len(s) + 1 \/ a \in 1..Len(s)
    BY <1>1
  <1> DEFINE t == Append(s, x)
  <1>3. t[Len(s) + 1] = x /\ DOMAIN t = 1..(Len(s) + 1) /\ \A a \in 1..Len(s) : t[a] = s[a]
    BY <1>1
  <1> HIDE DEF t
  <1>4. Rising(t)
    <2> SUFFICES ASSUME NEW a \in 1..(Len(s) + 1), NEW b \in 1..(Len(s) + 1), a < b PROVE t[a] < t[b]
      BY <1>3 DEF Rising
    <2>1. a \in 1..Len(s) /\ t[a] = s[a]
      BY <1>1, <1>3
    <2>2. CASE b = Len(s) + 1
      BY <1>1, <1>3, <2>1, <2>2
    <2>3. CASE b \in 1..Len(s)
      BY <1>1, <1>3, <2>1, <2>3 DEF Rising
    <2> QED
      BY <1>2, <2>2, <2>3
  <1>5. Rising(<<x>>) /\ DOMAIN <<x>> = {1} /\ <<x>>[1] = x
    <2>1. DOMAIN <<x>> = {1} /\ <<x>>[1] = x
      OBVIOUS
    <2> QED
      BY <2>1 DEF Rising
  <1>6. \A a \in DOMAIN t : t[a] = x \/ (a \in DOMAIN s /\ t[a] = s[a])
    BY <1>1, <1>2, <1>3
  <1> QED
    BY <1>4, <1>5, <1>6 DEF t

(* The queue after one more motion (RealtimeQueues), which is later than   *)
(* all that admission took before it.                                      *)
LEMMA MotionQueued ==
    ASSUME Types, admission.epoch # 0, NEW class \in Classes, NEW s \in Seqs, s >= admission.rt,
           NEW q, q = ordinary, NEW r \in RealtimeQueues(class, s), r \in Seq(Items),
           NEW next \in Nat, MotionsInOrder(q, next, admission.rt)
    PROVE  MotionsInOrder(r, next, s + 1)
  <1> DEFINE end == admission.rt
             n == Len(q)
  <1>1. q \in Seq(Items) /\ n \in Nat /\ DOMAIN q = 1..n /\ end \in Nat /\ s \in Nat /\ end <= s /\ s + 1 \in Nat /\ end <= s + 1
        /\ next <= end
    BY Bounds DEF Types, QueueTypes, SessionTypes, MotionsInOrder
  <1> HIDE DEF end
  <1>2. MotionsInOrder(q, next, end)
    BY DEF end
  <1>3. /\ \A i \in 1..n : IsRealtime(q[i]) => Rising(q[i].seqs) /\ Within(q[i].seqs, next, end)
        /\ \A i, j \in 1..n : i < j /\ IsRealtime(q[i]) /\ IsRealtime(q[j]) => Before(q[i].seqs, q[j].seqs)
    BY <1>1, <1>2 DEF MotionsInOrder
  <1>4. \A i \in 1..n : IsRealtime(q[i]) => \A a \in DOMAIN q[i].seqs : q[i].seqs[a] \in Nat /\ q[i].seqs[a] < s
    <2> SUFFICES ASSUME NEW i \in 1..n, IsRealtime(q[i]), NEW a \in DOMAIN q[i].seqs
                 PROVE  q[i].seqs[a] \in Nat /\ q[i].seqs[a] < s
      OBVIOUS
    <2>1. q[i].seqs[a] \in Nat
      BY <1>1, FrameFacts
    <2>2. q[i].seqs[a] < end
      BY <1>3 DEF Within
    <2> QED
      BY <1>1, <2>1, <2>2
  (* A batch of this motion alone, or at the end of the last one.          *)
  <1>5. /\ Rising(<<s>>) /\ Within(<<s>>, next, s + 1)
        /\ \A i \in 1..n : IsRealtime(q[i]) => Before(q[i].seqs, <<s>>)
    <2>1. DOMAIN <<s>> = {1} /\ <<s>>[1] = s
      OBVIOUS
    <2> QED
      BY <1>1, <1>4, <2>1 DEF Rising, Within, Before
  <1>6. CASE r = q
    <2>1. \A i \in 1..n : IsRealtime(q[i]) => Within(q[i].seqs, next, s + 1)
      <3> SUFFICES ASSUME NEW i \in 1..n, IsRealtime(q[i]), NEW a \in DOMAIN q[i].seqs
                   PROVE  next <= q[i].seqs[a] /\ q[i].seqs[a] < s + 1
        BY DEF Within
      <3>1. next <= q[i].seqs[a]
        BY <1>3 DEF Within
      <3> QED
        BY <1>1, <1>4, <3>1
    <2>2. next <= s + 1
      BY <1>1
    <2> QED
      BY <1>1, <1>3, <1>6, <2>1, <2>2 DEF MotionsInOrder
  <1>7. CASE r = Append(q, RealtimeBatch(class, <<s>>))
    <2> DEFINE x == RealtimeBatch(class, <<s>>)
    <2>1. x \in Items /\ x.seqs = <<s>>
      <3>1. <<s>> \in Seq(Seqs) \ {<<>>}
        OBVIOUS
      <3> QED
        BY <3>1, FrameItems DEF RealtimeBatch, Work
    <2> HIDE DEF x
    <2>2. Len(r) = n + 1 /\ r[n + 1] = x /\ \A i \in 1..n : r[i] = q[i]
      BY <1>1, <1>7, <2>1, AppendProperties DEF x
    <2>3. IsRealtime(r[n + 1]) => Rising(r[n + 1].seqs) /\ Within(r[n + 1].seqs, next, s + 1)
                                  /\ \A i \in 1..n : IsRealtime(q[i]) => Before(q[i].seqs, r[n + 1].seqs)
      BY <1>5, <2>1, <2>2
    <2> QED
      BY <1>1, <1>2, <2>2, <2>3, MotionsGrow, SMTT(60), ZenonT(60)
  <1>8. ASSUME q # <<>>, IsRealtime(Last(q)), NEW seqs, r = [q EXCEPT ![n].seqs = seqs],
               seqs \in {<<s>>, Append(Last(q).seqs, s)}
        PROVE  MotionsInOrder(r, next, s + 1)
    <2>1. n \in 1..n /\ n - 1 \in Nat /\ (n - 1) + 1 = n /\ Last(q) = q[n] /\ q[n] \in Items /\ Last(q).seqs \in Seq(Seqs)
      <3>1. n \in Nat \ {0} /\ q[n] \in Items
        BY <1>1, <1>8, Ends
      <3> QED
        BY <3>1 DEF Last, Items, Works
    <2>2. Len(r) = n /\ r[n] = [q[n] EXCEPT !.seqs = seqs] /\ \A i \in 1..(n - 1) : r[i] = q[i]
      BY <1>1, <1>8, <2>1
    <2>3. r[n].seqs = seqs
      BY <2>1, <2>2 DEF Items, Works
    <2>4. /\ Rising(Append(q[n].seqs, s))
          /\ \A a \in DOMAIN Append(q[n].seqs, s) : Append(q[n].seqs, s)[a] = s
               \/ (a \in DOMAIN q[n].seqs /\ Append(q[n].seqs, s)[a] = q[n].seqs[a])
      <3>1. (\A a \in DOMAIN q[n].seqs : q[n].seqs[a] < s) /\ Rising(q[n].seqs)
        BY <1>3, <1>4, <1>8, <2>1
      <3>2. q[n].seqs \in Seq(Seqs)
        BY <2>1
      <3> QED
        BY <3>1, <3>2, RisingAppends, ZenonT(60), SMTT(60)
    <2>5. Within(Append(q[n].seqs, s), next, s + 1)
      <3> SUFFICES ASSUME NEW a \in DOMAIN Append(q[n].seqs, s)
                   PROVE  next <= Append(q[n].seqs, s)[a] /\ Append(q[n].seqs, s)[a] < s + 1
        BY DEF Within
      <3>1. CASE Append(q[n].seqs, s)[a] = s
        BY <1>1, <3>1
      <3>2. CASE a \in DOMAIN q[n].seqs /\ Append(q[n].seqs, s)[a] = q[n].seqs[a]
        <4>1. next <= q[n].seqs[a] /\ q[n].seqs[a] \in Nat /\ q[n].seqs[a] < s
          BY <1>3, <1>4, <1>8, <2>1, <3>2 DEF Within
        <4> QED
          BY <1>1, <3>2, <4>1, SMTT(60), ZenonT(60)
      <3> QED
        BY <2>4, <3>1, <3>2
    <2>6. \A i \in 1..(n - 1) : IsRealtime(q[i]) => Before(q[i].seqs, Append(q[n].seqs, s))
      <3> SUFFICES ASSUME NEW i \in 1..(n - 1), IsRealtime(q[i]), NEW a \in DOMAIN q[i].seqs,
                          NEW b \in DOMAIN Append(q[n].seqs, s)
                   PROVE  q[i].seqs[a] < Append(q[n].seqs, s)[b]
        BY DEF Before
      <3>1. i \in 1..n /\ i < n
        BY <1>1
      <3>2. CASE Append(q[n].seqs, s)[b] = s
        BY <1>4, <3>1, <3>2
      <3>3. CASE b \in DOMAIN q[n].seqs /\ Append(q[n].seqs, s)[b] = q[n].seqs[b]
        <4>1. Before(q[i].seqs, q[n].seqs)
          BY <1>3, <1>8, <2>1, <3>1
        <4> QED
          BY <3>3, <4>1 DEF Before
      <3> QED
        BY <2>4, <3>2, <3>3
    <2>7. \A i \in 1..(n - 1) : IsRealtime(q[i]) => Before(q[i].seqs, <<s>>)
      BY <1>1, <1>5
    <2>8. Rising(r[n].seqs) /\ Within(r[n].seqs, next, s + 1)
          /\ \A i \in 1..(n - 1) : IsRealtime(q[i]) => Before(q[i].seqs, r[n].seqs)
      BY <1>5, <1>8, <2>1, <2>3, <2>4, <2>5, <2>6, <2>7, ZenonT(60), SMTT(60)
    <2>9. PICK m \in Nat : m = n - 1
      BY <2>1
    <2>10. Len(r) = m + 1 /\ m + 1 = n /\ m <= n
      BY <1>1, <2>2, <2>9
    <2>11. /\ \A i \in 1..m : r[i] = q[i]
           /\ Rising(r[m + 1].seqs) /\ Within(r[m + 1].seqs, next, s + 1)
           /\ \A i \in 1..m : IsRealtime(q[i]) => Before(q[i].seqs, r[m + 1].seqs)
      BY <2>2, <2>8, <2>9, <2>10
    <2> QED
      BY <1>1, <1>2, <2>10, <2>11, MotionsGrow
  <1> QED
    BY <1>6, <1>7, <1>8 DEF RealtimeQueues

(* A worker that takes a frame in order leaves those behind it in order.   *)
TakenInOrder(w, r) ==
    /\ Rel(w) => /\ gate.rel \in {0, w.seqs[1]}
                 /\ RelsInOrder(r, w.seqs[1] + 1, admission.rel)
                 /\ MotionsInOrder(r, gate.rt, admission.rt)
    /\ IsRealtime(w) => /\ Rising(w.seqs) /\ w.seqs[1] >= gate.rt
                        /\ RelsInOrder(r, gate.rel, admission.rel)
                        /\ MotionsInOrder(r, Last(w.seqs) + 1, admission.rt)
    /\ Rel(w) \/ IsRealtime(w)
    /\ \E j \in DOMAIN ordinary : w.epoch = ordinary[j].epoch
    /\ \A i \in DOMAIN r : \E j \in DOMAIN ordinary : r[i].epoch = ordinary[j].epoch

LEMMA MotionsAfter ==
    ASSUME NEW r \in Seq(Items), NEW next, NEW next2, NEW end, MotionsInOrder(r, next, end), next2 <= end,
           \A i \in DOMAIN r : IsRealtime(r[i]) => \A a \in DOMAIN r[i].seqs : next2 <= r[i].seqs[a]
    PROVE  MotionsInOrder(r, next2, end)
  BY DEF MotionsInOrder, Within

LEMMA FrontInOrder ==
    ASSUME Types, NEW q, q = ordinary, NEW r \in Seq(Items), NEW w, FrontTaken(q, r, w),
           RelsInOrder(q, gate.rel, admission.rel), MotionsInOrder(q, gate.rt, admission.rt)
    PROVE  TakenInOrder(w, r)
  <1> DEFINE n == Len(q)
             end == admission.rt
  <1>1. /\ q \in Seq(Items) /\ n \in Nat \ {0} /\ DOMAIN q = 1..n /\ DOMAIN r = 1..(n - 1) /\ Len(r) = n - 1
        /\ w = q[1] /\ (\A i \in 1..(n - 1) : r[i] = q[i + 1]) /\ 1 \in 1..n
        /\ (\A i \in 1..n : q[i].type \in {"Realtime", "Reliable"})
    <2>1. q \in Seq(Items) /\ q # <<>> /\ \A i \in DOMAIN q : q[i].type \in {"Realtime", "Reliable"}
      BY DEF FrontTaken, Types, QueueTypes
    <2>2. n \in Nat \ {0}
      BY <2>1, Ends
    <2>3. w = q[1] /\ Len(r) = n - 1 /\ (\A i \in 1..(n - 1) : r[i] = q[i + 1])
      BY DEF FrontTaken
    <2> QED
      BY <2>1, <2>2, <2>3
  <1>2. end \in Nat /\ gate.rt \in Nat
    BY Bounds DEF Types, SessionTypes, WorkerTypes
  <1>3. /\ Rel(q[1]) => gate.rel \in {0, q[1].seqs[1]} /\ RelsInOrder(r, q[1].seqs[1] + 1, admission.rel)
        /\ ~Rel(q[1]) => RelsInOrder(r, gate.rel, admission.rel)
    <2>1. \A i \in 1..(1 - 1) : ~Rel(q[i]) /\ r[i] = q[i]
      OBVIOUS
    <2> QED
      BY <1>1, <2>1, RelsLeave
  <1>4. MotionsInOrder(r, gate.rt, end)
    <2> DEFINE m == [i \in 1..(n - 1) |-> i + 1]
    <2>1. m \in [1..Len(r) -> 1..n] /\ \A i \in 1..(n - 1) : m[i] = i + 1
      BY <1>1
    <2> HIDE DEF m
    <2>2. \A i \in 1..Len(r) : r[i] = q[m[i]]
      BY <1>1, <2>1
    <2>3. \A i, j \in 1..Len(r) : i < j => m[i] < m[j]
      BY <1>1, <2>1
    <2> QED
      BY <1>1, <1>2, <2>1, <2>2, <2>3, MotionsMoved, ZenonT(60), SMTT(60)
  <1>5. IsRealtime(w) => /\ Rising(w.seqs) /\ w.seqs[1] >= gate.rt
                         /\ MotionsInOrder(r, Last(w.seqs) + 1, end)
    <2> SUFFICES ASSUME IsRealtime(w)
                 PROVE  Rising(w.seqs) /\ w.seqs[1] >= gate.rt /\ MotionsInOrder(r, Last(w.seqs) + 1, end)
      OBVIOUS
    <2>1. Rising(q[1].seqs) /\ Within(q[1].seqs, gate.rt, end)
          /\ \A j \in 2..n : IsRealtime(q[j]) => Before(q[1].seqs, q[j].seqs)
      BY <1>1, SMTT(60), ZenonT(60) DEF MotionsInOrder
    <2>2. Len(q[1].seqs) \in Nat \ {0} /\ DOMAIN q[1].seqs = 1..Len(q[1].seqs)
          /\ \A a \in 1..Len(q[1].seqs) : q[1].seqs[a] \in Nat
      BY <1>1, FrameFacts
    <2> DEFINE last == q[1].seqs[Len(q[1].seqs)]
    <2>3. q[1].seqs[1] >= gate.rt /\ last \in Nat /\ last + 1 <= end
      <3>1. 1 \in DOMAIN q[1].seqs /\ Len(q[1].seqs) \in DOMAIN q[1].seqs
        BY <2>2
      <3>2. q[1].seqs[1] >= gate.rt /\ last < end
        BY <2>1, <3>1 DEF Within
      <3>3. last \in Nat
        BY <2>2
      <3> HIDE DEF last
      <3> QED
        BY <1>2, <3>2, <3>3
    <2>4. \A i \in DOMAIN r : IsRealtime(r[i]) => \A a \in DOMAIN r[i].seqs : last + 1 <= r[i].seqs[a]
      <3> SUFFICES ASSUME NEW i \in DOMAIN r, IsRealtime(r[i]), NEW a \in DOMAIN r[i].seqs
                   PROVE  last + 1 <= r[i].seqs[a]
        OBVIOUS
      <3>1. i + 1 \in 2..n /\ r[i] = q[i + 1] /\ i + 1 \in 1..n
        BY <1>1
      <3>2. Before(q[1].seqs, q[i + 1].seqs)
        BY <2>1, <3>1
      <3>3. last < r[i].seqs[a]
        BY <2>2, <3>1, <3>2, SMTT(60), ZenonT(60) DEF Before
      <3>4. r[i].seqs[a] \in Nat
        BY <1>1, FrameFacts
      <3> QED
        BY <2>3, <3>3, <3>4
    <2> HIDE DEF last
    <2>5. MotionsInOrder(r, last + 1, end)
      BY <1>4, <2>3, <2>4, MotionsAfter
    <2> QED
      BY <1>1, <2>1, <2>3, <2>5 DEF Last, last
  <1>6. /\ \E j \in DOMAIN q : w.epoch = q[j].epoch
        /\ \A i \in DOMAIN r : \E j \in DOMAIN q : r[i].epoch = q[j].epoch
    <2>1. \A i \in 1..(n - 1) : i + 1 \in 1..n
      BY <1>1
    <2> QED
      BY <1>1, <2>1
  <1> QED
    BY <1>1, <1>3, <1>4, <1>5, <1>6 DEF TakenInOrder, Rel, IsRealtime

LEMMA ButtonInOrder ==
    ASSUME Types, NEW q, q = ordinary, NEW r \in Seq(Items), NEW w, ButtonTaken(q, r, w),
           RelsInOrder(q, gate.rel, admission.rel), MotionsInOrder(q, gate.rt, admission.rt)
    PROVE  TakenInOrder(w, r)
  <1> DEFINE n == Len(q)
  <1>1. /\ q \in Seq(Items) /\ n \in Nat /\ n > 1 /\ DOMAIN q = 1..n /\ DOMAIN r = 1..(n - 1) /\ Len(r) = n - 1
        /\ w = q[2] /\ Rel(w) /\ ~Rel(q[1]) /\ r[1] = q[1] /\ (\A i \in 2..(n - 1) : r[i] = q[i + 1]) /\ 2 \in 1..n
    BY DEF ButtonTaken, Types, QueueTypes, Rel, IsRealtime
  <1>2. admission.rt \in Nat
    BY Bounds DEF Types, SessionTypes
  <1>3. gate.rel \in {0, q[2].seqs[1]} /\ RelsInOrder(r, q[2].seqs[1] + 1, admission.rel)
    <2>1. \A i \in 1..(2 - 1) : ~Rel(q[i]) /\ r[i] = q[i]
      BY <1>1
    <2> QED
      BY <1>1, <2>1, RelsLeave
  <1>4. MotionsInOrder(r, gate.rt, admission.rt)
    <2> DEFINE m == [i \in 1..(n - 1) |-> IF i = 1 THEN 1 ELSE i + 1]
    <2>1. m \in [1..Len(r) -> 1..n] /\ \A i \in 1..(n - 1) : m[i] = IF i = 1 THEN 1 ELSE i + 1
      BY <1>1
    <2> HIDE DEF m
    <2>2. \A i \in 1..Len(r) : r[i] = q[m[i]]
      BY <1>1, <2>1
    <2>3. \A i, j \in 1..Len(r) : i < j => m[i] < m[j]
      BY <1>1, <2>1
    <2> QED
      BY <1>1, <1>2, <2>1, <2>2, <2>3, MotionsMoved, ZenonT(60), SMTT(60)
  <1>5. /\ \E j \in DOMAIN q : w.epoch = q[j].epoch
        /\ \A i \in DOMAIN r : \E j \in DOMAIN q : r[i].epoch = q[j].epoch
    <2>1. \A i \in 1..(n - 1) : (i = 1 \/ i \in 2..(n - 1)) /\ i + 1 \in 1..n /\ 1 \in 1..n
      BY <1>1
    <2> QED
      BY <1>1, <2>1
  <1> QED
    BY <1>1, <1>3, <1>4, <1>5 DEF TakenInOrder, Rel, IsRealtime

LEMMA SplitInOrder ==
    ASSUME Types, NEW q, q = ordinary, NEW r \in Seq(Items), NEW w, NEW k, SplitTaken(q, r, w, k),
           RelsInOrder(q, gate.rel, admission.rel), MotionsInOrder(q, gate.rt, admission.rt)
    PROVE  TakenInOrder(w, r)
  <1> DEFINE n == Len(q)
             end == admission.rt
             s == q[1].seqs
             a == SubSeq(s, 1, k - 1)
             b == SubSeq(s, k, Len(s))
  <1>1. /\ q \in Seq(Items) /\ n \in Nat /\ n > 1 /\ DOMAIN q = 1..n /\ DOMAIN r = 1..n /\ Len(r) = n
        /\ IsRealtime(q[1]) /\ Rel(q[2]) /\ ~Rel(q[1]) /\ r[1] = q[2] /\ (\A i \in 3..n : r[i] = q[i])
        /\ k \in 2..Len(s) /\ 1 \in 1..n /\ 2 \in 1..n
        /\ w = [q[1] EXCEPT !.seqs = a] /\ r[2] = [q[1] EXCEPT !.seqs = b]
    BY DEF SplitTaken, Types, QueueTypes, Rel, IsRealtime
  <1>2. end \in Nat /\ gate.rt \in Nat
    BY Bounds DEF Types, SessionTypes, WorkerTypes
  <1>3. q[1] \in Items /\ s \in Seq(Seqs) /\ Len(s) \in Nat /\ DOMAIN s = 1..Len(s) /\ \A i \in 1..Len(s) : s[i] \in Nat
    BY <1>1, FrameFacts
  <1>4. /\ Len(a) = k - 1 /\ DOMAIN a = 1..(k - 1) /\ (\A i \in 1..(k - 1) : a[i] = s[i])
        /\ Len(b) = Len(s) - k + 1 /\ DOMAIN b = 1..(Len(s) - k + 1)
        /\ \A i \in 1..(Len(s) - k + 1) : b[i] = s[k + i - 1]
    <2>1. /\ a \in Seq(Seqs) /\ Len(a) = k - 1 /\ (\A i \in 1..(k - 1) : a[i] = s[i])
          /\ b \in Seq(Seqs) /\ Len(b) = Len(s) - k + 1
          /\ \A i \in 1..(Len(s) - k + 1) : b[i] = s[k + i - 1]
      <3>1. s \in Seq(Seqs) /\ k \in 2..Len(s)
        BY <1>1, <1>3
      <3> HIDE DEF s
      <3> QED
        BY <3>1, SeqParts, ZenonT(60), SMTT(60)
    <2> QED
      BY <2>1
  <1> HIDE DEF a, b
  <1>5. w.seqs = a /\ r[2].seqs = b /\ w.type = q[1].type /\ r[2].type = q[1].type
        /\ w.epoch = q[1].epoch /\ r[2].epoch = q[1].epoch
    BY <1>1, <1>3 DEF Items, Works
  <1>6. Rising(s) /\ Within(s, gate.rt, end)
        /\ \A j \in 2..n : IsRealtime(q[j]) => Before(s, q[j].seqs)
    BY <1>1 DEF MotionsInOrder
  <1>7. /\ \A j \in 3..n : IsRealtime(q[j]) => Rising(q[j].seqs) /\ Within(q[j].seqs, gate.rt, end)
        /\ \A i, j \in 3..n : i < j /\ IsRealtime(q[i]) /\ IsRealtime(q[j]) => Before(q[i].seqs, q[j].seqs)
    <2>1. \A i \in 3..n : i \in 1..n
      BY <1>1
    <2> QED
      BY <1>1, <2>1 DEF MotionsInOrder
  <1>8. RelsInOrder(r, gate.rel, admission.rel)
    <2>1. ~Rel(r[2])
      BY <1>1, <1>5 DEF Rel, IsRealtime
    <2> QED
      BY <1>1, <2>1, RelsPass
  (* The two parts of the batch.                                           *)
  <1>9. Rising(a) /\ a[1] >= gate.rt
    <2>1. \A i \in 1..(k - 1) : i \in 1..Len(s) /\ a[i] = s[i]
      BY <1>1, <1>3, <1>4
    <2>2. 1 \in 1..(k - 1)
      BY <1>1, <1>3
    <2> QED
      BY <1>2, <1>3, <1>4, <1>6, <2>1, <2>2 DEF Rising, Within
  <1> DEFINE last == s[k - 1]
  <1>10. Last(a) = last /\ last \in Nat /\ last + 1 <= end
    <2>1. k - 1 \in 1..(k - 1) /\ k - 1 \in 1..Len(s)
      BY <1>1, <1>3
    <2>2. Last(a) = last /\ last \in Nat /\ last < end
      BY <1>3, <1>4, <1>6, <2>1 DEF Last, Within
    <2> QED
      BY <1>2, <2>2
  <1>11. \A i \in 1..(Len(s) - k + 1) :
            k + i - 1 \in 1..Len(s) /\ b[i] = s[k + i - 1] /\ k - 1 < k + i - 1 /\ k - 1 \in 1..Len(s)
    <2>1. k \in 2..Len(s) /\ Len(s) \in Nat
      BY <1>1, <1>3
    <2> HIDE DEF s
    <2>2. \A i \in 1..(Len(s) - k + 1) : k + i - 1 \in 1..Len(s) /\ k - 1 < k + i - 1 /\ k - 1 \in 1..Len(s)
      BY <2>1
    <2> QED
      BY <1>4, <2>2
  <1>12. Rising(b) /\ Within(b, last + 1, end)
    <2>1. Rising(b)
      <3> SUFFICES ASSUME NEW i \in 1..(Len(s) - k + 1), NEW j \in 1..(Len(s) - k + 1), i < j
                   PROVE  b[i] < b[j]
        BY <1>4 DEF Rising
      <3>1. k + i - 1 < k + j - 1
        BY <1>1, <1>3
      <3> QED
        BY <1>3, <1>6, <1>11, <3>1 DEF Rising
    <2>2. ASSUME NEW i \in 1..(Len(s) - k + 1) PROVE last + 1 <= b[i] /\ b[i] < end
      <3>1. last < b[i]
        BY <1>3, <1>6, <1>11 DEF Rising
      <3>2. b[i] \in Nat /\ b[i] < end
        BY <1>3, <1>6, <1>11 DEF Within
      <3> QED
        BY <1>10, <3>1, <3>2
    <2> QED
      BY <1>4, <2>1, <2>2 DEF Within
  <1>13. \A j \in 3..n : IsRealtime(q[j]) => Within(q[j].seqs, last + 1, end) /\ Before(b, q[j].seqs)
    <2> SUFFICES ASSUME NEW j \in 3..n, IsRealtime(q[j]) PROVE Within(q[j].seqs, last + 1, end) /\ Before(b, q[j].seqs)
      OBVIOUS
    <2>1. j \in 1..n /\ j \in 2..n /\ Before(s, q[j].seqs) /\ Within(q[j].seqs, gate.rt, end)
      BY <1>1, <1>6, <1>7
    <2>2. \A c \in DOMAIN q[j].seqs : q[j].seqs[c] \in Nat /\ last < q[j].seqs[c] /\ q[j].seqs[c] < end
      <3>1. \A c \in DOMAIN q[j].seqs : q[j].seqs[c] \in Nat
        BY <1>1, <2>1, FrameFacts, ZenonT(60), SMTT(60)
      <3>2. k - 1 \in DOMAIN s
        BY <1>1, <1>3
      <3> QED
        BY <2>1, <3>1, <3>2 DEF Before, Within
    <2>3. Within(q[j].seqs, last + 1, end)
      BY <1>10, <2>2 DEF Within
    <2>4. Before(b, q[j].seqs)
      BY <1>3, <1>4, <1>11, <2>1 DEF Before
    <2> QED
      BY <2>3, <2>4
  <1> HIDE DEF last
  <1>14. MotionsInOrder(r, last + 1, end)
    <2>1. \A i \in 1..n : IsRealtime(r[i]) => i = 2 \/ (i \in 3..n /\ r[i] = q[i])
      BY <1>1 DEF Rel, IsRealtime
    <2>2. \A i \in 1..n : IsRealtime(r[i]) => Rising(r[i].seqs) /\ Within(r[i].seqs, last + 1, end)
      BY <1>5, <1>7, <1>12, <1>13, <2>1
    <2>3. ASSUME NEW i \in 1..n, NEW j \in 1..n, i < j, IsRealtime(r[i]), IsRealtime(r[j])
          PROVE  Before(r[i].seqs, r[j].seqs)
      <3>1. j \in 3..n /\ r[j] = q[j] /\ (i = 2 \/ (i \in 3..n /\ r[i] = q[i]))
        BY <1>1, <2>1, <2>3
      <3>2. CASE i = 2
        BY <1>5, <1>13, <2>3, <3>1, <3>2
      <3>3. CASE i \in 3..n /\ r[i] = q[i]
        BY <1>7, <2>3, <3>1, <3>3
      <3> QED
        BY <3>1, <3>2, <3>3
    <2> QED
      BY <1>1, <1>10, <2>2, <2>3 DEF MotionsInOrder
  <1>15. /\ \E j \in DOMAIN q : w.epoch = q[j].epoch
         /\ \A i \in DOMAIN r : \E j \in DOMAIN q : r[i].epoch = q[j].epoch
    <2>1. \A i \in 1..n : i = 1 \/ i = 2 \/ i \in 3..n
      BY <1>1
    <2>2. r[1].epoch = q[2].epoch /\ r[2].epoch = q[1].epoch /\ \A i \in 3..n : r[i].epoch = q[i].epoch
      BY <1>1, <1>5
    <2>3. 1 \in 1..n /\ 2 \in 1..n /\ \A i \in 3..n : i \in 1..n
      BY <1>1
    <2>4. w.epoch = q[1].epoch /\ DOMAIN q = 1..n /\ DOMAIN r = 1..n
      BY <1>1, <1>5
    <2>5. \A i \in 1..n : \E j \in 1..n : r[i].epoch = q[j].epoch
      BY <2>1, <2>2, <2>3
    <2>6. \E j \in DOMAIN q : w.epoch = q[j].epoch
      BY <2>3, <2>4
    <2>7. \A i \in DOMAIN r : \E j \in DOMAIN q : r[i].epoch = q[j].epoch
      <3> SUFFICES ASSUME NEW i \in DOMAIN r PROVE \E j \in DOMAIN q : r[i].epoch = q[j].epoch
        OBVIOUS
      <3>1. i \in 1..n
        BY <2>4
      <3>2. PICK j \in 1..n : r[i].epoch = q[j].epoch
        BY <2>5, <3>1
      <3>3. j \in DOMAIN q
        BY <2>4
      <3> QED
        BY <3>2, <3>3
    <2> QED
      BY <2>6, <2>7
  <1>16. IsRealtime(w) /\ ~Rel(w)
    BY <1>1, <1>5 DEF Rel, IsRealtime
  <1> QED
    BY <1>5, <1>8, <1>9, <1>10, <1>14, <1>15, <1>16 DEF TakenInOrder

-----------------------------------------------------------------------------
(* Admission and the gate.                                                 *)

(* What the worker holds is in order and passes its gate.                  *)
WorkPasses == AdmittedPassesGate /\ (work.type = "Realtime" => Rising(work.seqs))
Serving == admission.open /\ ~shutdown

LEMMA OverMatches ==
    ASSUME ordinary' = <<>>, ~Serving', WorkPasses'
    PROVE  MatchInv'
  BY DEF Serving, MatchInv, Told, AdmissionMatchesGate, ClosedSessionPurged, InOrder, WorkPasses

LEMMA KeptMatches ==
    ASSUME MatchInv, UNCHANGED <<ordinary, shutdown>>,
           admission'.open = admission.open, admission'.epoch = admission.epoch,
           admission'.rel = admission.rel, admission'.rt = admission.rt,
           Told', Serving => NextRel' = NextRel /\ NextRt' = NextRt, WorkPasses'
    PROVE  MatchInv'
  <1>1. InOrder'
    BY DEF MatchInv, InOrder, Serving
  <1>2. ClosedSessionPurged'
    BY DEF MatchInv, AdmissionMatchesGate, ClosedSessionPurged
  <1> QED
    BY <1>1, <1>2 DEF MatchInv, AdmissionMatchesGate, WorkPasses

LEMMA WorkStays ==
    ASSUME MatchInv, UNCHANGED <<work, gate>>
    PROVE  WorkPasses'
  BY DEF MatchInv, AdmissionMatchesGate, AdmittedPassesGate, GateAccepts, InSession, WorkPasses

LEMMA NoFrame ==
    ASSUME work'.type \notin {"Realtime", "Reliable"}
    PROVE  WorkPasses'
  BY DEF WorkPasses, AdmittedPassesGate

LEMMA SameMatches ==
    ASSUME MatchInv, UNCHANGED <<controls, releaseAll, ordinary, shutdown, work, gate>>,
           admission'.open = admission.open, admission'.epoch = admission.epoch,
           admission'.rel = admission.rel, admission'.rt = admission.rt
    PROVE  MatchInv'
  <1>1. Told'
    BY DEF MatchInv, Told, Begins
  <1>2. NextRel' = NextRel /\ NextRt' = NextRt
    BY DEF NextRel, NextRt, Pending
  <1> QED
    BY <1>1, <1>2, KeptMatches, WorkStays

LEMMA BeginMatches ==
    ASSUME Types, Types', MatchInv, NEW o \in Owners, NEW e \in 1..EpochMax, BeginSession(o, e)
    PROVE  MatchInv'
  <1> DEFINE x == Simple("Close", admission.epoch)
             y == Simple("Begin", e)
             q == controls \o (IF admission.open THEN <<x>> ELSE <<>>)
  <1>1. /\ controls' = q \o <<y>> /\ ordinary' = <<>> /\ UNCHANGED <<work, gate>>
        /\ admission'.epoch = e /\ admission'.rel = 0 /\ admission'.rt = 0
        /\ admission'.open /\ ~shutdown'
    BY DEF BeginSession, NoSession, workerVars
  <1>2. x \in Items /\ y \in Items /\ y.type = "Begin" /\ y.epoch = e
    BY SimpleItems, Bounds DEF Types, SessionTypes, WorkTypes
  <1> HIDE DEF x, y
  <1>3. q \in Seq(Items) /\ <<y>> \in Seq(Items) /\ Len(<<y>>) = 1 /\ <<y>>[1] = y
    <2>1. controls \in Seq(Items)
      BY DEF Types, QueueTypes
    <2> QED
      BY <1>2, <2>1
  <1> HIDE DEF q
  <1>4. controls' # <<>> /\ Last(controls') = y
    <2>1. q \o <<y>> = Append(q, y)
      BY <1>2, <1>3, AppendIsConcat
    <2>2. Len(Append(q, y)) = Len(q) + 1 /\ Append(q, y)[Len(q) + 1] = y /\ Len(q) \in Nat
      BY <1>2, <1>3, AppendProperties
    <2>3. Len(controls') = Len(q) + 1 /\ controls'[Len(q) + 1] = y
      BY <1>1, <2>1, <2>2
    <2>4. controls' # <<>>
      BY <2>2, <2>3, EmptySeq
    <2> QED
      BY <2>3, <2>4 DEF Last
  <1>5. Told'
    BY <1>1, <1>2, <1>4 DEF Told, Begins, Last
  <1>6. NextRel' = 0 /\ NextRt' = 0
    BY <1>4 DEF NextRel, NextRt, Pending
  <1>7. RelsInOrder(<<>>, 0, 0) /\ MotionsInOrder(<<>>, 0, 0)
    <2>1. DOMAIN <<>> = {}
      OBVIOUS
    <2> QED
      BY <2>1 DEF RelsInOrder, MotionsInOrder
  <1>8. InOrder'
    BY <1>1, <1>6, <1>7 DEF InOrder
  <1>9. ClosedSessionPurged' /\ WorkPasses'
    BY <1>1, WorkStays DEF ClosedSessionPurged
  <1> QED
    BY <1>5, <1>8, <1>9 DEF MatchInv, AdmissionMatchesGate, WorkPasses

LEMMA NextNumbers ==
    ASSUME Types
    PROVE  NextRel \in Nat /\ NextRt \in Nat
  <1>1. gate.rel \in Nat /\ gate.rt \in Nat /\ work \in Items
    BY Bounds DEF Types, WorkerTypes
  <1>2. work.type \in {"Realtime", "Reliable"} => work.seqs[1] \in Nat /\ Last(work.seqs) \in Nat
    <2>1. work.seqs \in Seq(Seqs) /\ (work.type \in {"Realtime", "Reliable"} => work.seqs # <<>>)
      BY <1>1 DEF Items, Works, Fitting
    <2>2. \A s \in Seqs : s \in Nat
      BY Bounds
    <2> QED
      BY <2>1, <2>2, Ends DEF Last
  <1> QED
    BY <1>1, <1>2 DEF NextRel, NextRt

LEMMA RealtimeMatches ==
    ASSUME Types, Types', MatchInv, NEW o \in Owners, NEW e \in 1..EpochMax, NEW class \in Classes, NEW s \in Seqs,
           SubmitRealtime(o, e, class, s)
    PROVE  MatchInv'
  <1>1. /\ admission.open /\ ~shutdown /\ s >= admission.rt /\ admission.epoch # 0
        /\ admission' = [admission EXCEPT !.rt = s + 1, !.due = FALSE]
        /\ ordinary' \in RealtimeQueues(class, s)
        /\ UNCHANGED <<controls, releaseAll, shutdown, work, gate>>
    BY DEF SubmitRealtime, From, Types, SessionTypes, workerVars
  <1>2. admission'.rt = s + 1 /\ admission'.rel = admission.rel /\ admission'.epoch = admission.epoch
        /\ admission'.open = admission.open
    BY <1>1 DEF Types, SessionTypes
  <1>3. ordinary \in Seq(Items) /\ ordinary' \in Seq(Items) /\ NextRel \in Nat /\ NextRt \in Nat
    BY NextNumbers DEF Types, QueueTypes
  <1>4. RelsInOrder(ordinary, NextRel, admission.rel) /\ MotionsInOrder(ordinary, NextRt, admission.rt)
    BY <1>1 DEF MatchInv, InOrder
  <1>5. MotionsInOrder(ordinary', NextRt, s + 1)
    BY <1>1, <1>3, <1>4, MotionQueued
  <1>6. /\ RelsInOrder(ordinary', NextRel, admission.rel)
        /\ \A i \in DOMAIN ordinary' : ordinary'[i].epoch = admission.epoch
    <2>1. \A i \in DOMAIN ordinary : ordinary[i].epoch = admission.epoch
      BY DEF MatchInv, AdmissionMatchesGate, ClosedSessionPurged
    <2>2. CASE ordinary' = ordinary
      BY <1>4, <2>1, <2>2
    <2>3. CASE ordinary' = Append(ordinary, RealtimeBatch(class, <<s>>))
      <3> DEFINE x == RealtimeBatch(class, <<s>>)
      <3>1. x \in Items /\ ~Rel(x) /\ x.epoch = admission.epoch
        <4>1. <<s>> \in Seq(Seqs) \ {<<>>}
          OBVIOUS
        <4> QED
          BY <1>1, <4>1, FrameItems DEF RealtimeBatch, Work, Rel
      <3>2. ordinary' = Append(ordinary, x)
        BY <2>3
      <3> HIDE DEF x
      <3>3. RelsInOrder(ordinary', NextRel, admission.rel)
        BY <1>3, <1>4, <3>1, <3>2, MotionBehindRels
      <3>4. \A i \in DOMAIN ordinary' : ordinary'[i].epoch = admission.epoch
        BY <1>3, <2>1, <3>1, <3>2, AppendProperties
      <3> QED
        BY <3>3, <3>4
    <2>4. ASSUME ordinary # <<>>, IsRealtime(Last(ordinary)), NEW seqs,
                 ordinary' = [ordinary EXCEPT ![Len(ordinary)].seqs = seqs]
          PROVE  RelsInOrder(ordinary', NextRel, admission.rel)
                 /\ \A i \in DOMAIN ordinary' : ordinary'[i].epoch = admission.epoch
      <3>1. Len(ordinary') = Len(ordinary) /\ Len(ordinary) \in 1..Len(ordinary)
            /\ ordinary[Len(ordinary)] \in Items
        BY <1>3, <2>4, Ends
      <3>2. ordinary'[Len(ordinary)] = [ordinary[Len(ordinary)] EXCEPT !.seqs = seqs]
            /\ \A i \in 1..Len(ordinary) : i # Len(ordinary) => ordinary'[i] = ordinary[i]
        BY <1>3, <2>4, <3>1
      <3>3. /\ ordinary'[Len(ordinary)].type = "Realtime" /\ ordinary[Len(ordinary)].type = "Realtime"
            /\ ordinary'[Len(ordinary)].epoch = ordinary[Len(ordinary)].epoch
        BY <2>4, <3>1, <3>2 DEF Last, IsRealtime, Items, Works
      <3>4. \A i \in 1..Len(ordinary) : (Rel(ordinary'[i]) <=> Rel(ordinary[i]))
                                       /\ (Rel(ordinary[i]) => ordinary'[i] = ordinary[i])
        BY <3>2, <3>3 DEF Rel
      <3>5. RelsInOrder(ordinary', NextRel, admission.rel)
        BY <1>3, <1>4, <3>1, <3>4, RelsUntouched
      <3>6. \A i \in 1..Len(ordinary) : ordinary'[i].epoch = ordinary[i].epoch
        BY <3>2, <3>3
      <3> QED
        BY <1>3, <2>1, <3>1, <3>5, <3>6
    <2> QED
      BY <1>1, <2>2, <2>3, <2>4 DEF RealtimeQueues
  <1>7. NextRel' = NextRel /\ NextRt' = NextRt
    BY <1>1 DEF NextRel, NextRt, Pending
  <1>8. InOrder' /\ ClosedSessionPurged'
    BY <1>1, <1>2, <1>5, <1>6, <1>7 DEF InOrder, ClosedSessionPurged
  <1>9. Told'
    BY <1>1, <1>2 DEF MatchInv, Told, Begins
  <1> QED
    BY <1>1, <1>8, <1>9, WorkStays DEF MatchInv, AdmissionMatchesGate, WorkPasses

LEMMA ReliableMatches ==
    ASSUME Types, Types', MatchInv, NEW o \in Owners, NEW e \in 1..EpochMax, NEW kind \in {"Press", "Release", "Other"},
           NEW s \in Seqs, NEW c \in Controls \cup {None}, kind # "Other" => c # None, NEW a \in Seqs,
           SubmitReliable(o, e, kind, s, c, a)
    PROVE  MatchInv'
  <1> DEFINE x == ReliableFrame(kind, s, c, a)
  <1>1. /\ admission.open /\ ~shutdown /\ Follows(s) /\ admission.epoch # 0
        /\ admission' = [admission EXCEPT !.rel = s + 1, !.due = FALSE]
        /\ ordinary' = Append(ordinary, x)
        /\ UNCHANGED <<controls, releaseAll, shutdown, work, gate>>
    BY DEF SubmitReliable, From, Types, SessionTypes, workerVars
  <1>2. admission'.rel = s + 1 /\ admission'.rt = admission.rt /\ admission'.epoch = admission.epoch
        /\ admission'.open = admission.open
    BY <1>1 DEF Types, SessionTypes
  <1>3. /\ ordinary \in Seq(Items) /\ ordinary' \in Seq(Items) /\ NextRel \in Nat /\ NextRt \in Nat
        /\ admission.rel \in Nat /\ admission.rt \in Nat /\ Len(ordinary) \in Nat
    BY NextNumbers, Bounds DEF Types, QueueTypes, SessionTypes
  <1>4. x \in Items
    BY <1>1, FrameItems
  <1>5. Rel(x) /\ ~IsRealtime(x) /\ x.epoch = admission.epoch /\ x.seqs[1] = s
    BY DEF ReliableFrame, Work, Rel, IsRealtime
  <1> HIDE DEF x
  <1>6. RelsInOrder(ordinary, NextRel, admission.rel) /\ MotionsInOrder(ordinary, NextRt, admission.rt)
    BY <1>1 DEF MatchInv, InOrder
  <1>7. RelsInOrder(ordinary', NextRel, s + 1)
    BY <1>1, <1>3, <1>4, <1>5, <1>6, ReliableQueued DEF Follows
  <1>8. /\ Len(ordinary') = Len(ordinary) + 1 /\ DOMAIN ordinary' = 1..(Len(ordinary) + 1)
        /\ ordinary'[Len(ordinary) + 1] = x /\ \A i \in 1..Len(ordinary) : ordinary'[i] = ordinary[i]
    BY <1>1, <1>3, <1>4, AppendProperties
  <1>9. MotionsInOrder(ordinary', NextRt, admission.rt)
    <2>1. Len(ordinary) <= Len(ordinary) /\ admission.rt <= admission.rt /\ ~IsRealtime(ordinary'[Len(ordinary) + 1])
      BY <1>3, <1>5, <1>8
    <2> QED
      BY <1>3, <1>6, <1>8, <2>1, MotionsGrow
  <1>10. \A i \in DOMAIN ordinary' : ordinary'[i].epoch = admission.epoch
    <2>1. \A i \in 1..Len(ordinary) : ordinary[i].epoch = admission.epoch
      BY <1>3 DEF MatchInv, AdmissionMatchesGate, ClosedSessionPurged
    <2> QED
      BY <1>3, <1>5, <1>8, <2>1
  <1>11. NextRel' = NextRel /\ NextRt' = NextRt
    BY <1>1 DEF NextRel, NextRt, Pending
  <1>12. InOrder' /\ ClosedSessionPurged'
    BY <1>1, <1>2, <1>7, <1>9, <1>10, <1>11 DEF InOrder, ClosedSessionPurged
  <1>13. Told'
    BY <1>1, <1>2 DEF MatchInv, Told, Begins
  <1> QED
    BY <1>1, <1>12, <1>13, WorkStays DEF MatchInv, AdmissionMatchesGate, WorkPasses

LEMMA ProducersMatch ==
    ASSUME Types, Types', MatchInv, Producers
    PROVE  MatchInv'
  <1>1. UNCHANGED <<work, gate>> /\ WorkPasses'
    BY ProducersKeepWorker, WorkStays DEF workerVars
  <1>2. CASE Closes
    <2>1. CASE admission.open
      <3>1. ordinary' = <<>> /\ ~admission'.open
        BY <1>2, <2>1 DEF Closes, CloseAdmission, Types, SessionTypes
      <3> QED
        BY <1>1, <3>1, OverMatches DEF Serving
    <2>2. CASE ~admission.open
      BY <1>1, <1>2, <2>2, SameMatches DEF Closes, CloseAdmission
    <2> QED
      BY <2>1, <2>2
  <1>3. CASE Submits
    BY <1>3, BeginMatches, RealtimeMatches, ReliableMatches DEF Submits
  <1>4. CASE RequestReleaseAllSources
    <2>1. ordinary' = <<>> /\ ~admission'.open
      BY <1>4 DEF RequestReleaseAllSources, Types, SessionTypes
    <2> QED
      BY <1>1, <2>1, OverMatches DEF Serving
  <1>5. CASE Shutdown
    BY <1>1, <1>5, OverMatches DEF Serving, Shutdown
  <1>6. CASE LeaseElapses
    <2>1. /\ UNCHANGED <<controls, releaseAll, ordinary, shutdown>>
          /\ admission'.open = admission.open /\ admission'.epoch = admission.epoch
          /\ admission'.rel = admission.rel /\ admission'.rt = admission.rt
      BY <1>6 DEF LeaseElapses, Types, SessionTypes
    <2> QED
      BY <1>1, <2>1, SameMatches
  <1>7. ASSUME NEW c, NEW kind, InjectTrustedLocal(kind, c) PROVE MatchInv'
    BY <1>1, <1>7, SameMatches DEF InjectTrustedLocal
  <1> QED
    BY <1>2, <1>3, <1>4, <1>5, <1>6, <1>7, ProducersDo

LEMMA TakenMatches ==
    ASSUME Types, Types', MatchInv, TakeOrdinary
    PROVE  MatchInv'
  <1>1. /\ ordinary # <<>> /\ controls = <<>> /\ ~releaseAll /\ work = Idle
        /\ UNCHANGED <<admission, controls, releaseAll, shutdown, gate>>
    BY DEF TakeOrdinary, NoRelease, MayTake, workerVars
  <1>2. admission.open /\ ~shutdown /\ admission.epoch # 0
        /\ \A i \in DOMAIN ordinary : ordinary[i].epoch = admission.epoch
    BY <1>1 DEF MatchInv, AdmissionMatchesGate, ClosedSessionPurged, Types, SessionTypes
  <1>3. gate.epoch = admission.epoch /\ NextRel = gate.rel /\ NextRt = gate.rt
    BY <1>1, <1>2, NotExited DEF MatchInv, Told, Begins, NextRel, NextRt, Pending
  <1>4. RelsInOrder(ordinary, gate.rel, admission.rel) /\ MotionsInOrder(ordinary, gate.rt, admission.rt)
    BY <1>2, <1>3 DEF MatchInv, InOrder
  <1>5. PICK q, r, w : q = ordinary /\ r = ordinary' /\ w = work'
    OBVIOUS
  <1>6. r \in Seq(Items) /\ (\/ FrontTaken(q, r, w) \/ ButtonTaken(q, r, w)
                             \/ \E k \in 2..Len(q[1].seqs) : SplitTaken(q, r, w, k))
    BY <1>5, OrdinaryTaken
  <1>7. TakenInOrder(w, r)
    BY <1>4, <1>5, <1>6, FrontInOrder, ButtonInOrder, SplitInOrder
  <1>8. w.epoch = gate.epoch /\ \A i \in DOMAIN r : r[i].epoch = admission.epoch
    BY <1>2, <1>3, <1>7 DEF TakenInOrder
  <1>9. /\ Rel(w) => gate.rel \in {0, w.seqs[1]} /\ RelsInOrder(r, w.seqs[1] + 1, admission.rel)
                     /\ MotionsInOrder(r, gate.rt, admission.rt)
        /\ IsRealtime(w) => /\ Rising(w.seqs) /\ w.seqs[1] >= gate.rt
                            /\ RelsInOrder(r, gate.rel, admission.rel)
                            /\ MotionsInOrder(r, Last(w.seqs) + 1, admission.rt)
        /\ Rel(w) \/ IsRealtime(w)
    BY <1>7 DEF TakenInOrder
  <1>10. WorkPasses'
    BY <1>1, <1>2, <1>3, <1>5, <1>8, <1>9
       DEF WorkPasses, AdmittedPassesGate, GateAccepts, InSession, Rel, IsRealtime, Last
  <1>11. Told'
    BY <1>1, <1>3, <1>5, <1>9 DEF Told, Begins, Rel, IsRealtime
  <1>12. /\ NextRel' = IF Rel(w) THEN w.seqs[1] + 1 ELSE gate.rel
         /\ NextRt' = IF IsRealtime(w) THEN Last(w.seqs) + 1 ELSE gate.rt
    BY <1>1, <1>5, <1>9 DEF NextRel, NextRt, Pending, Rel, IsRealtime, Last
  <1>13. RelsInOrder(r, NextRel', admission.rel) /\ MotionsInOrder(r, NextRt', admission.rt)
    BY <1>9, <1>12 DEF Rel, IsRealtime
  <1>14. InOrder'
    BY <1>1, <1>5, <1>13 DEF InOrder
  <1>15. ClosedSessionPurged'
    BY <1>1, <1>2, <1>5, <1>8 DEF ClosedSessionPurged
  <1> QED
    BY <1>10, <1>11, <1>14, <1>15 DEF MatchInv, AdmissionMatchesGate, WorkPasses

LEMMA TakeMatches ==
    ASSUME Types, Types', MatchInv, Take
    PROVE  MatchInv'
  <1>1. work = Idle /\ work.type = "Idle" /\ UNCHANGED gate
    BY TakenTypes, NotExited DEF workerVars
  <1>2. ~Serving => ordinary = <<>>
    BY DEF MatchInv, AdmissionMatchesGate, ClosedSessionPurged, Serving
  <1>3. Serving => \/ controls # <<>> /\ Begins(Last(controls))
                   \/ controls = <<>> /\ ~releaseAll /\ gate.epoch = admission.epoch
    BY <1>1 DEF MatchInv, Told, Begins, Serving
  <1>4. CASE TakeShutdown
    <2>1. work'.type = "Shutdown" /\ shutdown /\ UNCHANGED <<ordinary, shutdown>>
      BY <1>4 DEF TakeShutdown, Simple, Work, queueVars
    <2> QED
      BY <1>2, <2>1, NoFrame, OverMatches DEF Serving
  <1>5. CASE TakeReleaseAllSources
    <2>1. work'.type = "ReleaseAllSources" /\ releaseAll /\ UNCHANGED <<admission, controls, ordinary, shutdown>>
      BY <1>5 DEF TakeReleaseAllSources, Simple, Work
    <2>2. Told'
      BY <1>3, <2>1 DEF Told, Begins, Serving
    <2>3. Serving => NextRel' = NextRel /\ NextRt' = NextRt
      BY <1>3, <2>1 DEF NextRel, NextRt, Pending
    <2> QED
      BY <2>1, <2>2, <2>3, NoFrame, KeptMatches
  <1>6. CASE TakeControl
    <2>1. /\ work' = Head(controls) /\ controls' = Tail(controls) /\ controls # <<>> /\ ~releaseAll
          /\ UNCHANGED <<admission, releaseAll, ordinary, shutdown>>
      BY <1>6 DEF TakeControl, NoRelease
    <2>2. /\ controls \in Seq(Items) /\ Len(controls) \in Nat \ {0} /\ Head(controls) = controls[1]
          /\ Len(controls') = Len(controls) - 1 /\ Len(controls') \in Nat
          /\ \A i \in 1..(Len(controls) - 1) : controls'[i] = controls[i + 1]
          /\ work'.type \in {"Begin", "Close"}
      <3>1. controls \in Seq(Items) /\ \A i \in DOMAIN controls : controls[i].type \in {"Begin", "Close"}
        BY DEF Types, QueueTypes
      <3>2. Len(controls) \in Nat \ {0} /\ Head(controls) = controls[1]
        BY <2>1, <3>1, Ends
      <3> QED
        BY <2>1, <3>1, <3>2, HeadTailProperties
    <2>3. controls' # <<>> => Last(controls') = Last(controls)
      <3> SUFFICES ASSUME controls' # <<>> PROVE Last(controls') = Last(controls)
        OBVIOUS
      <3>1. Len(controls') # 0
        BY <2>1, <2>2, EmptySeq, ZenonT(60), SMTT(60) DEF Types, QueueTypes
      <3>2. controls'[Len(controls) - 1] = controls[(Len(controls) - 1) + 1] /\ (Len(controls) - 1) + 1 = Len(controls)
        BY <2>2, <3>1
      <3> QED
        BY <2>2, <3>2 DEF Last
    <2>4. controls' = <<>> => Last(controls) = work'
      <3> SUFFICES ASSUME controls' = <<>> PROVE Last(controls) = work'
        OBVIOUS
      <3>1. Len(controls') = 0
        OBVIOUS
      <3>2. Len(controls) = 1
        BY <2>2, <3>1
      <3> QED
        BY <2>1, <2>2, <3>2 DEF Last
    <2>5. Told'
      BY <1>3, <2>1, <2>3, <2>4 DEF Told, Begins, Serving, Last
    <2>6. Serving => controls' # <<>> \/ work'.type = "Begin"
      BY <1>3, <2>1, <2>4 DEF Begins
    <2>7. Serving => NextRel' = NextRel /\ NextRt' = NextRt
      BY <2>1, <2>6 DEF NextRel, NextRt, Pending
    <2>8. work'.type \notin {"Realtime", "Reliable"}
      BY <2>2
    <2> QED
      BY <2>1, <2>5, <2>7, <2>8, NoFrame, KeptMatches
  <1>7. CASE TakeLeaseExpired
    <2>1. ordinary' = <<>> /\ ~admission'.open /\ work'.type = "Close"
      BY <1>7 DEF TakeLeaseExpired, Simple, Work, Types, SessionTypes
    <2> QED
      BY <2>1, NoFrame, OverMatches DEF Serving
  <1>8. CASE TakeTrusted
    <2>1. /\ work' = Head(trusted) /\ trusted # <<>> /\ controls = <<>> /\ ~releaseAll
          /\ UNCHANGED <<admission, controls, releaseAll, ordinary, shutdown>>
      BY <1>8 DEF TakeTrusted, MayTakeTrusted, NoRelease
    <2>2. work'.type = "TrustedLocal"
      <3>1. trusted \in Seq(Items) /\ \A i \in DOMAIN trusted : trusted[i].type \in {"TrustedLocal"}
        BY DEF Types, QueueTypes
      <3> QED
        BY <2>1, <3>1, QueuesTaken
    <2>3. Told'
      BY <1>1, <1>3, <2>1, <2>2 DEF Told, Begins, Serving
    <2>4. NextRel' = NextRel /\ NextRt' = NextRt
      BY <1>1, <2>1, <2>2 DEF NextRel, NextRt, Pending
    <2> QED
      BY <2>1, <2>2, <2>3, <2>4, NoFrame, KeptMatches
  <1> QED
    BY <1>4, <1>5, <1>6, <1>7, <1>8, TakenMatches DEF Take

(* What leaves the queues alone, and tells the worker nothing.             *)
LEMMA WaitingMatches ==
    ASSUME MatchInv, UNCHANGED <<admission, controls, releaseAll, ordinary, shutdown>>,
           work'.type \in {"Idle", "Exited"},
           Serving => controls # <<>>
    PROVE  MatchInv'
  <1>1. Serving => Begins(Last(controls))
    BY DEF MatchInv, Told, Serving
  <1>2. Told'
    BY <1>1 DEF Told, Begins, Serving
  <1>3. Serving => NextRel' = NextRel /\ NextRt' = NextRt
    BY DEF NextRel, NextRt, Pending
  <1> QED
    BY <1>2, <1>3, NoFrame, KeptMatches

LEMMA FailedMatches ==
    ASSUME Types, MatchInv, work.type \in {"Realtime", "Reliable"}, NEW f, FailSession(f),
           UNCHANGED <<controls, releaseAll, shutdown>>, work' = Idle
    PROVE  MatchInv'
  <1>1. CASE admission.open /\ admission.epoch = gate.epoch
    <2>1. ordinary' = <<>> /\ ~admission'.open
      BY <1>1 DEF FailSession, Types, SessionTypes
    <2> QED
      BY <2>1, NotExited, NoFrame, OverMatches DEF Serving
  <1>2. CASE ~(admission.open /\ admission.epoch = gate.epoch)
    <2>1. UNCHANGED <<admission, ordinary>>
      BY <1>2 DEF FailSession
    <2>2. Serving => controls # <<>>
      BY <1>2 DEF MatchInv, Told, Begins, Serving
    <2> QED
      BY <2>1, <2>2, NotExited, WaitingMatches
  <1> QED
    BY <1>1, <1>2

LEMMA ExecuteMatches ==
    ASSUME Types, Types', MatchInv, Execute
    PROVE  MatchInv'
  <1>1. gate \in [epoch : 0..EpochMax, rt : 0..(SeqMax + 1), rel : 0..(SeqMax + 1)] /\ work \in Items
    BY DEF Types, WorkerTypes
  <1>2. Serving => \/ controls # <<>> /\ Begins(Last(controls))
                   \/ controls = <<>> /\ ~releaseAll /\ Begins(work)
                   \/ /\ controls = <<>> /\ ~releaseAll /\ gate.epoch = admission.epoch
                      /\ work.type \in {"Idle", "TrustedLocal", "Realtime", "Reliable"}
    BY DEF MatchInv, Told, Serving
  <1>3. CASE ExecuteShutdown \/ ExecuteReleaseAllSources \/ ExecuteClose
    <2>1. /\ work.type \in {"Shutdown", "ReleaseAllSources", "Close"}
          /\ UNCHANGED <<admission, controls, releaseAll, ordinary, shutdown>>
          /\ work'.type \in {"Idle", "Exited"}
      BY <1>3, NotExited
         DEF ExecuteShutdown, ExecuteReleaseAllSources, ExecuteClose, QueuesUnchanged, queueVars, Done
    <2>2. Serving => controls # <<>>
      BY <1>2, <2>1 DEF Begins
    <2> QED
      BY <2>1, <2>2, WaitingMatches
  <1>4. CASE ExecuteBegin
    <2>1. /\ work.type = "Begin" /\ UNCHANGED <<admission, controls, releaseAll, ordinary, shutdown>>
          /\ work'.type = "Idle" /\ gate'.epoch = work.epoch /\ gate'.rel = 0 /\ gate'.rt = 0
      BY <1>4, NotExited DEF ExecuteBegin, QueuesUnchanged, queueVars, Done, NoGate
    <2>2. Told'
      BY <1>2, <2>1 DEF Told, Begins, Serving
    <2>3. NextRel' = NextRel /\ NextRt' = NextRt
      BY <2>1 DEF NextRel, NextRt, Pending
    <2> QED
      BY <2>1, <2>2, <2>3, NoFrame, KeptMatches
  <1>5. CASE ExecuteTrusted
    <2>1. /\ work.type = "TrustedLocal" /\ UNCHANGED <<admission, controls, releaseAll, ordinary, shutdown, gate>>
          /\ work'.type = "Idle"
      BY <1>5, NotExited DEF ExecuteTrusted, queueVars, Done
    <2>2. Told'
      BY <1>2, <2>1 DEF Told, Begins, Serving
    <2>3. NextRel' = NextRel /\ NextRt' = NextRt
      BY <2>1 DEF NextRel, NextRt, Pending
    <2> QED
      BY <2>1, <2>2, <2>3, NoFrame, KeptMatches
  <1>6. CASE ExecuteRealtime
    <2>1. work.type = "Realtime" /\ work' = Idle /\ UNCHANGED <<controls, releaseAll, shutdown>>
      BY <1>6 DEF ExecuteRealtime, Done
    (* Its last frame is as late as its first.                             *)
    <2>2. InSession /\ Last(work.seqs) >= gate.rt
      <3>1. InSession /\ work.seqs[1] >= gate.rt /\ Rising(work.seqs)
        BY <2>1 DEF MatchInv, AdmissionMatchesGate, AdmittedPassesGate
      <3>2. work.seqs \in Seq(Seqs) /\ work.seqs # <<>>
        BY <1>1, <2>1 DEF Items, Works, Fitting
      <3>3. Len(work.seqs) \in Nat \ {0} /\ DOMAIN work.seqs = 1..Len(work.seqs)
            /\ work.seqs[1] \in Nat /\ work.seqs[Len(work.seqs)] \in Nat
        <4>1. Len(work.seqs) \in Nat \ {0} /\ work.seqs[1] \in Seqs /\ work.seqs[Len(work.seqs)] \in Seqs
          BY <3>2, Ends
        <4> QED
          BY <3>2, <4>1, Bounds
      <3>4. work.seqs[Len(work.seqs)] >= work.seqs[1]
        <4>1. CASE Len(work.seqs) = 1
          BY <3>3, <4>1
        <4>2. CASE Len(work.seqs) # 1
          <5>1. 1 < Len(work.seqs) /\ 1 \in DOMAIN work.seqs /\ Len(work.seqs) \in DOMAIN work.seqs
            <6>1. \A n \in Nat \ {0} : n # 1 => 1 < n /\ 1 \in 1..n /\ n \in 1..n
              OBVIOUS
            <6> QED
              BY <3>3, <4>2, <6>1
          <5>2. work.seqs[1] < work.seqs[Len(work.seqs)]
            BY <3>1, <5>1 DEF Rising
          <5> QED
            BY <3>3, <5>2
        <4> QED
          BY <4>1, <4>2
      <3>5. gate.rt \in Nat
        BY <1>1, Bounds
      <3> QED
        BY <3>1, <3>3, <3>4, <3>5 DEF Last
    <2>3. CASE /\ gate' = [gate EXCEPT !.rt = Last(work.seqs) + 1]
               /\ UNCHANGED <<admission, ordinary, remote, local, backend, mishaps>>
      <3>1. gate'.epoch = gate.epoch /\ gate'.rel = gate.rel /\ gate'.rt = Last(work.seqs) + 1 /\ work'.type = "Idle"
        BY <1>1, <2>1, <2>3, NotExited
      <3>2. Told'
        BY <1>2, <2>1, <2>3, <3>1 DEF Told, Begins, Serving
      <3>3. NextRel' = NextRel /\ NextRt' = NextRt
        BY <2>1, <3>1 DEF NextRel, NextRt, Pending
      <3> QED
        BY <2>1, <2>3, <3>1, <3>2, <3>3, NoFrame, KeptMatches
    <2>4. CASE FailSession([down |-> backend, mishap |-> {"Inject"}])
      BY <2>1, <2>4, FailedMatches
    <2> QED
      BY <1>6, <2>2, <2>3, <2>4 DEF ExecuteRealtime
  <1>7. CASE ExecuteReliable
    <2>1. work.type = "Reliable" /\ work' = Idle /\ UNCHANGED <<controls, releaseAll, shutdown>>
      BY <1>7 DEF ExecuteReliable, Done
    <2>2. GateAccepts /\ gate.epoch # 0
      BY <2>1 DEF MatchInv, AdmissionMatchesGate, AdmittedPassesGate, GateAccepts, InSession
    <2>3. CASE gate' = [gate EXCEPT !.rel = work.seqs[1] + 1] /\ UNCHANGED <<admission, ordinary>>
      <3>1. gate'.epoch = gate.epoch /\ gate'.rt = gate.rt /\ gate'.rel = work.seqs[1] + 1 /\ work'.type = "Idle"
        BY <1>1, <2>1, <2>3, NotExited
      <3>2. Told'
        BY <1>2, <2>1, <2>3, <3>1 DEF Told, Begins, Serving
      <3>3. NextRel' = NextRel /\ NextRt' = NextRt
        BY <2>1, <3>1 DEF NextRel, NextRt, Pending
      <3> QED
        BY <2>1, <2>3, <3>1, <3>2, <3>3, NoFrame, KeptMatches
    <2>4. ASSUME NEW f, FailSession(f) PROVE MatchInv'
      BY <2>1, <2>4, FailedMatches
    <2> QED
      BY <1>7, <2>2, <2>3, <2>4 DEF ExecuteReliable
  <1> QED
    BY <1>3, <1>4, <1>5, <1>6, <1>7 DEF Execute

(* What waits belongs to the open session, and what admission accepted the *)
(* worker's own check of owner, epoch and sequence never refuses, however  *)
(* batches were merged, lost or taken out of turn in between.              *)
THEOREM AdmissionAlwaysMatches == ActorSpec => []AdmissionMatchesGate
  <1>1. ActorInit => MatchInv
    <2> SUFFICES ASSUME ActorInit PROVE MatchInv
      OBVIOUS
    <2>1. ~admission.open /\ ordinary = <<>> /\ work.type = "Idle"
      BY NotExited DEF ActorInit, NoSession
    <2> QED
      BY <2>1 DEF MatchInv, Told, AdmissionMatchesGate, ClosedSessionPurged, AdmittedPassesGate, InOrder
  <1>2. Types /\ Types' /\ MatchInv /\ [ActorNext]_actorVars => MatchInv'
    <2>1. ASSUME MatchInv, UNCHANGED actorVars PROVE MatchInv'
      BY <2>1, SameMatches DEF actorVars, queueVars, workerVars
    <2> QED
      BY <2>1, ProducersMatch, TakeMatches, ExecuteMatches DEF ActorNext, Worker
  <1>3. MatchInv => AdmissionMatchesGate
    BY DEF MatchInv
  <1> QED
    BY <1>1, <1>2, <1>3, ActorTypes, PTL DEF ActorSpec

-----------------------------------------------------------------------------
Seen(s) == {s[i] : i \in DOMAIN s}

(***************************************************************************)
(* The stream of views.                                                    *)
(***************************************************************************)
Publishers == [at : {"idle", "mark"}] \cup [at : {"send"}, mutation : Mutations]
Tasks == [at : {"down", "subscribing", "stream", "recovering"}, cursor : Cursors]
Servers == [boot : Nat, rev : Nat, view : Views]

Clients == [boot : Nat, rev : Nat, view : Views, truth : Views, resync : BOOLEAN]

\* Types, those of UiTypeOK in three parts, with what they leave out.
InputTypes ==
    /\ auth \in [gen : Nat, input : [InputFields -> BOOLEAN]]
    /\ publisher \in Publishers
    /\ inputQueue \in Seq(Mutations) /\ Len(inputQueue) <= InputCapacity
    /\ dirty \in BOOLEAN /\ lost \in BOOLEAN
    /\ pointer \in [value : BOOLEAN, fresh : BOOLEAN]
    /\ base \in BOOLEAN /\ due \in BOOLEAN
    /\ cut \in 0 .. auth.gen /\ dropped \in 0 .. auth.gen

ServerTypes ==
    /\ pass \in {"poll", "rest", "rebuild", "reconcile"}
    /\ sampled \in {<<>>, <<TRUE>>, <<FALSE>>}
    /\ server \in Servers
    /\ replay \in Seq(Deltas) /\ Len(replay) <= ReplayCapacity

LinkTypes ==
    /\ task \in Tasks
    /\ pending \in Seq(Envelopes)
    /\ live \in Seq(Envelopes) /\ Len(live) <= LiveCapacity
    /\ wire \in Seq(Envelopes) /\ Len(wire) <= WireCapacity
    /\ task.at = "recovering" => Len(wire) < WireCapacity
    /\ lagged \in BOOLEAN /\ asked \in BOOLEAN
    /\ client \in Clients

\* The envelopes of a kind that says what the server showed.
Sent == Seen(replay) \cup Seen(pending) \cup Seen(live) \cup Seen(wire)
Carried == {e \in Sent : e.type = "delta"}
At(e) == [boot |-> e.boot, rev |-> e.rev, view |-> e.view]
Held == [boot |-> client.boot, rev |-> client.rev, view |-> client.truth]
Points == {At(e) : e \in {x \in Sent : x.type \in {"delta", "snapshot"}}} \cup {server, Held}

\* Nothing is ahead of the server s, a boot and a revision have one view, and
\* a delta leads from the view before it to its own.
Agree(P, D, s) ==
    /\ \A p \in P : p.boot <= s.boot /\ (p.boot = s.boot => p.rev <= s.rev)
    /\ \A p \in P, q \in P : p.boot = q.boot /\ p.rev = q.rev => p.view = q.view
    /\ \A d \in D, p \in P : d.boot = p.boot /\ d.rev = p.rev + 1 => d.view = Applied(p.view, d.change)

ViewInv == client.view = client.truth /\ Agree(Points, Carried, server)

(***************************************************************************)
(* The way of the input mutations.                                         *)
(***************************************************************************)
Outstanding == Seen(inputQueue) \cup (IF publisher.at = "send" THEN {publisher.mutation} ELSE {})

Ascending ==
    /\ \A i, j \in DOMAIN inputQueue : i < j => inputQueue[i].gen < inputQueue[j].gen
    /\ publisher.at = "send" =>
           /\ dropped < publisher.mutation.gen
           /\ \A i \in DOMAIN inputQueue : inputQueue[i].gen < publisher.mutation.gen
    /\ \A m \in Outstanding : m.gen <= auth.gen /\ m.gen # dropped

\* The last mutation of f that is still to be applied has the authoritative
\* value; without one, the view has it.
Shows(f) ==
    /\ \A m \in Outstanding :
           /\ m.field = f /\ m.gen > cut
           /\ \A n \in Outstanding : n.field = f => n.gen <= m.gen
           => m.value = auth.input[f]
    /\ (\A m \in Outstanding : m.field = f => m.gen <= cut) => server.view[f] = auth.input[f]

MarkKnown == dropped > cut => publisher.at = "mark" \/ dirty \/ pass = "rebuild"

InputInv ==
    /\ Ascending /\ MarkKnown
    /\ ~lost /\ dropped <= cut => \A f \in InputFields : Shows(f)

StreamInv == InputTypes /\ ServerTypes /\ LinkTypes /\ ViewInv /\ InputInv

(***************************************************************************)
(* Sequences, by the elements that they hold.                              *)
(***************************************************************************)
LEMMA SeenAppend ==
    ASSUME NEW S, NEW s \in Seq(S), NEW e \in S
    PROVE  /\ Append(s, e) \in Seq(S) /\ Len(Append(s, e)) = Len(s) + 1
           /\ Seen(Append(s, e)) = Seen(s) \cup {e}
  <1>1. /\ Len(Append(s, e)) = Len(s) + 1 /\ Len(s) \in Nat
        /\ \A i \in 1 .. Len(s) : Append(s, e)[i] = s[i]
        /\ Append(s, e)[Len(s) + 1] = e
    OBVIOUS
  <1>2. DOMAIN s = 1 .. Len(s) /\ DOMAIN Append(s, e) = 1 .. Len(s) + 1
    BY <1>1
  <1>3. 1 .. Len(s) + 1 = (1 .. Len(s)) \cup {Len(s) + 1}
    BY <1>1
  <1> QED
    BY <1>1, <1>2, <1>3 DEF Seen

LEMMA SeenTail ==
    ASSUME NEW S, NEW s \in Seq(S), s # <<>>
    PROVE  /\ Head(s) \in S /\ Head(s) \in Seen(s) /\ Head(s) = s[1]
           /\ Tail(s) \in Seq(S) /\ Len(Tail(s)) = Len(s) - 1
           /\ Seen(Tail(s)) \subseteq Seen(s)
           /\ \A i \in DOMAIN Tail(s) : i + 1 \in DOMAIN s /\ Tail(s)[i] = s[i + 1]
           /\ \A e \in Seen(s) : e = Head(s) \/ e \in Seen(Tail(s))
  <1>1. /\ Len(s) \in Nat \ {0} /\ DOMAIN s = 1 .. Len(s) /\ Head(s) = s[1]
        /\ Tail(s) \in Seq(S) /\ Len(Tail(s)) = Len(s) - 1 /\ DOMAIN Tail(s) = 1 .. Len(s) - 1
        /\ \A i \in 1 .. Len(s) - 1 : Tail(s)[i] = s[i + 1]
    OBVIOUS
  <1>2. \A i \in 1 .. Len(s) - 1 : i + 1 \in 1 .. Len(s)
    BY <1>1
  <1>3. \A i \in 1 .. Len(s) : i = 1 \/ (i - 1 \in 1 .. Len(s) - 1 /\ i = (i - 1) + 1)
    BY <1>1
  <1>4. \A e \in Seen(s) : e = Head(s) \/ e \in Seen(Tail(s))
    <2> TAKE e \in Seen(s)
    <2>1. PICK i \in 1 .. Len(s) : e = s[i]
      BY <1>1 DEF Seen
    <2>2. CASE i = 1
      BY <1>1, <2>1, <2>2
    <2>3. CASE i - 1 \in 1 .. Len(s) - 1 /\ i = (i - 1) + 1
      BY <1>1, <2>1, <2>3, ZenonT(60), SMTT(60) DEF Seen
    <2> QED
      BY <1>3, <2>2, <2>3
  <1>5. Head(s) \in S /\ 1 \in 1 .. Len(s)
    BY <1>1
  <1> QED
    BY <1>1, <1>2, <1>4, <1>5 DEF Seen

LEMMA SeenConcat ==
    ASSUME NEW S, NEW s \in Seq(S), NEW t \in Seq(S)
    PROVE  /\ s \o t \in Seq(S) /\ Len(s \o t) = Len(s) + Len(t)
           /\ Seen(s \o t) = Seen(s) \cup Seen(t)
  <1> DEFINE m == Len(s)
             n == Len(t)
             u == s \o t
  <1>1. /\ m \in Nat /\ n \in Nat /\ u \in Seq(S) /\ Len(u) = m + n
        /\ DOMAIN s = 1 .. m /\ DOMAIN t = 1 .. n /\ DOMAIN u = 1 .. m + n
        /\ \A i \in 1 .. m + n : u[i] = IF i <= m THEN s[i] ELSE t[i - m]
    OBVIOUS
  <1> HIDE DEF m, n, u
  <1>2. Seen(u) \subseteq Seen(s) \cup Seen(t)
    <2>1. \A i \in 1 .. m + n : i \in 1 .. m \/ (~(i <= m) /\ i - m \in 1 .. n)
      BY <1>1
    <2>2. \A i \in 1 .. m : i \in 1 .. m + n /\ i <= m
      BY <1>1
    <2> QED
      BY <1>1, <2>1, <2>2 DEF Seen
  <1>3. Seen(s) \cup Seen(t) \subseteq Seen(u)
    <2>1. \A i \in 1 .. m : i \in 1 .. m + n /\ u[i] = s[i]
      BY <1>1
    <2>2. \A i \in 1 .. n : i + m \in 1 .. m + n /\ u[i + m] = t[i]
      BY <1>1
    <2>3. Seen(s) \subseteq Seen(u)
      BY <1>1, <2>1 DEF Seen
    <2>4. Seen(t) \subseteq Seen(u)
      BY <1>1, <2>2, ZenonT(60), SMTT(60) DEF Seen
    <2> QED
      BY <2>3, <2>4
  <1> QED
    BY <1>1, <1>2, <1>3 DEF u, m, n

LEMMA SeenPart ==
    ASSUME NEW S, NEW s \in Seq(S), NEW a \in Nat \ {0}, NEW b \in 0 .. Len(s)
    PROVE  /\ SubSeq(s, a, b) \in Seq(S) /\ Seen(SubSeq(s, a, b)) \subseteq Seen(s)
           /\ Len(SubSeq(s, a, b)) = IF a <= b THEN b - a + 1 ELSE 0
  <1> DEFINE u == SubSeq(s, a, b)
             n == IF a <= b THEN b - a + 1 ELSE 0
  <1>1. Len(s) \in Nat /\ DOMAIN s = 1 .. Len(s) /\ \A i \in 1 .. Len(s) : s[i] \in S
    OBVIOUS
  <1>2. n \in Nat /\ u = [i \in 1 .. n |-> s[a + i - 1]]
    OBVIOUS
  <1>3. \A i \in 1 .. n : a + i - 1 \in 1 .. Len(s)
    BY <1>1
  <1> HIDE DEF n
  <1>4. u \in Seq(S) /\ Len(u) = n /\ DOMAIN u = 1 .. n /\ \A i \in 1 .. n : u[i] = s[a + i - 1]
    BY <1>1, <1>2, <1>3, SMTT(60), ZenonT(60)
  <1> HIDE DEF u
  <1>5. Seen(u) \subseteq Seen(s)
    BY <1>1, <1>3, <1>4 DEF Seen
  <1> QED
    BY <1>4, <1>5 DEF u, n

LEMMA KeptLast ==
    ASSUME NEW S, NEW s \in Seq(S), NEW n \in Nat
    PROVE  /\ KeepLast(s, n) \in Seq(S) /\ Len(KeepLast(s, n)) <= n
           /\ Seen(KeepLast(s, n)) \subseteq Seen(s)
  <1> DEFINE a == IF Len(s) > n THEN Len(s) - n + 1 ELSE 1
  <1>1. Len(s) \in Nat /\ a \in Nat \ {0} /\ Len(s) \in 0 .. Len(s)
    OBVIOUS
  <1>2. (IF a <= Len(s) THEN Len(s) - a + 1 ELSE 0) <= n
    BY <1>1
  <1> HIDE DEF a
  <1>3. KeepLast(s, n) = SubSeq(s, a, Len(s))
    BY DEF KeepLast, a
  <1> QED
    BY <1>1, <1>2, <1>3, SeenPart

LEMMA ReliableKept ==
    ASSUME NEW S, NEW s \in Seq(S)
    PROVE  Reliable(s) \in Seq(S) /\ Seen(Reliable(s)) \subseteq Seen(s)
  <1> DEFINE realtime == {i \in DOMAIN s : Realtime(s[i].change)}
             k == CHOOSE i \in realtime : TRUE
  <1>1. CASE realtime = {}
    BY <1>1 DEF Reliable
  <1>2. CASE realtime # {}
    <2>1. k \in realtime
      BY <1>2
    <2> HIDE DEF k
    <2>2. k \in 1 .. Len(s) /\ Len(s) \in Nat
      BY <2>1
    <2>3. Reliable(s) = RemoveAt(s, k)
      BY <1>2 DEF Reliable, k
    <2> HIDE DEF realtime
    <2>4. RemoveAt(s, k) = SubSeq(s, 1, k - 1) \o SubSeq(s, k + 1, Len(s))
      BY DEF RemoveAt
    <2>5. 1 \in Nat \ {0} /\ k - 1 \in 0 .. Len(s) /\ k + 1 \in Nat \ {0} /\ Len(s) \in 0 .. Len(s)
      BY <2>2
    <2> DEFINE a == SubSeq(s, 1, k - 1)
               b == SubSeq(s, k + 1, Len(s))
    <2>6. a \in Seq(S) /\ Seen(a) \subseteq Seen(s)
      BY <2>5, SeenPart
    <2>7. b \in Seq(S) /\ Seen(b) \subseteq Seen(s)
      BY <2>5, SeenPart
    <2>8. Reliable(s) = a \o b
      BY <2>3, <2>4
    <2> HIDE DEF a, b
    <2>9. a \o b \in Seq(S) /\ Seen(a \o b) = Seen(a) \cup Seen(b)
      BY <2>6, <2>7, SeenConcat
    <2> QED
      BY <2>6, <2>7, <2>8, <2>9
  <1> QED
    BY <1>1, <1>2

LEMMA LaterKept ==
    ASSUME NEW S, replay \in Seq(S), NEW rev
    PROVE  Later(rev) \in Seq(S) /\ Seen(Later(rev)) \subseteq Seen(replay)
  <1> DEFINE old == {i \in DOMAIN replay : replay[i].rev <= rev}
  <1>1. Len(replay) \in Nat /\ DOMAIN replay = 1 .. Len(replay) /\ Len(replay) \in 0 .. Len(replay)
    OBVIOUS
  <1>2. IsFiniteSet(DOMAIN replay) /\ old \subseteq DOMAIN replay
    BY <1>1, FS_Interval
  <1> HIDE DEF old
  <1>3. Cardinality(old) \in Nat
    BY <1>2, FS_Subset, FS_CardinalityType
  <1>4. 1 + Cardinality(old) \in Nat \ {0}
    BY <1>3
  <1>5. Later(rev) = SubSeq(replay, 1 + Cardinality(old), Len(replay))
    BY DEF Later, old
  <1> QED
    BY <1>1, <1>4, <1>5, SeenPart

(***************************************************************************)
(* Views.                                                                  *)
(***************************************************************************)
Changes == [field : Fields, value : BOOLEAN]
Hits(changes, f) == {i \in DOMAIN changes : changes[i].field = f}

LEMMA LargestOf ==
    ASSUME NEW n \in Nat, NEW S, S \subseteq 1 .. n, S # {}
    PROVE  \E i \in S : \A j \in S : j <= i
  <1> DEFINE R == OpToRel(<, Nat)
             T == {n - i : i \in S}
  <1>1. IsWellFoundedOn(R, Nat)
    BY NatLessThanWellFounded
  <1>2. \A k, m \in Nat : k < m => <<k, m>> \in R
    BY DEF OpToRel
  <1> HIDE DEF R
  <1>3. \A i \in S : n - i \in Nat
    OBVIOUS
  <1>4. T \subseteq Nat /\ T # {}
    BY <1>3
  <1> HIDE DEF T
  <1>5. PICK m \in T : \A k \in T : ~(<<k, m>> \in R)
    BY <1>1, <1>4, WFMin
  <1>6. PICK i \in S : m = n - i
    BY <1>5 DEF T
  <1>7. \A j \in S : ~(n - j < m)
    BY <1>2, <1>3, <1>4, <1>5 DEF T
  <1>8. \A j \in S : j <= i
    BY <1>6, <1>7
  <1> QED
    BY <1>8

LEMMA LastHit ==
    ASSUME NEW changes \in Seq(Changes), NEW f, Hits(changes, f) # {}
    PROVE  LET i == CHOOSE i \in Hits(changes, f) : \A j \in Hits(changes, f) : j <= i
           IN  i \in DOMAIN changes /\ changes[i].field = f /\ changes[i] \in Changes
  <1>1. Len(changes) \in Nat /\ DOMAIN changes = 1 .. Len(changes)
    OBVIOUS
  <1>2. Hits(changes, f) \subseteq 1 .. Len(changes)
    BY <1>1 DEF Hits
  <1>3. \E i \in Hits(changes, f) : \A j \in Hits(changes, f) : j <= i
    BY <1>1, <1>2, LargestOf
  <1>4. (CHOOSE i \in Hits(changes, f) : \A j \in Hits(changes, f) : j <= i) \in Hits(changes, f)
    BY <1>3
  <1> QED
    BY <1>1, <1>4 DEF Hits

LEMMA AppliedField ==
    ASSUME NEW view \in Views, NEW changes \in Seq(Changes), NEW f \in Fields
    PROVE  /\ Hits(changes, f) = {} => AppliedAll(view, changes)[f] = view[f]
           /\ Hits(changes, f) # {} =>
                  AppliedAll(view, changes)[f] =
                      changes[CHOOSE i \in Hits(changes, f) : \A j \in Hits(changes, f) : j <= i].value
  BY DEF Hits, AppliedAll, Views

LEMMA AppliedTyped ==
    ASSUME NEW view \in Views, NEW changes \in Seq(Changes)
    PROVE  AppliedAll(view, changes) \in Views
  <1>1. DOMAIN view = Fields
    BY DEF Views
  <1>2. ASSUME NEW f \in Fields
        PROVE  AppliedAll(view, changes)[f] \in BOOLEAN
    <2>1. CASE Hits(changes, f) = {}
      BY <2>1, AppliedField DEF Views
    <2>2. CASE Hits(changes, f) # {}
      <3> DEFINE i == CHOOSE i \in Hits(changes, f) : \A j \in Hits(changes, f) : j <= i
      <3>1. changes[i] \in Changes
        BY <2>2, LastHit
      <3>2. AppliedAll(view, changes)[f] = changes[i].value
        BY <2>2, AppliedField
      <3> HIDE DEF i
      <3> QED
        BY <3>1, <3>2 DEF Changes
    <2> QED
      BY <2>1, <2>2
  <1>3. DOMAIN AppliedAll(view, changes) = Fields
    BY <1>1 DEF AppliedAll
  <1>4. AppliedAll(view, changes) = [f \in Fields |-> AppliedAll(view, changes)[f]]
    BY <1>1 DEF AppliedAll
  <1> QED
    BY <1>2, <1>4 DEF Views

LEMMA FirstChanges ==
    ASSUME NEW changes \in Seq(Changes), NEW i \in 0 .. Len(changes)
    PROVE  /\ SubSeq(changes, 1, i) \in Seq(Changes) /\ DOMAIN SubSeq(changes, 1, i) = 1 .. i
           /\ \A j \in 1 .. i : SubSeq(changes, 1, i)[j] = changes[j]
  <1>1. Len(changes) \in Nat /\ 1 \in Nat \ {0}
    OBVIOUS
  <1>2. SubSeq(changes, 1, i) \in Seq(Changes)
    BY <1>1, SeenPart
  <1> QED
    BY <1>1, <1>2

LEMMA AppliedNone ==
    ASSUME NEW view \in Views, NEW changes \in Seq(Changes)
    PROVE  AppliedAll(view, SubSeq(changes, 1, 0)) = view
  <1> DEFINE none == SubSeq(changes, 1, 0)
  <1>1. none \in Seq(Changes) /\ DOMAIN none = 1 .. 0
    BY FirstChanges
  <1> HIDE DEF none
  <1>2. \A f : Hits(none, f) = {}
    BY <1>1 DEF Hits
  <1>3. DOMAIN view = Fields /\ view = [f \in Fields |-> view[f]]
    BY DEF Views
  <1>4. AppliedAll(view, none) = [f \in Fields |-> AppliedAll(view, none)[f]]
    BY <1>3 DEF AppliedAll
  <1>5. \A f \in Fields : AppliedAll(view, none)[f] = view[f]
    BY <1>1, <1>2, AppliedField
  <1>6. AppliedAll(view, none) = view
    BY <1>3, <1>4, <1>5
  <1> QED
    BY <1>6 DEF none

LEMMA AppliedOne ==
    ASSUME NEW view \in Views, NEW changes \in Seq(Changes), NEW i \in 1 .. Len(changes)
    PROVE  AppliedAll(view, SubSeq(changes, 1, i)) =
               Applied(AppliedAll(view, SubSeq(changes, 1, i - 1)), changes[i])
  <1> DEFINE s == SubSeq(changes, 1, i)
             t == SubSeq(changes, 1, i - 1)
             v == AppliedAll(view, s)
             w == AppliedAll(view, t)
  <1>0. Len(changes) \in Nat /\ i \in Nat /\ i \in 0 .. Len(changes) /\ i - 1 \in 0 .. Len(changes)
        /\ changes[i] \in Changes
    OBVIOUS
  <1>1. s \in Seq(Changes) /\ DOMAIN s = 1 .. i /\ \A j \in 1 .. i : s[j] = changes[j]
    BY <1>0, FirstChanges
  <1>2. t \in Seq(Changes) /\ DOMAIN t = 1 .. i - 1 /\ \A j \in 1 .. i - 1 : t[j] = changes[j]
    BY <1>0, FirstChanges
  <1> HIDE DEF s, t
  <1>3. v \in Views /\ w \in Views
    BY <1>1, <1>2, AppliedTyped
  <1>4. ASSUME NEW f \in Fields
        PROVE  v[f] = IF f = changes[i].field THEN changes[i].value ELSE w[f]
    <2>1. CASE f = changes[i].field
      <3>1. i \in Hits(s, f) /\ \A j \in Hits(s, f) : j <= i /\ j \in Nat
        BY <1>0, <1>1, <2>1 DEF Hits
      <3>2. (CHOOSE k \in Hits(s, f) : \A j \in Hits(s, f) : j <= k) = i
        <4> DEFINE r == CHOOSE k \in Hits(s, f) : \A j \in Hits(s, f) : j <= k
        <4>1. \E k \in Hits(s, f) : \A j \in Hits(s, f) : j <= k
          BY <3>1
        <4>2. r \in Hits(s, f) /\ \A j \in Hits(s, f) : j <= r
          BY <4>1
        <4> HIDE DEF r
        <4>3. r = i
          BY <1>0, <3>1, <4>2
        <4> QED
          BY <4>3 DEF r
      <3>3. v[f] = s[CHOOSE k \in Hits(s, f) : \A j \in Hits(s, f) : j <= k].value
        BY <1>1, <3>1, AppliedField
      <3>4. s[i] = changes[i]
        BY <1>0, <1>1
      <3> QED
        BY <2>1, <3>2, <3>3, <3>4
    <2>2. CASE f # changes[i].field
      <3>1. 1 .. i = (1 .. i - 1) \cup {i}
        BY <1>0
      <3>2. Hits(s, f) = Hits(t, f)
        BY <1>0, <1>1, <1>2, <2>2, <3>1 DEF Hits
      <3>3. CASE Hits(s, f) = {}
        <4>1. v[f] = view[f]
          BY <1>1, <3>3, AppliedField
        <4>2. w[f] = view[f]
          BY <1>2, <3>2, <3>3, AppliedField
        <4> HIDE DEF v, w
        <4> QED
          BY <2>2, <4>1, <4>2
      <3>4. CASE Hits(s, f) # {}
        <4> DEFINE k == CHOOSE k \in Hits(t, f) : \A j \in Hits(t, f) : j <= k
        <4>1. k \in DOMAIN t
          BY <1>2, <3>2, <3>4, LastHit
        <4>2. v[f] = s[k].value
          <5>1. v[f] = s[CHOOSE n \in Hits(s, f) : \A j \in Hits(s, f) : j <= n].value
            BY <1>1, <3>4, AppliedField
          <5> HIDE DEF v
          <5> QED
            BY <3>2, <5>1
        <4>3. w[f] = t[k].value
          BY <1>2, <3>2, <3>4, AppliedField
        <4> HIDE DEF k, v, w
        <4>4. k \in 1 .. i
          BY <1>2, <3>1, <4>1
        <4> QED
          BY <1>1, <1>2, <2>2, <4>1, <4>2, <4>3, <4>4
      <3> QED
        BY <3>3, <3>4
    <2> QED
      BY <2>1, <2>2
  <1> HIDE DEF v, w
  <1>5. changes[i].field \in Fields
    BY <1>0 DEF Changes
  <1>6. v = Applied(w, changes[i])
    BY <1>3, <1>4, <1>5 DEF Applied, Views
  <1> QED
    BY <1>6 DEF v, w, s, t

LEMMA AppliedWhole ==
    ASSUME NEW changes \in Seq(Changes)
    PROVE  SubSeq(changes, 1, Len(changes)) = changes
  OBVIOUS

(***************************************************************************)
(* Agreement.                                                              *)
(***************************************************************************)
LEMMA AgreeFewer ==
    ASSUME NEW P, NEW D, NEW s, Agree(P, D, s), NEW Q, NEW E, Q \subseteq P, E \subseteq D
    PROVE  Agree(Q, E, s)
  BY DEF Agree

LEMMA AgreeFresh ==
    ASSUME NEW P, NEW D, NEW s \in Servers, P \subseteq Servers, \A d \in D : d.boot \in Nat /\ At(d) \in P,
           Agree(P, D, s), NEW t \in Servers, t.boot = s.boot + 1, t.rev = 0,
           NEW Q, Q \subseteq P \cup {t}, NEW E, E \subseteq D
    PROVE  Agree(Q, E, t)
  <1>1. \A p \in P : p.boot \in Nat /\ p.rev \in Nat /\ p.boot < t.boot
    BY DEF Servers, Agree
  <1>2. \A q \in Q : q.boot <= t.boot /\ (q.boot = t.boot => q.rev <= t.rev)
    BY <1>1 DEF Servers
  <1>3. \A p \in Q, q \in Q : p.boot = q.boot /\ p.rev = q.rev => p.view = q.view
    <2> TAKE p \in Q, q \in Q
    <2>1. CASE p \in P /\ q \in P
      BY <2>1 DEF Agree
    <2>2. CASE p = t /\ q = t
      BY <2>2
    <2>3. CASE p \in P /\ q = t
      BY <1>1, <2>3 DEF Servers
    <2>4. CASE p = t /\ q \in P
      BY <1>1, <2>4 DEF Servers
    <2> QED
      BY <2>1, <2>2, <2>3, <2>4
  <1>4. \A d \in E, p \in Q : d.boot = p.boot /\ d.rev = p.rev + 1 => d.view = Applied(p.view, d.change)
    <2> TAKE d \in E, p \in Q
    <2>1. CASE p \in P
      BY <2>1 DEF Agree
    <2>2. CASE p = t
      <3>1. At(d) \in P /\ At(d).boot = d.boot
        BY DEF At
      <3>2. d.boot < t.boot
        BY <1>1, <3>1
      <3> QED
        BY <2>2, <3>2 DEF Servers
    <2> QED
      BY <2>1, <2>2
  <1> QED
    BY <1>2, <1>3, <1>4 DEF Agree

\* The views v that n changes lead through, and what is sent and shown of them.
LeadsThrough(v, c, n, s) ==
    v[0] = s.view /\ \A i \in 1 .. n : v[i] = Applied(v[i - 1], c[i])
NewPoints(Q, P, v, n, s) ==
    \A q \in Q : \/ q \in P
                 \/ \E i \in 0 .. n : q.boot = s.boot /\ q.rev = s.rev + i /\ q.view = v[i]
NewDeltas(E, D, v, c, n, s) ==
    \A e \in E : \/ e \in D
                 \/ \E i \in 1 .. n : /\ e.boot = s.boot /\ e.rev = s.rev + i
                                      /\ e.change = c[i] /\ e.view = v[i]
Backed(D, P) == \A d \in D : d.boot \in Nat /\ d.rev \in Nat /\ At(d) \in P

LEMMA AgreeGrows ==
    ASSUME NEW P, P \subseteq Servers, NEW D, Backed(D, P), NEW s, s \in P, Agree(P, D, s),
           NEW n \in Nat, NEW v, NEW c, LeadsThrough(v, c, n, s),
           NEW t, t \in Servers, t.boot = s.boot, t.rev = s.rev + n,
           NEW Q, NewPoints(Q, P, v, n, s),
           NEW E, NewDeltas(E, D, v, c, n, s)
    PROVE  Agree(Q, E, t)
  <1> USE DEF LeadsThrough, NewPoints, NewDeltas, Backed
  <1> DEFINE New(q, i) == q.boot = s.boot /\ q.rev = s.rev + i /\ q.view = v[i]
  <1>0. s.boot \in Nat /\ s.rev \in Nat
    BY DEF Servers
  <1>1. \A p \in P : /\ p.boot \in Nat /\ p.rev \in Nat /\ p.boot <= s.boot
                     /\ p.boot = s.boot => p.rev <= s.rev
    BY DEF Servers, Agree
  <1>2. \A q \in Q : q.boot <= t.boot /\ (q.boot = t.boot => q.rev <= t.rev)
    <2> TAKE q \in Q
    <2>1. CASE q \in P
      BY <1>0, <1>1, <2>1
    <2>2. ASSUME NEW i \in 0 .. n, New(q, i)
          PROVE  q.boot <= t.boot /\ (q.boot = t.boot => q.rev <= t.rev)
      BY <1>0, <2>2
    <2> QED
      BY <2>1, <2>2
  <1>3. ASSUME NEW p \in P, NEW q, NEW i \in 0 .. n, New(q, i), p.boot = q.boot, p.rev = q.rev
        PROVE  p.view = q.view
    <2>1. i = 0
      BY <1>0, <1>1, <1>3
    <2>2. p.boot = s.boot /\ p.rev = s.rev /\ q.view = s.view
      BY <1>0, <1>3, <2>1
    <2> QED
      BY <2>2 DEF Agree
  <1>4. \A p \in Q, q \in Q : p.boot = q.boot /\ p.rev = q.rev => p.view = q.view
    <2> SUFFICES ASSUME NEW p \in Q, NEW q \in Q, p.boot = q.boot, p.rev = q.rev
                 PROVE  p.view = q.view
      OBVIOUS
    <2>1. CASE p \in P /\ q \in P
      BY <2>1 DEF Agree
    <2>2. ASSUME p \in P, NEW i \in 0 .. n, New(q, i)
          PROVE  p.view = q.view
      BY <1>3, <2>2
    <2>3. ASSUME q \in P, NEW i \in 0 .. n, New(p, i)
          PROVE  p.view = q.view
      <3> HIDE DEF New
      <3> QED
        BY <1>3, <2>3
    <2>4. ASSUME NEW i \in 0 .. n, New(p, i), NEW j \in 0 .. n, New(q, j)
          PROVE  p.view = q.view
      <3>1. i = j
        <4>1. s.rev + i = s.rev + j
          BY <2>4
        <4> QED
          BY <1>0, <4>1
      <3> QED
        BY <2>4, <3>1
    <2> QED
      BY <2>1, <2>2, <2>3, <2>4
  <1>5. ASSUME NEW d \in E, NEW p \in Q, d.boot = p.boot, d.rev = p.rev + 1
        PROVE  d.view = Applied(p.view, d.change)
    <2>1. CASE d \in D /\ p \in P
      BY <1>5, <2>1 DEF Agree
    <2>2. ASSUME d \in D, NEW i \in 0 .. n, New(p, i)
          PROVE  FALSE
      <3>1. d.boot = s.boot /\ d.rev = s.rev + i + 1
        BY <1>0, <1>5, <2>2
      <3>2. At(d) \in P /\ At(d).boot = d.boot /\ At(d).rev = d.rev
        BY <2>2 DEF At
      <3>3. d.rev <= s.rev
        BY <1>1, <3>1, <3>2
      <3> QED
        BY <1>0, <3>1, <3>3
    <2>3. ASSUME NEW i \in 1 .. n, New(d, i), d.change = c[i], p \in P
          PROVE  d.view = Applied(p.view, d.change)
      <3>1. p.rev \in Nat /\ p.rev + 1 = s.rev + i /\ p.rev <= s.rev /\ p.boot = s.boot
        BY <1>0, <1>1, <1>5, <2>3
      <3>2. i = 1 /\ p.rev = s.rev
        BY <1>0, <3>1
      <3>3. p.view = s.view
        BY <2>3, <3>1, <3>2 DEF Agree
      <3>4. v[i] = Applied(v[i - 1], c[i]) /\ i - 1 = 0
        BY <3>2
      <3> QED
        BY <2>3, <3>3, <3>4
    <2>4. ASSUME NEW i \in 1 .. n, New(d, i), d.change = c[i], NEW j \in 0 .. n, New(p, j)
          PROVE  d.view = Applied(p.view, d.change)
      <3>1. j = i - 1
        BY <1>0, <1>5, <2>4
      <3> QED
        BY <2>4, <3>1
    <2> QED
      BY <2>1, <2>2, <2>3, <2>4
  <1> HIDE DEF New
  <1> QED
    BY <1>2, <1>4, <1>5 DEF Agree

LEMMA FieldsKnown ==
    /\ \A f \in InputFields : f \in Fields /\ f # "pointer" /\ f # "base"
    /\ "pointer" \in Fields /\ "base" \in Fields
    /\ \A f \in Fields : f \in {"base", "keys", "pad", "pointer", "session"}
    /\ MaxEvents \in Nat /\ MaxConns \in Nat
    /\ InputCapacity \in Nat \ {0} /\ LiveCapacity \in Nat \ {0}
    /\ ReplayCapacity \in Nat \ {0} /\ WireCapacity \in Nat \ {0}
  BY UiAssumption DEF Fields

LEMMA SentKnown ==
    ASSUME ServerTypes, LinkTypes
    PROVE  /\ Sent \subseteq Envelopes /\ Points \subseteq Servers
           /\ server \in Points /\ Held \in Points
           /\ \A e \in Sent : e.type \in {"delta", "snapshot"} => At(e) \in Points
           /\ \A d \in Carried : d \in Deltas /\ d.boot \in Nat /\ d.rev \in Nat /\ At(d) \in Points
  <1>1. Deltas \subseteq Envelopes
    BY DEF Envelopes
  <1>2. \A S : \A s \in Seq(S) : Seen(s) \subseteq S
    BY DEF Seen
  <1>3. Sent \subseteq Envelopes
    <2>1. Seen(replay) \subseteq Deltas /\ Seen(pending) \subseteq Envelopes
          /\ Seen(live) \subseteq Envelopes /\ Seen(wire) \subseteq Envelopes
      BY <1>2 DEF ServerTypes, LinkTypes
    <2> QED
      BY <1>1, <2>1 DEF Sent
  <1>4. \A e \in Envelopes : e.type \in {"delta", "snapshot"} => At(e) \in Servers
    BY DEF Envelopes, Deltas, At, Servers
  <1>5. \A e \in Envelopes : e.type = "delta" => e \in Deltas /\ e.boot \in Nat /\ e.rev \in Nat
    BY DEF Envelopes, Deltas
  <1>6. server \in Servers /\ Held \in Servers
    BY DEF ServerTypes, LinkTypes, Held, Clients, Servers
  <1>7. Points \subseteq Servers
    BY <1>3, <1>4, <1>6 DEF Points
  <1>8. \A e \in Sent : e.type \in {"delta", "snapshot"} => At(e) \in Points
    BY DEF Points
  <1> QED
    BY <1>3, <1>5, <1>7, <1>8 DEF Points, Carried

\* What is sent and what the client shows stay within what they were, and the
\* server with what it has.
LEMMA SentFewer ==
    ASSUME ServerTypes, LinkTypes, ViewInv, server' = server, client' = client,
           \A e \in Sent' : \/ e \in Sent
                            \/ e.type \in {"heartbeat", "resync"}
                            \/ e = Snapshot(server)
    PROVE  ViewInv'
  <1>1. Held' = Held
    BY DEF Held
  <1>2. Snapshot(server).type = "snapshot" /\ At(Snapshot(server)) = server
    BY DEF Snapshot, At, ServerTypes, Servers
  <1>3. Carried' \subseteq Carried
    BY <1>2 DEF Carried
  <1>4. \A e \in Sent' : e.type \in {"delta", "snapshot"} => At(e) \in Points
    BY <1>2, SentKnown
  <1>6. Points' = {At(e) : e \in {x \in Sent' : x.type \in {"delta", "snapshot"}}} \cup {server', Held'}
    BY DEF Points, At
  <1>7. Points' \subseteq Points
    BY <1>1, <1>4, <1>6, SentKnown
  <1> QED
    BY <1>3, <1>7, AgreeFewer DEF ViewInv, Agree, Applied

Emitted(changes, i) ==
    Delta(server.boot, server.rev + i, changes[i], AppliedAll(server.view, SubSeq(changes, 1, i)))

LEMMA EmittedTyped ==
    ASSUME ServerTypes, NEW changes \in Seq(Changes), NEW i \in 1 .. Len(changes)
    PROVE  /\ Emitted(changes, i) \in Deltas
           /\ Emitted(changes, i).boot = server.boot /\ Emitted(changes, i).rev = server.rev + i
           /\ Emitted(changes, i).change = changes[i]
           /\ Emitted(changes, i).view = AppliedAll(server.view, SubSeq(changes, 1, i))
  <1>1. i \in Nat /\ i \in 0 .. Len(changes) /\ changes[i] \in Changes
    OBVIOUS
  <1>2. SubSeq(changes, 1, i) \in Seq(Changes)
    BY <1>1, FirstChanges
  <1>3. server.boot \in Nat /\ server.rev \in Nat /\ server.view \in Views
    BY DEF ServerTypes, Servers
  <1>4. AppliedAll(server.view, SubSeq(changes, 1, i)) \in Views
    BY <1>2, <1>3, AppliedTyped
  <1> QED
    BY <1>1, <1>3, <1>4 DEF Emitted, Delta, Deltas, Changes

LEMMA BroadcastKeeps ==
    ASSUME LinkTypes, NEW s \in Seq(Envelopes), Broadcast(s)
    PROVE  /\ live' \in Seq(Envelopes) /\ Len(live') <= LiveCapacity /\ lagged' \in BOOLEAN
           /\ \A e \in Seen(live') : e \in Seen(live) \/ e \in Seen(s)
  <1>1. CASE task.at \in {"stream", "recovering"}
    <2>1. live' = KeepLast(live \o s, LiveCapacity) /\ lagged' \in BOOLEAN
      BY <1>1 DEF Broadcast, LinkTypes
    <2>2. live \in Seq(Envelopes) /\ LiveCapacity \in Nat
      BY FieldsKnown DEF LinkTypes
    <2>3. live \o s \in Seq(Envelopes) /\ Seen(live \o s) = Seen(live) \cup Seen(s)
      BY <2>2, SeenConcat
    <2> DEFINE t == live \o s
    <2>4. t \in Seq(Envelopes) /\ Seen(t) = Seen(live) \cup Seen(s)
      BY <2>3
    <2> HIDE DEF t
    <2>5. /\ KeepLast(t, LiveCapacity) \in Seq(Envelopes) /\ Len(KeepLast(t, LiveCapacity)) <= LiveCapacity
          /\ Seen(KeepLast(t, LiveCapacity)) \subseteq Seen(t)
      BY <2>2, <2>4, KeptLast
    <2> QED
      BY <2>1, <2>4, <2>5 DEF t
  <1>2. CASE task.at \notin {"stream", "recovering"}
    BY <1>2 DEF Broadcast, LinkTypes
  <1> QED
    BY <1>1, <1>2

\* A run of changes: what it leaves the actor and the subscriber with, and
\* that everybody still agrees.
LEMMA EmitKeeps ==
    ASSUME ServerTypes, LinkTypes, ViewInv, NEW changes \in Seq(Changes), Emit(changes),
           UNCHANGED <<pending, wire, client>>
    PROVE  /\ server' \in Servers /\ server'.view = AppliedAll(server.view, changes)
           /\ replay' \in Seq(Deltas) /\ Len(replay') <= ReplayCapacity
           /\ live' \in Seq(Envelopes) /\ Len(live') <= LiveCapacity /\ lagged' \in BOOLEAN
           /\ ViewInv'
  <1> DEFINE n == Len(changes)
             deltas == [i \in DOMAIN changes |-> Emitted(changes, i)]
             v == [i \in 0 .. n |-> AppliedAll(server.view, SubSeq(changes, 1, i))]
             w == AppliedAll(server.view, changes)
  <1>1. n \in Nat /\ DOMAIN changes = 1 .. n /\ \A i \in 1 .. n : changes[i] \in Changes
    OBVIOUS
  <1>2. /\ server \in Servers /\ server.boot \in Nat /\ server.rev \in Nat /\ server.view \in Views
        /\ w \in Views
    BY AppliedTyped DEF ServerTypes, Servers
  <1>3. \A i \in 1 .. n : Emitted(changes, i) \in Deltas
    BY EmittedTyped
  <1>4. deltas \in Seq(Deltas) /\ \A e \in Seen(deltas) : \E i \in 1 .. n : e = Emitted(changes, i)
    <2>1. deltas = [i \in 1 .. n |-> Emitted(changes, i)]
      BY <1>1
    <2> HIDE DEF n
    <2>2. deltas \in Seq(Deltas) /\ DOMAIN deltas = 1 .. n
      BY <1>1, <1>3, <2>1
    <2> QED
      BY <2>1, <2>2 DEF Seen
  <1>5. /\ server' = [boot |-> server.boot, rev |-> server.rev + n, view |-> w]
        /\ replay' = KeepLast(replay \o Reliable(deltas), ReplayCapacity)
        /\ Broadcast(deltas)
    <2>1. /\ server' = [server EXCEPT !.rev = @ + n, !.view = AppliedAll(@, changes)]
          /\ replay' = KeepLast(replay \o Reliable(deltas), ReplayCapacity)
          /\ Broadcast(deltas)
      BY ZenonT(60), SMTT(60) DEF Emit, Emitted
    <2>2. [server EXCEPT !.rev = @ + n, !.view = AppliedAll(@, changes)]
              = [boot |-> server.boot, rev |-> server.rev + n, view |-> w]
      <3> HIDE DEF n
      <3>1. [server EXCEPT !.rev = server.rev + n] =
                [boot |-> server.boot, rev |-> server.rev + n, view |-> server.view]
        BY <1>2 DEF Servers
      <3>2. [server EXCEPT !.rev = server.rev + n, !.view = w]
              = [[boot |-> server.boot, rev |-> server.rev + n, view |-> server.view] EXCEPT !.view = w]
        BY <3>1, ZenonT(60), SMTT(60)
      <3>3. [server EXCEPT !.rev = @ + n, !.view = AppliedAll(@, changes)]
              = [server EXCEPT !.rev = server.rev + n, !.view = w]
        BY <1>2 DEF Servers
      <3> HIDE DEF w
      <3>4. [[boot |-> server.boot, rev |-> server.rev + n, view |-> server.view] EXCEPT !.view = w]
              = [boot |-> server.boot, rev |-> server.rev + n, view |-> w]
        OBVIOUS
      <3> QED
        BY <3>2, <3>3, <3>4
    <2> HIDE DEF n, w, deltas
    <2> QED
      BY <2>1, <2>2
  <1> HIDE DEF deltas
  <1>6. /\ replay' \in Seq(Deltas) /\ Len(replay') <= ReplayCapacity
        /\ \A e \in Seen(replay') : e \in Seen(replay) \/ e \in Seen(deltas)
    <2> DEFINE r == Reliable(deltas)
               s == replay \o r
    <2>1. replay \in Seq(Deltas) /\ ReplayCapacity \in Nat
      BY FieldsKnown DEF ServerTypes
    <2>2. r \in Seq(Deltas) /\ Seen(r) \subseteq Seen(deltas)
      BY <1>4, ReliableKept
    <2> HIDE DEF r
    <2>3. s \in Seq(Deltas) /\ Seen(s) = Seen(replay) \cup Seen(r)
      BY <2>1, <2>2, SeenConcat
    <2>4. replay' = KeepLast(s, ReplayCapacity)
      BY <1>5 DEF r
    <2> HIDE DEF s
    <2>5. /\ KeepLast(s, ReplayCapacity) \in Seq(Deltas) /\ Len(KeepLast(s, ReplayCapacity)) <= ReplayCapacity
          /\ Seen(KeepLast(s, ReplayCapacity)) \subseteq Seen(s)
      BY <2>1, <2>3, KeptLast
    <2> QED
      BY <2>2, <2>3, <2>4, <2>5
  <1>7. /\ live' \in Seq(Envelopes) /\ Len(live') <= LiveCapacity /\ lagged' \in BOOLEAN
        /\ \A e \in Seen(live') : e \in Seen(live) \/ e \in Seen(deltas)
    <2>1. deltas \in Seq(Envelopes)
      BY <1>4 DEF Envelopes
    <2> QED
      BY <1>5, <2>1, BroadcastKeeps
  <1>8. /\ v[0] = server.view /\ v[n] = w
        /\ \A i \in 1 .. n : v[i] = Applied(v[i - 1], changes[i])
    <2>1. v[0] = AppliedAll(server.view, SubSeq(changes, 1, 0)) /\ v[n] = AppliedAll(server.view, SubSeq(changes, 1, n))
      BY <1>1
    <2>2. \A i \in 1 .. n : /\ v[i] = AppliedAll(server.view, SubSeq(changes, 1, i))
                            /\ v[i - 1] = AppliedAll(server.view, SubSeq(changes, 1, i - 1))
      BY <1>1
    <2> HIDE DEF v
    <2> QED
      BY <1>2, <2>1, <2>2, AppliedNone, AppliedOne, AppliedWhole, ZenonT(60), SMTT(60)
  <1>9. \A i \in 1 .. n : /\ Emitted(changes, i).boot = server.boot
                          /\ Emitted(changes, i).rev = server.rev + i
                          /\ Emitted(changes, i).change = changes[i]
                          /\ Emitted(changes, i).view = v[i]
    <2>1. \A i \in 1 .. n : v[i] = AppliedAll(server.view, SubSeq(changes, 1, i))
      BY <1>1
    <2> HIDE DEF v
    <2> QED
      BY <2>1, EmittedTyped
  <1> HIDE DEF n, v, w
  <1>10. server' \in Servers /\ server'.boot = server.boot /\ server'.rev = server.rev + n /\ server'.view = w
    BY <1>1, <1>2, <1>5 DEF Servers
  <1>11. \A e \in Sent' : e \in Sent \/ \E i \in 1 .. n : e = Emitted(changes, i)
    <2>1. pending' = pending /\ wire' = wire
      OBVIOUS
    <2>2. Seen(pending') = Seen(pending) /\ Seen(wire') = Seen(wire)
      BY <2>1
    <2>3. Sent' = Seen(replay') \cup Seen(pending') \cup Seen(live') \cup Seen(wire')
      BY DEF Sent, Seen
    <2> QED
      BY <1>4, <1>6, <1>7, <2>2, <2>3 DEF Sent
  <1>12. \A e \in Carried' : \/ e \in Carried
                             \/ \E i \in 1 .. n : /\ e.boot = server.boot /\ e.rev = server.rev + i
                                                  /\ e.change = changes[i] /\ e.view = v[i]
    BY <1>9, <1>11 DEF Carried
  <1>13. \A q \in Points' : \/ q \in Points
                            \/ \E i \in 0 .. n : q.boot = server.boot /\ q.rev = server.rev + i /\ q.view = v[i]
    <2>1. Points' = {At(e) : e \in {x \in Sent' : x.type \in {"delta", "snapshot"}}} \cup {server', Held'}
      BY DEF Points, At
    <2>2. Held' = Held
      BY DEF Held
    <2>3. n \in 0 .. n /\ \A i \in 1 .. n : i \in 0 .. n
      BY <1>1
    <2>4. ASSUME NEW q \in Points'
          PROVE  \/ q \in Points
                 \/ \E i \in 0 .. n : q.boot = server.boot /\ q.rev = server.rev + i /\ q.view = v[i]
      <3>1. CASE q = server'
        BY <1>8, <1>10, <2>3, <3>1
      <3>2. CASE q = Held'
        BY <2>2, <3>2 DEF Points
      <3>3. ASSUME NEW e \in Sent', e.type \in {"delta", "snapshot"}, q = At(e)
            PROVE  \/ q \in Points
                   \/ \E i \in 0 .. n : q.boot = server.boot /\ q.rev = server.rev + i /\ q.view = v[i]
        <4>1. q.boot = e.boot /\ q.rev = e.rev /\ q.view = e.view
          BY <3>3 DEF At
        <4>2. CASE e \in Sent
          BY <3>3, <4>2 DEF Points
        <4>3. ASSUME NEW i \in 1 .. n, e = Emitted(changes, i)
              PROVE  \E j \in 0 .. n : q.boot = server.boot /\ q.rev = server.rev + j /\ q.view = v[j]
          BY <1>9, <2>3, <4>1, <4>3
        <4> QED
          BY <1>11, <4>2, <4>3
      <3> QED
        BY <2>1, <3>1, <3>2, <3>3
    <2> QED
      BY <2>4
  <1>14. server \in Points /\ Points \subseteq Servers /\ \A d \in Carried : d.boot \in Nat /\ d.rev \in Nat /\ At(d) \in Points
    BY SentKnown
  <1>15. Agree(Points, Carried, server)
    BY DEF ViewInv
  <1>16. Agree(Points', Carried', server')
    <2> DEFINE P == Points'
               D == Carried'
               t == server'
    <2>1. NewPoints(P, Points, v, n, server)
      BY <1>13 DEF NewPoints
    <2>2. NewDeltas(D, Carried, v, changes, n, server)
      BY <1>12 DEF NewDeltas
    <2>3. t \in Servers /\ t.boot = server.boot /\ t.rev = server.rev + n
      BY <1>10
    <2>4. LeadsThrough(v, changes, n, server) /\ Backed(Carried, Points)
      BY <1>8, <1>14 DEF LeadsThrough, Backed
    <2> HIDE DEF P, D, t
    <2>5. Agree(P, D, t)
      BY <1>1, <1>14, <1>15, <2>1, <2>2, <2>3, <2>4, AgreeGrows
    <2> QED
      BY <2>5 DEF P, D, t
  <1>17. client'.view = client'.truth
    BY DEF ViewInv
  <1>18. ViewInv'
    BY <1>16, <1>17 DEF ViewInv, Agree, Applied
  <1> QED
    BY <1>6, <1>7, <1>10, <1>18 DEF w

LEMMA EnvelopesTyped ==
    ASSUME ServerTypes
    PROVE  /\ Snapshot(server) \in Envelopes /\ Heartbeat(server) \in Envelopes
           /\ ResyncRequired(server) \in Envelopes /\ Deltas \subseteq Envelopes
           /\ Heartbeat(server).type = "heartbeat" /\ ResyncRequired(server).type = "resync"
  BY DEF ServerTypes, Servers, Snapshot, Heartbeat, ResyncRequired, Envelopes

LEMMA PairTyped ==
    ASSUME NEW S, NEW x \in S, NEW y \in S
    PROVE  /\ <<x>> \in Seq(S) /\ Seen(<<x>>) = {x} /\ Len(<<x>>) = 1
           /\ <<x, y>> \in Seq(S) /\ Seen(<<x, y>>) = {x, y}
           /\ <<>> \in Seq(S) /\ Seen(<<>>) = {} /\ Len(<<>>) = 0
  <1>1. /\ <<x>> \in Seq(S) /\ DOMAIN <<x>> = {1} /\ <<x>>[1] = x
        /\ <<x, y>> \in Seq(S) /\ DOMAIN <<x, y>> = {1, 2} /\ <<x, y>>[1] = x /\ <<x, y>>[2] = y
        /\ <<>> \in Seq(S) /\ DOMAIN <<>> = {}
    OBVIOUS
  <1> QED
    BY <1>1 DEF Seen

LEMMA AnswerTyped ==
    ASSUME ServerTypes, NEW cursor
    PROVE  /\ Answer(cursor) \in Seq(Envelopes)
           /\ \A e \in Seen(Answer(cursor)) : \/ e \in Seen(replay)
                                              \/ e.type \in {"heartbeat", "resync"}
                                              \/ e = Snapshot(server)
  <1> DEFINE r == ResyncRequired(server)
             s == Snapshot(server)
             l == Later(cursor[2])
  <1>1. r \in Envelopes /\ s \in Envelopes /\ Deltas \subseteq Envelopes /\ r.type = "resync"
    BY EnvelopesTyped
  <1>2. l \in Seq(Deltas) /\ Seen(l) \subseteq Seen(replay)
    BY LaterKept DEF ServerTypes
  <1>3. l \in Seq(Envelopes)
    BY <1>1, <1>2
  <1>4. Answer(cursor) \in {<<s>>, <<r, s>>, <<>>, l}
    BY DEF Answer
  <1> HIDE DEF r, s, l
  <1>5. /\ <<s>> \in Seq(Envelopes) /\ Seen(<<s>>) = {s}
        /\ <<r, s>> \in Seq(Envelopes) /\ Seen(<<r, s>>) = {r, s}
        /\ <<>> \in Seq(Envelopes) /\ Seen(<<>>) = {}
    BY <1>1, PairTyped, ZenonT(60), SMTT(60)
  <1>6. s = Snapshot(server)
    BY DEF s
  <1> DEFINE a == Answer(cursor)
  <1> SUFFICES a \in Seq(Envelopes) /\ \A e \in Seen(a) : e \in Seen(replay) \/ e.type = "resync" \/ e = s
    BY <1>6
  <1>7. a = <<s>> \/ a = <<r, s>> \/ a = <<>> \/ a = l
    BY <1>4
  <1> HIDE DEF a
  <1> QED
    BY <1>1, <1>2, <1>3, <1>5, <1>7

\* Nothing is sent, and nothing shown.
LEMMA QuietKeeps ==
    ASSUME ViewInv, UNCHANGED <<server, replay, pending, live, wire, client>>
    PROVE  ViewInv'
  BY DEF ViewInv, Agree, Applied, Points, Carried, Sent, Seen, At, Held

ViewSide == ServerTypes /\ LinkTypes /\ ViewInv

LEMMA InputStepView ==
    ASSUME ViewSide, InputStep \/ MovePointer \/ ChangeBase
    PROVE  ViewSide'
  <1>1. UNCHANGED <<actor, subscriber, connection, client>>
    BY DEF InputStep, MovePointer, ChangeBase, Publish, TrySend, Mark
  <1>2. UNCHANGED <<pass, sampled, server, replay, pending, live, lagged, task, wire, asked, client>>
    BY <1>1 DEF actor, subscriber, connection
  <1>3. ServerTypes' /\ LinkTypes'
    BY <1>2 DEF ViewSide, ServerTypes, LinkTypes
  <1> QED
    BY <1>2, <1>3, QuietKeeps DEF ViewSide

LEMMA PassStepView ==
    ASSUME ViewSide, InputTypes, PollDirty \/ Sleep \/ StartReconcile \/ ReadBase
    PROVE  ViewSide'
  <1>1. UNCHANGED <<server, replay, subscriber, connection, client>>
    BY DEF PollDirty, Sleep, StartReconcile, ReadBase
  <1>2. UNCHANGED <<server, replay, pending, live, lagged, task, wire, asked, client>>
    BY <1>1 DEF subscriber, connection
  <1>3. pass' \in {"poll", "rest", "rebuild", "reconcile"} /\ sampled' \in {<<>>, <<TRUE>>, <<FALSE>>}
    <2>1. CASE PollDirty \/ Sleep \/ StartReconcile
      BY <2>1 DEF PollDirty, Sleep, StartReconcile, ViewSide, ServerTypes
    <2>2. CASE ReadBase
      <3>1. base = TRUE \/ base = FALSE
        BY DEF InputTypes
      <3>2. sampled' = <<base>> /\ pass' = pass
        BY <2>2 DEF ReadBase
      <3> QED
        BY <3>1, <3>2 DEF ViewSide, ServerTypes
    <2> QED
      BY <2>1, <2>2
  <1>4. ServerTypes' /\ LinkTypes'
    BY <1>2, <1>3 DEF ViewSide, ServerTypes, LinkTypes
  <1> QED
    BY <1>2, <1>4, QuietKeeps DEF ViewSide

LEMMA ProjectionTyped ==
    ASSUME InputTypes, ServerTypes, sampled # <<>>
    PROVE  /\ Projection \in Views
           /\ \A f \in InputFields : Projection[f] = auth.input[f]
  <1>1. sampled[1] \in BOOLEAN
    <2>1. sampled = <<TRUE>> \/ sampled = <<FALSE>>
      BY DEF ServerTypes
    <2>2. <<TRUE>>[1] \in BOOLEAN /\ <<FALSE>>[1] \in BOOLEAN
      OBVIOUS
    <2> QED
      BY <2>1, <2>2
  <1>2. pointer.value \in BOOLEAN /\ \A f \in InputFields : auth.input[f] \in BOOLEAN
    BY DEF InputTypes
  <1>3. ASSUME NEW f \in Fields
        PROVE  Projection[f] \in BOOLEAN /\ (f \in InputFields => Projection[f] = auth.input[f])
    <2>1. CASE f = "base"
      BY <1>1, <2>1, FieldsKnown DEF Projection
    <2>2. CASE f = "pointer"
      BY <1>2, <2>2, FieldsKnown DEF Projection
    <2>3. CASE f # "base" /\ f # "pointer"
      BY <1>2, <2>3 DEF Projection, Fields
    <2> QED
      BY <2>1, <2>2, <2>3
  <1>4. Projection = [f \in Fields |-> Projection[f]]
    BY DEF Projection
  <1> QED
    BY <1>3, <1>4, FieldsKnown DEF Views

LEMMA DifferenceTells ==
    ASSUME InputTypes, ServerTypes, sampled # <<>>, NEW f
    PROVE  /\ Difference(f) \in Seq(Changes)
           /\ \A d \in Seen(Difference(f)) : /\ f \in Fields /\ d.field = f /\ d.value = Projection[f]
           /\ f \in Fields /\ server.view[f] # Projection[f] =>
                  \E d \in Seen(Difference(f)) : d.field = f
  <1> DEFINE d == Change(f, Projection[f])
  <1>1. CASE f \in Fields /\ server.view[f] # Projection[f]
    <2>1. Projection[f] \in BOOLEAN
      BY <1>1, ProjectionTyped DEF Views
    <2>2. d \in Changes /\ d.field = f /\ d.value = Projection[f]
      BY <1>1, <2>1 DEF Changes, Change
    <2>3. Difference(f) = <<d>>
      BY <1>1 DEF Difference
    <2> HIDE DEF d
    <2>4. <<d>> \in Seq(Changes) /\ Seen(<<d>>) = {d}
      BY <2>2, PairTyped
    <2> QED
      BY <1>1, <2>2, <2>3, <2>4
  <1>2. CASE ~(f \in Fields /\ server.view[f] # Projection[f])
    <2>1. Difference(f) = <<>>
      BY <1>2 DEF Difference
    <2>2. <<>> \in Seq(Changes) /\ Seen(<<>>) = {}
      BY DEF Seen
    <2> QED
      BY <1>2, <2>1, <2>2
  <1> QED
    BY <1>1, <1>2

LEMMA DifferencesTell ==
    ASSUME InputTypes, ServerTypes, sampled # <<>>
    PROVE  /\ Differences \in Seq(Changes)
           /\ \A d \in Seen(Differences) : d.value = Projection[d.field]
           /\ \A f \in Fields : server.view[f] # Projection[f] =>
                  \E d \in Seen(Differences) : d.field = f
  <1> DEFINE a == Difference("base")
             b == Difference("keys")
             c == Difference("pad")
             d == Difference("pointer")
             e == Difference("session")
             ab == a \o b
             abc == ab \o c
             abcd == abc \o d
             all == abcd \o e
  <1>1. a \in Seq(Changes) /\ b \in Seq(Changes) /\ c \in Seq(Changes) /\ d \in Seq(Changes) /\ e \in Seq(Changes)
    BY DifferenceTells
  <1>2. \A x \in Seen(a) \cup Seen(b) \cup Seen(c) \cup Seen(d) \cup Seen(e) : x.value = Projection[x.field]
    BY DifferenceTells
  <1>3. \A f \in Fields : server.view[f] # Projection[f] =>
            \E x \in Seen(a) \cup Seen(b) \cup Seen(c) \cup Seen(d) \cup Seen(e) : x.field = f
    <2> TAKE f \in Fields
    <2> HAVE server.view[f] # Projection[f]
    <2>1. PICK x \in Seen(Difference(f)) : x.field = f
      BY DifferenceTells
    <2>2. f \in {"base", "keys", "pad", "pointer", "session"}
      BY FieldsKnown
    <2>3. x \in Seen(a) \cup Seen(b) \cup Seen(c) \cup Seen(d) \cup Seen(e)
      BY <2>1, <2>2
    <2> QED
      BY <2>1, <2>3
  <1>4. Differences = all
    BY DEF Differences
  <1> HIDE DEF a, b, c, d, e
  <1>5. ab \in Seq(Changes) /\ Seen(ab) = Seen(a) \cup Seen(b)
    BY <1>1, SeenConcat
  <1> HIDE DEF ab
  <1>6. abc \in Seq(Changes) /\ Seen(abc) = Seen(ab) \cup Seen(c)
    BY <1>1, <1>5, SeenConcat
  <1> HIDE DEF abc
  <1>7. abcd \in Seq(Changes) /\ Seen(abcd) = Seen(abc) \cup Seen(d)
    BY <1>1, <1>6, SeenConcat
  <1> HIDE DEF abcd
  <1>8. all \in Seq(Changes) /\ Seen(all) = Seen(abcd) \cup Seen(e)
    BY <1>1, <1>7, SeenConcat
  <1> HIDE DEF all
  <1>9. Seen(all) = Seen(a) \cup Seen(b) \cup Seen(c) \cup Seen(d) \cup Seen(e)
    BY <1>5, <1>6, <1>7, <1>8
  <1> QED
    BY <1>2, <1>3, <1>4, <1>8, <1>9

LEMMA ReconcileShows ==
    ASSUME InputTypes, ServerTypes, sampled # <<>>, NEW f \in Fields
    PROVE  AppliedAll(server.view, Differences)[f] = Projection[f]
  <1>1. server.view \in Views /\ Differences \in Seq(Changes)
    BY DifferencesTell DEF ServerTypes, Servers
  <1>2. CASE Hits(Differences, f) = {}
    <2>1. \A x \in Seen(Differences) : x.field # f
      BY <1>2 DEF Hits, Seen
    <2>2. server.view[f] = Projection[f]
      BY <2>1, DifferencesTell
    <2> QED
      BY <1>1, <1>2, <2>2, AppliedField
  <1>3. CASE Hits(Differences, f) # {}
    <2> DEFINE i == CHOOSE i \in Hits(Differences, f) : \A j \in Hits(Differences, f) : j <= i
    <2>1. i \in DOMAIN Differences /\ Differences[i].field = f
      BY <1>1, <1>3, LastHit
    <2>2. AppliedAll(server.view, Differences)[f] = Differences[i].value
      BY <1>1, <1>3, AppliedField
    <2> HIDE DEF i
    <2>3. Differences[i] \in Seen(Differences)
      BY <2>1 DEF Seen
    <2> QED
      BY <2>1, <2>2, <2>3, DifferencesTell
  <1> QED
    BY <1>2, <1>3

LEMMA AppliedSingle ==
    ASSUME NEW view \in Views, NEW change \in Changes, NEW f \in Fields
    PROVE  AppliedAll(view, <<change>>)[f] = IF f = change.field THEN change.value ELSE view[f]
  <1> DEFINE s == <<change>>
  <1>1. s \in Seq(Changes) /\ DOMAIN s = {1} /\ s[1] = change
    OBVIOUS
  <1> HIDE DEF s
  <1>2. CASE f = change.field
    <2> DEFINE i == CHOOSE i \in Hits(s, f) : \A j \in Hits(s, f) : j <= i
    <2>1. Hits(s, f) # {}
      BY <1>1, <1>2 DEF Hits
    <2>2. i \in DOMAIN s
      BY <1>1, <2>1, LastHit
    <2>3. AppliedAll(view, s)[f] = s[i].value
      BY <1>1, <2>1, AppliedField
    <2> HIDE DEF i
    <2>4. AppliedAll(view, s)[f] = change.value
      BY <1>1, <2>2, <2>3
    <2> QED
      BY <1>2, <2>4 DEF s
  <1>3. CASE f # change.field
    <2>1. Hits(s, f) = {}
      BY <1>1, <1>3 DEF Hits
    <2>2. AppliedAll(view, s)[f] = view[f]
      BY <1>1, <2>1, AppliedField
    <2> QED
      BY <1>3, <2>2 DEF s
  <1> QED
    BY <1>2, <1>3

\* EmitKeeps, put together with what the three actions that emit leave alone.
LEMMA EmitView ==
    ASSUME ViewSide, NEW changes \in Seq(Changes), Emit(changes), UNCHANGED <<pending, connection, client>>,
           pass' = "poll", sampled' \in {sampled, <<>>}
    PROVE  ViewSide' /\ server'.view = AppliedAll(server.view, changes)
  <1>1. UNCHANGED <<pending, task, wire, asked, client>>
    BY DEF connection
  <1>2. /\ server' \in Servers /\ server'.view = AppliedAll(server.view, changes)
        /\ replay' \in Seq(Deltas) /\ Len(replay') <= ReplayCapacity
        /\ live' \in Seq(Envelopes) /\ Len(live') <= LiveCapacity /\ lagged' \in BOOLEAN
        /\ ViewInv'
    BY <1>1, EmitKeeps DEF ViewSide
  <1>3. sampled' \in {<<>>, <<TRUE>>, <<FALSE>>}
    BY DEF ViewSide, ServerTypes
  <1>4. ServerTypes'
    BY <1>2, <1>3 DEF ServerTypes
  <1>5. LinkTypes'
    BY <1>1, <1>2 DEF ViewSide, LinkTypes
  <1> QED
    BY <1>2, <1>4, <1>5 DEF ViewSide

LEMMA TakeMutationView ==
    ASSUME ViewSide, InputTypes, TakeMutation
    PROVE  /\ ViewSide'
           /\ Covered(Head(inputQueue)) => server' = server
           /\ ~Covered(Head(inputQueue)) => \A f \in Fields :
                  server'.view[f] = IF f = Head(inputQueue).field THEN Head(inputQueue).value ELSE server.view[f]
  <1> DEFINE m == Head(inputQueue)
             d == Change(m.field, m.value)
  <1>1. m \in Mutations
    BY SeenTail DEF InputTypes, TakeMutation
  <1>2. /\ UNCHANGED <<pending, connection, client, sampled>> /\ pass' = "poll"
        /\ \/ Covered(m) /\ UNCHANGED <<server, replay, live, lagged>>
           \/ ~Covered(m) /\ server.view[m.field] = m.value /\ UNCHANGED <<server, replay, live, lagged>>
           \/ ~Covered(m) /\ Emit(<<d>>)
    BY DEF TakeMutation
  <1>3. m.field \in Fields /\ m.value \in BOOLEAN /\ m.field \in InputFields
    BY <1>1, FieldsKnown DEF Mutations
  <1> HIDE DEF m
  <1>4. d \in Changes /\ d.field = m.field /\ d.value = m.value
    BY <1>3 DEF Changes, Change
  <1> HIDE DEF d
  <1>5. ASSUME UNCHANGED <<server, replay, live, lagged>>
        PROVE  ViewSide'
    <2>1. UNCHANGED <<server, replay, pending, live, lagged, task, wire, asked, client, sampled>> /\ pass' = "poll"
      BY <1>2, <1>5 DEF connection
    <2>2. ServerTypes' /\ LinkTypes'
      BY <2>1 DEF ViewSide, ServerTypes, LinkTypes
    <2> QED
      BY <2>1, <2>2, QuietKeeps DEF ViewSide
  <1>6. ASSUME Emit(<<d>>)
        PROVE  ViewSide'
    <2>1. <<d>> \in Seq(Changes)
      BY <1>4
    <2>2. ViewSide' /\ server'.view = AppliedAll(server.view, <<d>>)
      BY <1>2, <1>6, <2>1, EmitView
    <2> QED
      BY <2>2
  <1>7. ASSUME ~Covered(m), NEW f \in Fields
        PROVE  server'.view[f] = IF f = m.field THEN m.value ELSE server.view[f]
    <2>1. CASE server.view[m.field] = m.value /\ server' = server
      BY <2>1
    <2>2. CASE Emit(<<d>>)
      <3>1. <<d>> \in Seq(Changes) /\ server.view \in Views
        BY <1>4 DEF ViewSide, ServerTypes, Servers
      <3>2. server'.view = AppliedAll(server.view, <<d>>)
        BY <1>2, <2>2, <3>1, EmitView
      <3> QED
        BY <1>4, <3>1, <3>2, AppliedSingle
    <2> QED
      BY <1>2, <1>7, <2>1, <2>2
  <1>8. ViewSide'
    BY <1>2, <1>5, <1>6
  <1>9. Covered(m) => server' = server
    BY <1>2
  <1> QED
    BY <1>7, <1>8, <1>9 DEF m

LEMMA TakePointerView ==
    ASSUME ViewSide, InputTypes, TakePointer
    PROVE  ViewSide' /\ \A f \in InputFields : server'.view[f] = server.view[f]
  <1> DEFINE d == Change("pointer", pointer.value)
  <1>1. d \in Changes /\ d.field = "pointer"
    BY FieldsKnown DEF InputTypes, Changes, Change
  <1>2. /\ Emit(<<d>>) /\ UNCHANGED <<pending, connection, client, sampled>> /\ pass' = "poll"
    BY DEF TakePointer
  <1> HIDE DEF d
  <1>3. <<d>> \in Seq(Changes) /\ server.view \in Views
    BY <1>1 DEF ViewSide, ServerTypes, Servers
  <1>4. ViewSide' /\ server'.view = AppliedAll(server.view, <<d>>)
    BY <1>2, <1>3, EmitView
  <1> QED
    BY <1>1, <1>3, <1>4, AppliedSingle, FieldsKnown

LEMMA ReconcileView ==
    ASSUME ViewSide, InputTypes, Reconcile
    PROVE  ViewSide' /\ \A f \in InputFields : server'.view[f] = auth.input[f]
  <1>1. /\ Emit(Differences) /\ UNCHANGED <<pending, connection, client>>
        /\ pass' = "poll" /\ sampled' = <<>> /\ sampled # <<>>
    BY DEF Reconcile, CoverProjection
  <1>2. Differences \in Seq(Changes)
    BY <1>1, DifferencesTell DEF ViewSide
  <1>3. ViewSide' /\ server'.view = AppliedAll(server.view, Differences)
    BY <1>1, <1>2, EmitView
  <1>4. \A f \in InputFields : server'.view[f] = Projection[f]
    BY <1>1, <1>3, ReconcileShows, FieldsKnown DEF ViewSide
  <1> QED
    BY <1>1, <1>3, <1>4, ProjectionTyped DEF ViewSide

LEMMA RebuildView ==
    ASSUME ViewSide, InputTypes, Rebuild
    PROVE  ViewSide' /\ \A f \in InputFields : server'.view[f] = auth.input[f]
  <1> DEFINE t == Replacement
             r == ResyncRequired(t)
             s == Snapshot(t)
  <1>1. /\ server' = t /\ replay' = <<>> /\ Broadcast(<<r, s>>)
        /\ UNCHANGED <<pending, task, wire, asked, client>>
        /\ pass' = "poll" /\ sampled' = <<>> /\ sampled # <<>>
    BY DEF Rebuild, CoverProjection, connection
  <1>2. /\ t \in Servers /\ t.boot = server.boot + 1 /\ t.rev = 0 /\ t.view = Projection
        /\ server \in Servers /\ server.boot \in Nat
    <2>1. Projection \in Views /\ server \in Servers
      BY <1>1, ProjectionTyped DEF ViewSide, ServerTypes
    <2>2. server.boot \in Nat /\ server.boot + 1 \in Nat
      BY <2>1 DEF Servers
    <2> QED
      BY <2>1, <2>2 DEF Replacement, Servers
  <1> HIDE DEF t
  <1>3. r \in Envelopes /\ s \in Envelopes /\ r.type = "resync" /\ s.type = "snapshot" /\ At(s) = t
    BY <1>2 DEF Snapshot, ResyncRequired, Envelopes, Servers, At
  <1> HIDE DEF r, s
  <1>4. <<r, s>> \in Seq(Envelopes) /\ Seen(<<r, s>>) = {r, s}
    <2>1. r \in Envelopes /\ s \in Envelopes
      BY <1>3
    <2> QED
      BY <2>1, PairTyped, ZenonT(60), SMTT(60)
  <1>5. /\ live' \in Seq(Envelopes) /\ Len(live') <= LiveCapacity /\ lagged' \in BOOLEAN
        /\ \A e \in Seen(live') : e \in Seen(live) \/ e \in Seen(<<r, s>>)
    BY <1>1, <1>4, BroadcastKeeps DEF ViewSide
  <1>6. replay' \in Seq(Deltas) /\ Len(replay') <= ReplayCapacity /\ Seen(replay') = {}
    <2>1. <<>> \in Seq(Deltas) /\ Len(<<>>) = 0 /\ Seen(<<>>) = {}
      BY DEF Seen
    <2> QED
      BY <1>1, <2>1, FieldsKnown
  <1>7. ServerTypes' /\ LinkTypes'
    BY <1>1, <1>2, <1>5, <1>6 DEF ViewSide, ServerTypes, LinkTypes
  <1>8. \A e \in Sent' : e \in Sent \/ e = r \/ e = s
    <2>1. Seen(pending') = Seen(pending) /\ Seen(wire') = Seen(wire)
      BY <1>1
    <2>2. Sent' = Seen(replay') \cup Seen(pending') \cup Seen(live') \cup Seen(wire')
      BY DEF Sent, Seen
    <2> QED
      BY <1>4, <1>5, <1>6, <2>1, <2>2 DEF Sent
  <1>9. Carried' \subseteq Carried
    BY <1>3, <1>8 DEF Carried
  <1>10. Points' \subseteq Points \cup {t}
    <2>1. Points' = {At(e) : e \in {x \in Sent' : x.type \in {"delta", "snapshot"}}} \cup {server', Held'}
      BY DEF Points, At
    <2>2. Held' = Held /\ Held \in Points
      BY <1>1 DEF Held, Points
    <2>3. \A e \in Sent' : e.type \in {"delta", "snapshot"} => At(e) \in Points \cup {t}
      BY <1>3, <1>8, SentKnown DEF ViewSide
    <2> QED
      BY <1>1, <2>1, <2>2, <2>3
  <1>11. ViewInv'
    <2>1. /\ Points \subseteq Servers /\ \A d \in Carried : d.boot \in Nat /\ At(d) \in Points
          /\ Agree(Points, Carried, server)
      BY SentKnown DEF ViewSide, ViewInv
    <2> DEFINE P == Points'
               D == Carried'
    <2> HIDE DEF P, D
    <2>2. P \subseteq Points \cup {t} /\ D \subseteq Carried
      BY <1>9, <1>10 DEF P, D
    <2>3. Agree(P, D, t)
      BY <1>2, <2>1, <2>2, AgreeFresh
    <2>4. client'.view = client'.truth
      BY <1>1 DEF ViewSide, ViewInv
    <2>5. Agree(Points', Carried', server')
      BY <1>1, <2>3 DEF P, D
    <2> QED
      BY <2>4, <2>5 DEF ViewInv, Agree, Applied
  <1> QED
    BY <1>1, <1>2, <1>7, <1>11, ProjectionTyped DEF ViewSide

LEMMA TaskTyped ==
    ASSUME task \in Tasks, NEW a \in {"down", "subscribing", "stream", "recovering"}, NEW c \in Cursors
    PROVE  /\ [task EXCEPT !.at = a] \in Tasks /\ [task EXCEPT !.at = a].at = a
           /\ [at |-> a, cursor |-> c] \in Tasks /\ NoCursor \in Cursors
  BY SMTT(60), ZenonT(60) DEF Tasks, Cursors, NoCursor

LEMMA WireGrows ==
    ASSUME ViewSide, NEW e \in Envelopes, wire' = Append(wire, e)
    PROVE  wire' \in Seq(Envelopes) /\ Len(wire') = Len(wire) + 1 /\ Seen(wire') = Seen(wire) \cup {e}
           /\ Len(wire) \in Nat
  <1>1. wire \in Seq(Envelopes)
    BY DEF ViewSide, LinkTypes
  <1>2. /\ Append(wire, e) \in Seq(Envelopes) /\ Len(Append(wire, e)) = Len(wire) + 1
        /\ Seen(Append(wire, e)) = Seen(wire) \cup {e} /\ Len(wire) \in Nat
    BY <1>1, SeenAppend
  <1> QED
    BY <1>2

LEMMA SendNextView ==
    ASSUME ViewSide, SendNext
    PROVE  ViewSide'
  <1>1. /\ task.at = "stream" /\ Len(wire) < WireCapacity
        /\ UNCHANGED <<pass, sampled, server, replay, asked, client>>
    BY DEF SendNext, WireHasRoom, aggregator, actor
  <1>2. ServerTypes'
    BY <1>1 DEF ViewSide, ServerTypes
  <1>3. ASSUME pending # <<>>, wire' = Append(wire, Head(pending)), pending' = Tail(pending),
               UNCHANGED <<live, lagged, task>>
        PROVE  ViewSide'
    <2> DEFINE h == Head(pending)
    <2>1. /\ h \in Envelopes /\ h \in Seen(pending)
          /\ Tail(pending) \in Seq(Envelopes) /\ Seen(Tail(pending)) \subseteq Seen(pending)
      BY <1>3, SeenTail DEF ViewSide, LinkTypes
    <2>2. wire' = Append(wire, h)
      BY <1>3
    <2> HIDE DEF h
    <2>3. wire' \in Seq(Envelopes) /\ Len(wire') = Len(wire) + 1 /\ Seen(wire') = Seen(wire) \cup {h} /\ Len(wire) \in Nat
      BY <2>1, <2>2, WireGrows
    <2>4. LinkTypes'
      BY <1>1, <1>3, <2>1, <2>3, FieldsKnown DEF ViewSide, LinkTypes
    <2>5. \A e \in Sent' : e \in Sent
      <3>1. Sent' = Seen(replay') \cup Seen(pending') \cup Seen(live') \cup Seen(wire')
        BY DEF Sent, Seen
      <3>2. replay' = replay /\ live' = live /\ pending' = Tail(pending)
        BY <1>1, <1>3
      <3> QED
        BY <2>1, <2>3, <3>1, <3>2 DEF Sent
    <2> QED
      BY <1>1, <1>2, <2>4, <2>5, SentFewer DEF ViewSide
  <1>4. ASSUME lagged' = FALSE, task' = [task EXCEPT !.at = "recovering"], UNCHANGED <<wire, pending, live>>
        PROVE  ViewSide'
    <2>1. task' \in Tasks
      BY <1>4, TaskTyped DEF ViewSide, LinkTypes, Tasks
    <2>2. LinkTypes'
      BY <1>1, <1>4, <2>1 DEF ViewSide, LinkTypes
    <2> QED
      BY <1>1, <1>2, <1>4, <2>2, QuietKeeps DEF ViewSide
  <1>5. ASSUME live # <<>>, wire' = Append(wire, Head(live)), live' = Tail(live),
               UNCHANGED <<pending, lagged, task>>
        PROVE  ViewSide'
    <2> DEFINE h == Head(live)
    <2>1. /\ h \in Envelopes /\ h \in Seen(live)
          /\ Tail(live) \in Seq(Envelopes) /\ Seen(Tail(live)) \subseteq Seen(live)
          /\ Len(Tail(live)) = Len(live) - 1 /\ Len(live) \in Nat /\ Len(live) <= LiveCapacity
      BY <1>5, SeenTail DEF ViewSide, LinkTypes
    <2>2. wire' = Append(wire, h)
      BY <1>5
    <2> HIDE DEF h
    <2>3. wire' \in Seq(Envelopes) /\ Len(wire') = Len(wire) + 1 /\ Seen(wire') = Seen(wire) \cup {h} /\ Len(wire) \in Nat
      BY <2>1, <2>2, WireGrows
    <2>4. LinkTypes'
      BY <1>1, <1>5, <2>1, <2>3, FieldsKnown DEF ViewSide, LinkTypes
    <2>5. \A e \in Sent' : e \in Sent
      <3>1. Sent' = Seen(replay') \cup Seen(pending') \cup Seen(live') \cup Seen(wire')
        BY DEF Sent, Seen
      <3>2. replay' = replay /\ pending' = pending /\ live' = Tail(live)
        BY <1>1, <1>5
      <3> QED
        BY <2>1, <2>3, <3>1, <3>2 DEF Sent
    <2> QED
      BY <1>1, <1>2, <2>4, <2>5, SentFewer DEF ViewSide
  <1> QED
    BY <1>3, <1>4, <1>5 DEF SendNext

LEMMA TickView ==
    ASSUME ViewSide, Tick
    PROVE  ViewSide'
  <1> DEFINE h == Heartbeat(server)
  <1>1. /\ Len(wire) < WireCapacity /\ wire' = Append(wire, h) /\ task' = [task EXCEPT !.at = "stream"]
        /\ UNCHANGED <<pass, sampled, server, replay, pending, live, lagged, asked, client>>
    BY DEF Tick, WireHasRoom, aggregator, actor, subscriber
  <1>2. h \in Envelopes /\ h.type = "heartbeat"
    BY EnvelopesTyped DEF ViewSide
  <1> HIDE DEF h
  <1>3. wire' \in Seq(Envelopes) /\ Len(wire') = Len(wire) + 1 /\ Seen(wire') = Seen(wire) \cup {h} /\ Len(wire) \in Nat
    BY <1>1, <1>2, WireGrows
  <1>4. task' \in Tasks /\ task'.at = "stream"
    BY <1>1, TaskTyped DEF ViewSide, LinkTypes, Tasks
  <1>5. ServerTypes' /\ LinkTypes'
    <2>1. Len(wire') <= WireCapacity /\ UNCHANGED <<pass, sampled, server, replay, pending, live, lagged, asked, client>>
      BY <1>1, <1>3, FieldsKnown
    <2> QED
      BY <1>3, <1>4, <2>1 DEF ViewSide, ServerTypes, LinkTypes
  <1>6. \A e \in Sent' : e \in Sent \/ e.type = "heartbeat"
    <2>1. Sent' = Seen(replay') \cup Seen(pending') \cup Seen(live') \cup Seen(wire')
      BY DEF Sent, Seen
    <2>2. replay' = replay /\ pending' = pending /\ live' = live
      BY <1>1
    <2> QED
      BY <1>2, <1>3, <2>1, <2>2 DEF Sent
  <1> QED
    BY <1>1, <1>5, <1>6, SentFewer DEF ViewSide

LEMMA ConnectionView ==
    ASSUME ViewSide, ReadResync \/ Disconnect \/ Connect
    PROVE  ViewSide'
  <1>1. UNCHANGED <<pass, sampled, server, replay, client>>
    BY DEF ReadResync, Disconnect, Connect, aggregator, actor
  <1>2. ServerTypes'
    BY <1>1 DEF ViewSide, ServerTypes
  <1>3. <<client.boot, client.rev>> \in Cursors /\ NoCursor \in Cursors
    BY DEF ViewSide, LinkTypes, Clients, Cursors, NoCursor
  <1>4. CASE ReadResync \/ Connect
    <2>1. UNCHANGED <<pending, live, lagged, wire>> /\ asked' \in BOOLEAN
      BY <1>4 DEF ReadResync, Connect, subscriber, ViewSide, LinkTypes
    <2>2. task' \in Tasks /\ task'.at = "subscribing"
      <3> DEFINE c == IF client.resync \/ client.boot = 0 THEN NoCursor ELSE <<client.boot, client.rev>>
      <3>1. c \in Cursors
        BY <1>3
      <3>2. task' = [at |-> "subscribing", cursor |-> c] \/ task' = [at |-> "subscribing", cursor |-> NoCursor]
        BY <1>4 DEF ReadResync, Connect
      <3> HIDE DEF c
      <3> QED
        BY <1>3, <3>1, <3>2, TaskTyped DEF ViewSide, LinkTypes
    <2>3. LinkTypes'
      BY <1>1, <2>1, <2>2 DEF ViewSide, LinkTypes
    <2> QED
      BY <1>1, <1>2, <2>1, <2>3, QuietKeeps DEF ViewSide
  <1>5. CASE Disconnect
    <2>1. /\ task' = [at |-> "down", cursor |-> NoCursor] /\ asked' = FALSE /\ lagged' = FALSE
          /\ wire' = <<>> /\ pending' = <<>> /\ live' = <<>>
      BY <1>5 DEF Disconnect
    <2>2. task' \in Tasks /\ task'.at = "down"
      BY <1>3, <2>1, TaskTyped DEF ViewSide, LinkTypes
    <2>3. <<>> \in Seq(Envelopes) /\ Len(<<>>) = 0 /\ Seen(<<>>) = {}
      BY DEF Seen
    <2>4. LinkTypes'
      <3>1. /\ wire' \in Seq(Envelopes) /\ Len(wire') <= WireCapacity
            /\ pending' \in Seq(Envelopes) /\ live' \in Seq(Envelopes) /\ Len(live') <= LiveCapacity
        BY <2>1, <2>3, FieldsKnown
      <3>2. lagged' = FALSE /\ asked' = FALSE /\ client' = client /\ client \in Clients
        BY <1>1, <2>1 DEF ViewSide, LinkTypes
      <3> QED
        BY <2>2, <3>1, <3>2 DEF LinkTypes
    <2>5. \A e \in Sent' : e \in Sent
      <3>1. Sent' = Seen(replay') \cup Seen(pending') \cup Seen(live') \cup Seen(wire')
        BY DEF Sent, Seen
      <3>2. Seen(replay') = Seen(replay)
        BY <1>1
      <3> QED
        BY <2>1, <2>3, <3>1, <3>2 DEF Sent
    <2> QED
      BY <1>1, <1>2, <2>4, <2>5, SentFewer DEF ViewSide
  <1> QED
    BY <1>4, <1>5

LEMMA ServeView ==
    ASSUME ViewSide, ServeStep
    PROVE  ViewSide'
  <1>1. UNCHANGED <<sampled, server, replay, client, asked>> /\ pass' = "poll"
        /\ live' = <<>> /\ lagged' = FALSE
    BY DEF ServeStep, HandleSubscribe, HandleRecoverLag
  <1>2. ServerTypes'
    BY <1>1 DEF ViewSide, ServerTypes
  <1>3. <<>> \in Seq(Envelopes) /\ Len(<<>>) = 0 /\ Seen(<<>>) = {} /\ NoCursor \in Cursors
    BY DEF Seen, NoCursor, Cursors
  <1>4. CASE HandleSubscribe
    <2> DEFINE a == Answer(task.cursor)
    <2>1. /\ a \in Seq(Envelopes)
          /\ \A e \in Seen(a) : e \in Seen(replay) \/ e.type \in {"heartbeat", "resync"} \/ e = Snapshot(server)
      BY AnswerTyped DEF ViewSide
    <2>2. pending' = a /\ wire' = wire /\ task' = [at |-> "stream", cursor |-> NoCursor]
      BY <1>4 DEF HandleSubscribe
    <2> HIDE DEF a
    <2>3. task' \in Tasks /\ task'.at = "stream"
      BY <1>3, <2>2, TaskTyped DEF ViewSide, LinkTypes
    <2>4. LinkTypes'
      <3>1. pending' \in Seq(Envelopes) /\ live' \in Seq(Envelopes) /\ Len(live') <= LiveCapacity
        BY <1>1, <1>3, <2>1, <2>2, FieldsKnown
      <3>2. lagged' = FALSE /\ asked' = asked /\ client' = client /\ wire' = wire
        BY <1>1, <2>2
      <3> QED
        BY <2>3, <3>1, <3>2 DEF ViewSide, LinkTypes
    <2>5. \A e \in Sent' : e \in Sent \/ e.type \in {"heartbeat", "resync"} \/ e = Snapshot(server)
      <3>1. Sent' = Seen(replay') \cup Seen(pending') \cup Seen(live') \cup Seen(wire')
        BY DEF Sent, Seen
      <3>2. replay' = replay
        BY <1>1
      <3> QED
        BY <1>1, <1>3, <2>1, <2>2, <3>1, <3>2 DEF Sent
    <2> QED
      BY <1>1, <1>2, <2>4, <2>5, SentFewer DEF ViewSide
  <1>5. CASE HandleRecoverLag
    <2> DEFINE s == Snapshot(server)
               r == ResyncRequired(server)
    <2>1. /\ pending' = Append(pending, s) /\ wire' = Append(wire, r)
          /\ task' = [task EXCEPT !.at = "stream"] /\ task.at = "recovering"
      BY <1>5 DEF HandleRecoverLag
    <2>2. s \in Envelopes /\ r \in Envelopes /\ r.type = "resync"
      BY EnvelopesTyped DEF ViewSide
    <2>3. s = Snapshot(server)
      OBVIOUS
    <2> HIDE DEF s, r
    <2>4. pending' \in Seq(Envelopes) /\ Seen(pending') = Seen(pending) \cup {s}
      <3>1. pending \in Seq(Envelopes)
        BY DEF ViewSide, LinkTypes
      <3>2. Append(pending, s) \in Seq(Envelopes) /\ Seen(Append(pending, s)) = Seen(pending) \cup {s}
        BY <2>2, <3>1, SeenAppend
      <3> QED
        BY <2>1, <3>2
    <2>5. wire' \in Seq(Envelopes) /\ Len(wire') = Len(wire) + 1 /\ Seen(wire') = Seen(wire) \cup {r} /\ Len(wire) \in Nat
      BY <2>1, <2>2, WireGrows
    <2>6. task' \in Tasks /\ task'.at = "stream"
      BY <2>1, TaskTyped DEF ViewSide, LinkTypes, Tasks
    <2>7. LinkTypes'
      <3>1. live' \in Seq(Envelopes) /\ Len(live') <= LiveCapacity
        BY <1>1, <1>3, FieldsKnown
      <3>2. Len(wire') <= WireCapacity
        BY <2>1, <2>5, FieldsKnown DEF ViewSide, LinkTypes
      <3>3. lagged' = FALSE /\ asked' = asked /\ client' = client
        BY <1>1
      <3> QED
        BY <2>4, <2>5, <2>6, <3>1, <3>2, <3>3 DEF ViewSide, LinkTypes
    <2>8. \A e \in Sent' : e \in Sent \/ e.type = "resync" \/ e = Snapshot(server)
      <3>1. Sent' = Seen(replay') \cup Seen(pending') \cup Seen(live') \cup Seen(wire')
        BY DEF Sent, Seen
      <3>2. replay' = replay
        BY <1>1
      <3> QED
        BY <1>1, <1>3, <2>2, <2>3, <2>4, <2>5, <3>1, <3>2 DEF Sent
    <2> QED
      BY <1>1, <1>2, <2>7, <2>8, SentFewer DEF ViewSide
  <1> QED
    BY <1>4, <1>5 DEF ServeStep

LEMMA ReceiveView ==
    ASSUME ViewSide, Receive
    PROVE  ViewSide'
  <1> DEFINE e == Head(wire)
  <1>1. /\ wire # <<>> /\ wire' = Tail(wire) /\ HandleEnvelope(e)
        /\ UNCHANGED <<pass, sampled, server, replay, pending, live, lagged, task>>
    BY DEF Receive, aggregator, actor, subscriber
  <1>2. /\ e \in Envelopes /\ e \in Seen(wire) /\ Tail(wire) \in Seq(Envelopes)
        /\ Len(Tail(wire)) = Len(wire) - 1 /\ Seen(Tail(wire)) \subseteq Seen(wire) /\ Len(wire) \in Nat
    BY <1>1, SeenTail DEF ViewSide, LinkTypes
  <1> HIDE DEF e
  <1>3. /\ client \in Clients /\ client.view = client.truth /\ asked \in BOOLEAN
        /\ client.view \in Views /\ client.boot \in Nat /\ client.rev \in Nat
    BY DEF ViewSide, ViewInv, LinkTypes, Clients
  <1>4. /\ client' \in Clients /\ client'.view = client'.truth /\ asked' \in BOOLEAN
        /\ Held' \in Points
    <2>1. CASE e.type = "snapshot" /\ TakeSnapshot(e) /\ UNCHANGED asked
      <3>1. e.boot \in Nat /\ e.rev \in Nat /\ e.view \in Views
        BY <1>2, <2>1 DEF Envelopes, Deltas
      <3>2. client' = [boot |-> e.boot, rev |-> e.rev, view |-> e.view, truth |-> e.view, resync |-> FALSE]
        BY <2>1 DEF TakeSnapshot
      <3>3. Held' = At(e)
        BY <3>2 DEF Held, At
      <3>4. At(e) \in Points
        BY <1>2, <2>1 DEF Points, Sent
      <3>5. client' \in Clients /\ client'.view = client'.truth
        BY <3>1, <3>2 DEF Clients
      <3> QED
        BY <1>3, <2>1, <3>3, <3>4, <3>5
    <2>2. CASE e.type = "delta" /\ IsNextRevision(e) /\ Accept(e, Applied(client.view, e.change)) /\ UNCHANGED asked
      <3>1. e \in Deltas /\ e.boot \in Nat /\ e.rev \in Nat /\ e.view \in Views
        BY <1>2, <2>2 DEF Envelopes, Deltas
      <3>2. At(e) \in Points /\ e \in Carried
        BY <1>2, <2>2 DEF Points, Sent, Carried
      <3> DEFINE w == Applied(client.view, e.change)
      <3>3. client' = [client EXCEPT !.boot = e.boot, !.rev = e.rev, !.view = w, !.truth = e.view]
        BY <2>2 DEF Accept
      <3>4. w = e.view
        <4>1. Held \in Points /\ Held.boot = client.boot /\ Held.rev = client.rev /\ Held.view = client.view
          BY <1>3 DEF Held, Points
        <4>2. e.boot = Held.boot /\ e.rev = Held.rev + 1
          BY <2>2, <4>1 DEF IsNextRevision
        <4>3. e.view = Applied(Held.view, e.change)
          BY <3>2, <4>1, <4>2 DEF ViewSide, ViewInv, Agree
        <4> QED
          BY <4>1, <4>3
      <3> HIDE DEF w
      <3>5. /\ client'.boot = e.boot /\ client'.rev = e.rev /\ client'.view = w /\ client'.truth = e.view
            /\ client' \in Clients
        BY <1>3, <3>1, <3>3, <3>4 DEF Clients
      <3>6. Held' = At(e)
        BY <3>5 DEF Held, At
      <3> QED
        BY <1>3, <2>2, <3>2, <3>4, <3>5, <3>6
    <2>3. CASE UNCHANGED <<client, asked>>
      BY <1>3, <2>3 DEF Held, Points
    <2>4. CASE RequestFullResync
      <3>1. client' = [client EXCEPT !.resync = TRUE] /\ asked' \in BOOLEAN
        BY <1>3, <2>4 DEF RequestFullResync
      <3>2. /\ client' \in Clients /\ client'.view = client.view /\ client'.truth = client.truth
            /\ client'.boot = client.boot /\ client'.rev = client.rev
        BY <1>3, <3>1 DEF Clients
      <3>3. Held' = Held
        BY <3>2 DEF Held
      <3> QED
        BY <1>3, <3>1, <3>2, <3>3 DEF Points
    <2> QED
      BY <1>1, <2>1, <2>2, <2>3, <2>4 DEF HandleEnvelope
  <1>5. ServerTypes'
    BY <1>1 DEF ViewSide, ServerTypes
  <1>6. LinkTypes'
    BY <1>1, <1>2, <1>4, FieldsKnown DEF ViewSide, LinkTypes
  <1>7. Sent' \subseteq Sent
    <2>1. Sent' = Seen(replay') \cup Seen(pending') \cup Seen(live') \cup Seen(wire')
      BY DEF Sent, Seen
    <2>2. replay' = replay /\ pending' = pending /\ live' = live
      BY <1>1
    <2> QED
      BY <1>1, <1>2, <2>1, <2>2 DEF Sent
  <1>8. Carried' \subseteq Carried
    BY <1>7 DEF Carried
  <1>9. Points' \subseteq Points
    <2>1. Points' = {At(x) : x \in {y \in Sent' : y.type \in {"delta", "snapshot"}}} \cup {server', Held'}
      BY DEF Points, At
    <2>2. \A x \in Sent' : x.type \in {"delta", "snapshot"} => At(x) \in Points
      BY <1>7 DEF Points
    <2>3. server' \in Points
      BY <1>1 DEF Points
    <2> QED
      BY <1>4, <2>1, <2>2, <2>3
  <1>10. ViewInv'
    <2> DEFINE P == Points'
               D == Carried'
    <2> HIDE DEF P, D
    <2>1. P \subseteq Points /\ D \subseteq Carried
      BY <1>8, <1>9 DEF P, D
    <2>2. Agree(P, D, server)
      BY <2>1, AgreeFewer DEF ViewSide, ViewInv
    <2>3. Agree(Points', Carried', server')
      BY <1>1, <2>2 DEF P, D
    <2> QED
      BY <1>4, <2>3 DEF ViewInv, Agree, Applied
  <1> QED
    BY <1>5, <1>6, <1>10 DEF ViewSide

InputSide == InputTypes /\ InputInv

LEMMA OutstandingKnown ==
    ASSUME InputTypes
    PROVE  /\ Outstanding \subseteq Mutations
           /\ \A m \in Outstanding : m.gen \in Nat /\ m.field \in InputFields /\ m.value \in BOOLEAN
           /\ auth.gen \in Nat /\ cut \in Nat /\ dropped \in Nat /\ dropped <= auth.gen /\ cut <= auth.gen
           /\ Len(inputQueue) \in Nat /\ DOMAIN inputQueue = 1 .. Len(inputQueue)
           /\ \A i \in DOMAIN inputQueue : inputQueue[i] \in Outstanding
           /\ publisher.at = "send" => publisher.mutation \in Outstanding
  <1>1. publisher.at = "send" => publisher.mutation \in Mutations
    BY DEF InputTypes, Publishers
  <1>2. \A i \in DOMAIN inputQueue : inputQueue[i] \in Mutations
    BY DEF InputTypes
  <1>3. Outstanding \subseteq Mutations
    BY <1>1, <1>2 DEF Outstanding, Seen
  <1>4. auth.gen \in Nat /\ cut \in Nat /\ dropped \in Nat /\ dropped <= auth.gen /\ cut <= auth.gen
    <2>1. auth.gen \in Nat /\ cut \in 0 .. auth.gen /\ dropped \in 0 .. auth.gen
      BY DEF InputTypes
    <2> QED
      BY <2>1
  <1>5. Len(inputQueue) \in Nat /\ DOMAIN inputQueue = 1 .. Len(inputQueue)
    BY DEF InputTypes
  <1> QED
    BY <1>3, <1>4, <1>5 DEF Outstanding, Seen, Mutations

\* Steps that leave the way of the mutations alone.
LEMMA InputQuiet ==
    ASSUME InputSide, UNCHANGED <<auth, publisher, inputQueue, dropped, lost, cut>>,
           \A f \in InputFields : server'.view[f] = server.view[f],
           dirty' \in BOOLEAN, dirty => dirty' \/ cut >= dropped \/ pass' = "rebuild",
           pass = "rebuild" => pass' = "rebuild",
           pointer' \in [value : BOOLEAN, fresh : BOOLEAN], base' \in BOOLEAN, due' \in BOOLEAN
    PROVE  InputSide'
  <1>1. InputTypes'
    BY DEF InputSide, InputTypes
  <1>2. Ascending'
    BY DEF InputSide, InputInv, Ascending, Outstanding, Seen
  <1>3. dropped \in Nat /\ cut \in Nat
    BY OutstandingKnown DEF InputSide
  <1>4. MarkKnown'
    BY <1>3 DEF InputSide, InputInv, MarkKnown
  <1>5. Outstanding' = Outstanding
    BY DEF Outstanding, Seen
  <1>6. ~lost /\ dropped <= cut => \A f \in InputFields : Shows(f)
    BY DEF InputSide, InputInv
  <1>7. ASSUME ~lost', dropped' <= cut', NEW f \in InputFields
        PROVE  Shows(f)'
    <2>1. Shows(f)
      BY <1>6, <1>7
    <2> QED
      BY <1>5, <2>1 DEF Shows
  <1> QED
    BY <1>1, <1>2, <1>4, <1>7 DEF InputSide, InputInv

LEMMA PublishInput ==
    ASSUME InputSide, NEW f \in InputFields, NEW b \in BOOLEAN, Publish(f, b)
    PROVE  InputSide'
  <1> DEFINE g == auth.gen + 1
             m == [gen |-> g, field |-> f, value |-> b]
  <1>1. /\ publisher.at = "idle"
        /\ auth' = [gen |-> g, input |-> [auth.input EXCEPT ![f] = b]]
        /\ UNCHANGED <<inputQueue, dirty, dropped, lost, pointer, base, due, pass, cut, server>>
        /\ \/ b = auth.input[f] /\ publisher' = publisher
           \/ publisher' = [at |-> "send", mutation |-> m]
    BY DEF Publish, daemon, actor
  <1>2. /\ g \in Nat /\ g > auth.gen /\ auth.gen \in Nat /\ auth.input \in [InputFields -> BOOLEAN]
        /\ cut \in Nat /\ dropped \in Nat /\ dropped < g /\ cut < g
    <2>1. auth \in [gen : Nat, input : [InputFields -> BOOLEAN]]
      BY DEF InputSide, InputTypes
    <2> QED
      BY <2>1, OutstandingKnown DEF InputSide
  <1>3. m \in Mutations /\ m.gen = g /\ m.field = f /\ m.value = b
    BY <1>2 DEF Mutations
  <1> HIDE DEF g, m
  <1>4. auth'.gen = g /\ auth' \in [gen : Nat, input : [InputFields -> BOOLEAN]]
        /\ \A h \in InputFields : auth'.input[h] = IF h = f THEN b ELSE auth.input[h]
    BY <1>1, <1>2
  <1>5. InputTypes'
    <2>1. publisher' \in Publishers
      BY <1>1, <1>3 DEF InputSide, InputTypes, Publishers
    <2>2. cut' \in 0 .. auth'.gen /\ dropped' \in 0 .. auth'.gen
      BY <1>1, <1>2, <1>4
    <2> QED
      BY <1>1, <1>4, <2>1, <2>2 DEF InputSide, InputTypes
  <1>6. MarkKnown'
    BY <1>1 DEF InputSide, InputInv, MarkKnown
  <1>7. \A n \in Outstanding : n.gen \in Nat /\ n.gen < g /\ n.gen # dropped
    BY <1>2, OutstandingKnown DEF InputSide, InputInv, Ascending
  <1>8. Outstanding = Seen(inputQueue)
    BY <1>1 DEF Outstanding
  <1>9. Seen(inputQueue') = Seen(inputQueue)
    BY <1>1
  <1>10. CASE b = auth.input[f] /\ publisher' = publisher
    <2>1. Outstanding' = Outstanding
      BY <1>1, <1>10 DEF Outstanding, Seen
    <2>2. Ascending'
      BY <1>1, <1>2, <1>4, <1>7, <1>10, <2>1 DEF InputSide, InputInv, Ascending
    <2>3. \A h \in InputFields : auth'.input[h] = auth.input[h]
      BY <1>4, <1>10
    <2>4. ASSUME ~lost', dropped' <= cut', NEW h \in InputFields
          PROVE  Shows(h)'
      <3>1. Shows(h)
        BY <1>1, <2>4 DEF InputSide, InputInv
      <3> QED
        BY <1>1, <2>1, <2>3, <3>1 DEF Shows
    <2> QED
      BY <1>5, <1>6, <2>2, <2>4 DEF InputSide, InputInv
  <1>11. CASE publisher' = [at |-> "send", mutation |-> m]
    <2>1. publisher'.at = "send" /\ publisher'.mutation = m
      BY <1>11
    <2>2. Outstanding' = Outstanding \cup {m}
      BY <1>8, <1>9, <2>1 DEF Outstanding, Seen
    <2>3. Ascending'
      <3>1. \A i, j \in DOMAIN inputQueue' : i < j => inputQueue'[i].gen < inputQueue'[j].gen
        BY <1>1 DEF InputSide, InputInv, Ascending
      <3>2. \A i \in DOMAIN inputQueue' : inputQueue'[i].gen < publisher'.mutation.gen
        BY <1>1, <1>3, <1>7, <1>8, <2>1 DEF Seen
      <3>3. \A n \in Outstanding' : n.gen <= auth'.gen /\ n.gen # dropped'
        BY <1>1, <1>2, <1>3, <1>4, <1>7, <2>2
      <3>4. dropped' < publisher'.mutation.gen
        BY <1>1, <1>2, <1>3, <2>1
      <3> QED
        BY <3>1, <3>2, <3>3, <3>4 DEF Ascending
    <2>4. ASSUME ~lost', dropped' <= cut', NEW h \in InputFields
          PROVE  Shows(h)'
      <3>1. Shows(h)
        BY <1>1, <2>4 DEF InputSide, InputInv
      <3>2. CASE h = f
        <4>1. \A n \in Outstanding' : /\ n.field = f
                                      /\ \A k \in Outstanding' : k.field = f => k.gen <= n.gen
                                      => n.value = auth'.input[f]
          BY <1>2, <1>3, <1>4, <1>7, <2>2
        <4>2. \E n \in Outstanding' : n.field = f /\ ~(n.gen <= cut')
          BY <1>1, <1>2, <1>3, <2>2
        <4> QED
          BY <3>2, <4>1, <4>2 DEF Shows
      <3>3. CASE h # f
        <4>1. \A n \in Outstanding' : n.field = h => n \in Outstanding
          BY <1>3, <2>2, <3>3
        <4>2. Outstanding \subseteq Outstanding' /\ auth'.input[h] = auth.input[h]
          BY <1>4, <2>2, <3>3
        <4> QED
          BY <1>1, <3>1, <4>1, <4>2 DEF Shows
      <3> QED
        BY <3>2, <3>3
    <2> QED
      BY <1>5, <1>6, <2>3, <2>4 DEF InputSide, InputInv
  <1> QED
    BY <1>1, <1>10, <1>11

LEMMA TrySendInput ==
    ASSUME InputSide, TrySend
    PROVE  InputSide'
  <1> DEFINE m == publisher.mutation
  <1>1. /\ publisher.at = "send"
        /\ UNCHANGED <<auth, dirty, lost, pointer, base, due, pass, cut, server>>
    BY DEF TrySend, daemon, actor
  <1>2. m \in Mutations /\ m \in Outstanding /\ m.gen \in Nat /\ m.gen <= auth.gen /\ auth.gen \in Nat
    BY <1>1, OutstandingKnown DEF InputSide, InputInv, Ascending, Mutations
  <1>3. inputQueue \in Seq(Mutations) /\ Len(inputQueue) \in Nat /\ DOMAIN inputQueue = 1 .. Len(inputQueue)
    BY OutstandingKnown DEF InputSide, InputTypes
  <1>4. \A i \in DOMAIN inputQueue : inputQueue[i].gen < m.gen /\ inputQueue[i] \in Outstanding
    BY <1>1, OutstandingKnown DEF InputSide, InputInv, Ascending
  <1>5. Outstanding = Seen(inputQueue) \cup {m}
    BY <1>1 DEF Outstanding
  <1> HIDE DEF m
  <1>6. [at |-> "idle"] \in Publishers /\ [at |-> "mark"] \in Publishers
    BY DEF Publishers
  <1>7. CASE /\ Len(inputQueue) < InputCapacity /\ inputQueue' = Append(inputQueue, m)
             /\ publisher' = [at |-> "idle"] /\ UNCHANGED dropped
    <2> DEFINE q == Append(inputQueue, m)
    <2>1. /\ q \in Seq(Mutations) /\ Len(q) = Len(inputQueue) + 1 /\ Seen(q) = Seen(inputQueue) \cup {m}
      BY <1>2, <1>3, SeenAppend
    <2>2. DOMAIN q = 1 .. Len(inputQueue) + 1 /\ q[Len(inputQueue) + 1] = m
          /\ \A i \in 1 .. Len(inputQueue) : q[i] = inputQueue[i]
      BY <1>2, <1>3
    <2>3. inputQueue' = q
      BY <1>7
    <2> HIDE DEF q
    <2>4. publisher'.at = "idle"
      BY <1>7
    <2>5. Outstanding' = Outstanding
      <3>1. Seen(inputQueue') = Seen(q)
        BY <2>3
      <3> QED
        BY <1>5, <2>1, <2>4, <3>1 DEF Outstanding, Seen
    <2>6. InputTypes'
      <3>1. Len(q) <= InputCapacity
        BY <1>3, <1>7, <2>1, FieldsKnown
      <3> QED
        BY <1>1, <1>6, <1>7, <2>1, <2>3, <3>1 DEF InputSide, InputTypes
    <2>7. Ascending'
      <3>1. \A i, j \in DOMAIN q : i < j => q[i].gen < q[j].gen
        <4> TAKE i, j \in DOMAIN q
        <4> HAVE i < j
        <4>1. i \in 1 .. Len(inputQueue) /\ (j \in 1 .. Len(inputQueue) \/ j = Len(inputQueue) + 1)
          BY <1>3, <2>2
        <4>2. CASE j \in 1 .. Len(inputQueue)
          BY <1>3, <2>2, <4>1, <4>2 DEF InputSide, InputInv, Ascending
        <4>3. CASE j = Len(inputQueue) + 1
          BY <1>3, <1>4, <2>2, <4>1, <4>3
        <4> QED
          BY <4>1, <4>2, <4>3
      <3> QED
        BY <1>1, <1>7, <2>3, <2>4, <2>5, <3>1 DEF InputSide, InputInv, Ascending
    <2>8. MarkKnown'
      BY <1>1, <1>7 DEF InputSide, InputInv, MarkKnown
    <2>9. ASSUME ~lost', dropped' <= cut', NEW f \in InputFields
          PROVE  Shows(f)'
      <3>1. Shows(f)
        BY <1>1, <1>7, <2>9 DEF InputSide, InputInv
      <3> QED
        BY <1>1, <2>5, <3>1 DEF Shows
    <2> QED
      BY <2>6, <2>7, <2>8, <2>9 DEF InputSide, InputInv
  <1>8. CASE publisher' = [at |-> "mark"] /\ dropped' = m.gen /\ UNCHANGED inputQueue
    <2>1. publisher'.at = "mark"
      BY <1>8
    <2>2. Outstanding' = Seen(inputQueue)
      <3>1. Seen(inputQueue') = Seen(inputQueue)
        BY <1>8
      <3> QED
        BY <2>1, <3>1 DEF Outstanding, Seen
    <2>3. \A n \in Outstanding' : n \in Outstanding /\ n.gen \in Nat /\ n.gen < m.gen
      BY <1>3, <1>4, <2>2, OutstandingKnown DEF Seen, InputSide
    <2>4. InputTypes'
      <3>1. dropped' \in 0 .. auth'.gen
        BY <1>1, <1>2, <1>8
      <3> QED
        BY <1>1, <1>6, <1>8, <3>1 DEF InputSide, InputTypes
    <2>5. Ascending'
      <3>1. \A n \in Outstanding' : n.gen <= auth'.gen /\ n.gen # dropped'
        BY <1>1, <1>2, <1>8, <2>3
      <3> QED
        BY <1>8, <2>1, <3>1 DEF InputSide, InputInv, Ascending
    <2>6. MarkKnown'
      BY <2>1 DEF MarkKnown
    <2>7. ASSUME ~lost', dropped' <= cut', NEW f \in InputFields
          PROVE  Shows(f)'
      <3>1. cut \in Nat /\ m.gen <= cut
        BY <1>1, <1>8, <2>7, OutstandingKnown DEF InputSide
      <3>2. \A n \in Outstanding' : n.gen < cut
        BY <1>2, <2>3, <3>1
      <3>3. dropped <= cut
        BY <1>1, <1>2, <3>1, OutstandingKnown DEF InputSide, InputInv, Ascending, m
      <3>4. Shows(f)
        BY <1>1, <2>7, <3>3 DEF InputSide, InputInv
      <3>5. \A n \in Outstanding : n \in Outstanding' \/ n = m
        BY <1>5, <2>2
      <3>6. \A n \in Outstanding' : ~(n.gen > cut)
        BY <3>1, <3>2, <2>3
      <3>7. (\A n \in Outstanding' : n.field = f => n.gen <= cut) => \A n \in Outstanding : n.field = f => n.gen <= cut
        BY <3>1, <3>5
      <3> QED
        BY <1>1, <3>4, <3>6, <3>7 DEF Shows
    <2> QED
      BY <2>4, <2>5, <2>6, <2>7 DEF InputSide, InputInv
  <1> QED
    BY <1>1, <1>7, <1>8 DEF TrySend, m

LEMMA MarkInput ==
    ASSUME InputSide, Mark
    PROVE  InputSide'
  <1>1. /\ publisher.at = "mark" /\ publisher' = [at |-> "idle"] /\ dirty' = TRUE
        /\ UNCHANGED <<auth, inputQueue, dropped, lost, pointer, base, due, cut, server>>
    BY DEF Mark, daemon, actor
  <1>2. publisher' \in Publishers /\ publisher'.at = "idle"
    BY <1>1 DEF Publishers
  <1>3. InputTypes'
    BY <1>1, <1>2 DEF InputSide, InputTypes
  <1>4. Outstanding' = Outstanding
    <2>1. Seen(inputQueue') = Seen(inputQueue)
      BY <1>1
    <2> QED
      BY <1>1, <1>2, <2>1 DEF Outstanding, Seen
  <1>5. Ascending'
    BY <1>1, <1>2, <1>4 DEF InputSide, InputInv, Ascending
  <1>6. MarkKnown'
    BY <1>1 DEF MarkKnown
  <1>7. ASSUME ~lost', dropped' <= cut', NEW f \in InputFields
        PROVE  Shows(f)'
    <2>1. Shows(f)
      BY <1>1, <1>7 DEF InputSide, InputInv
    <2> QED
      BY <1>1, <1>4, <2>1 DEF Shows
  <1> QED
    BY <1>3, <1>5, <1>6, <1>7 DEF InputSide, InputInv

\* A projection covers all that is on its way.
LEMMA CoverInput ==
    ASSUME InputSide, CoverProjection,
           UNCHANGED <<auth, publisher, inputQueue, dirty, dropped, base, due>>,
           \A f \in InputFields : server'.view[f] = auth.input[f]
    PROVE  InputSide'
  <1>1. /\ cut' = auth.gen /\ lost' = FALSE /\ pointer' = [pointer EXCEPT !.fresh = FALSE]
        /\ auth.gen \in Nat /\ dropped <= auth.gen /\ dropped \in Nat
    BY OutstandingKnown DEF CoverProjection, InputSide
  <1>2. cut' \in 0 .. auth'.gen /\ dropped' \in 0 .. auth'.gen
    BY <1>1
  <1>3. pointer' \in [value : BOOLEAN, fresh : BOOLEAN]
    BY <1>1 DEF InputSide, InputTypes
  <1>4. InputTypes'
    BY <1>1, <1>2, <1>3 DEF InputSide, InputTypes
  <1>5. Outstanding' = Outstanding
    BY DEF Outstanding, Seen
  <1>6. Ascending'
    BY <1>5 DEF InputSide, InputInv, Ascending
  <1>7. MarkKnown'
    BY <1>1 DEF MarkKnown
  <1>8. \A m \in Outstanding' : m.gen \in Nat /\ m.gen <= cut'
    BY <1>1, <1>5, OutstandingKnown DEF InputSide, InputInv, Ascending
  <1>9. \A m \in Outstanding' : ~(m.gen > cut')
    BY <1>1, <1>8
  <1>10. ASSUME NEW f \in InputFields
         PROVE  Shows(f)'
    BY <1>9 DEF Shows
  <1> QED
    BY <1>4, <1>6, <1>7, <1>10 DEF InputSide, InputInv

LEMMA TakeMutationInput ==
    ASSUME InputSide, ViewSide, TakeMutation
    PROVE  InputSide'
  <1> DEFINE m == Head(inputQueue)
  <1>1. /\ pass = "rest" /\ inputQueue # <<>> /\ inputQueue' = Tail(inputQueue)
        /\ UNCHANGED <<auth, publisher, dirty, dropped, pointer, base, due>>
        /\ \/ Covered(m) /\ UNCHANGED <<cut, lost>>
           \/ ~Covered(m) /\ cut' = m.gen /\ lost' = (lost \/ (cut < dropped /\ dropped < m.gen))
    BY DEF TakeMutation, input, daemon
  <1>2. /\ m = inputQueue[1] /\ m \in Mutations /\ Tail(inputQueue) \in Seq(Mutations)
        /\ Len(Tail(inputQueue)) = Len(inputQueue) - 1
        /\ \A i \in DOMAIN Tail(inputQueue) : i + 1 \in DOMAIN inputQueue /\ Tail(inputQueue)[i] = inputQueue[i + 1]
        /\ Seen(Tail(inputQueue)) \subseteq Seen(inputQueue)
        /\ \A e \in Seen(inputQueue) : e = m \/ e \in Seen(Tail(inputQueue))
    BY <1>1, SeenTail DEF InputSide, InputTypes
  <1>3. /\ Len(inputQueue) \in Nat \ {0} /\ DOMAIN inputQueue = 1 .. Len(inputQueue)
        /\ 1 \in DOMAIN inputQueue /\ m \in Seen(inputQueue)
    <2>1. Len(inputQueue) \in Nat \ {0} /\ DOMAIN inputQueue = 1 .. Len(inputQueue)
      BY <1>1 DEF InputSide, InputTypes
    <2>2. 1 \in DOMAIN inputQueue
      BY <2>1
    <2> QED
      BY <1>2, <2>1, <2>2 DEF Seen
  <1>4. /\ Covered(m) => server' = server
        /\ ~Covered(m) => \A f \in Fields : server'.view[f] = IF f = m.field THEN m.value ELSE server.view[f]
    BY TakeMutationView DEF InputSide
  <1> HIDE DEF m
  <1>5. m \in Outstanding /\ m.gen \in Nat /\ m.gen <= auth.gen /\ m.gen # dropped /\ m.field \in InputFields
    BY <1>3, OutstandingKnown DEF InputSide, InputInv, Ascending, Outstanding
  <1>6. Outstanding' \subseteq Outstanding /\ \A n \in Outstanding : n = m \/ n \in Outstanding'
    <2>1. Seen(inputQueue') = Seen(Tail(inputQueue))
      BY <1>1
    <2> QED
      BY <1>1, <1>2, <2>1 DEF Outstanding, Seen
  <1>7. \A n \in Outstanding' : n.gen \in Nat /\ n.gen > m.gen
    <2>1. \A n \in Seen(Tail(inputQueue)) : n.gen > m.gen
      <3> TAKE n \in Seen(Tail(inputQueue))
      <3>1. PICK i \in DOMAIN Tail(inputQueue) : n = Tail(inputQueue)[i]
        BY DEF Seen
      <3>2. i \in Nat \ {0}
        BY <1>2, <3>1
      <3>3. i + 1 \in DOMAIN inputQueue /\ 1 < i + 1 /\ n = inputQueue[i + 1]
        BY <1>2, <3>1, <3>2
      <3>4. inputQueue[1].gen < inputQueue[i + 1].gen
        BY <1>3, <3>3 DEF InputSide, InputInv, Ascending
      <3>5. n \in Outstanding /\ n.gen \in Nat
        BY <3>3, OutstandingKnown DEF InputSide
      <3> QED
        BY <1>2, <1>5, <3>3, <3>4, <3>5
    <2>2. publisher.at = "send" => publisher.mutation.gen > m.gen
      <3> HAVE publisher.at = "send"
      <3>1. inputQueue[1].gen < publisher.mutation.gen
        BY <1>3 DEF InputSide, InputInv, Ascending
      <3>2. publisher.mutation.gen \in Nat
        BY OutstandingKnown DEF InputSide
      <3> QED
        BY <1>2, <1>5, <3>1, <3>2
    <2>3. Outstanding' = Seen(Tail(inputQueue)) \cup (IF publisher.at = "send" THEN {publisher.mutation} ELSE {})
      BY <1>1 DEF Outstanding, Seen
    <2> QED
      BY <1>6, <2>1, <2>2, <2>3, OutstandingKnown DEF InputSide
  <1>8. /\ cut \in Nat /\ dropped \in Nat /\ auth.gen \in Nat /\ cut <= auth.gen /\ dropped <= auth.gen
        /\ \A n \in Outstanding : n.gen \in Nat
    BY OutstandingKnown DEF InputSide
  <1>9. InputTypes'
    <2>1. cut' \in 0 .. auth'.gen /\ dropped' \in 0 .. auth'.gen
      BY <1>1, <1>5, <1>8
    <2>2. lost' \in BOOLEAN
      BY <1>1 DEF InputSide, InputTypes
    <2>3. inputQueue' \in Seq(Mutations) /\ Len(inputQueue') <= InputCapacity
      BY <1>1, <1>2, <1>3, FieldsKnown DEF InputSide, InputTypes
    <2> QED
      BY <1>1, <2>1, <2>2, <2>3 DEF InputSide, InputTypes
  <1>10. Ascending'
    <2>1. \A i, j \in DOMAIN Tail(inputQueue) : i < j => Tail(inputQueue)[i].gen < Tail(inputQueue)[j].gen
      <3> TAKE i, j \in DOMAIN Tail(inputQueue)
      <3> HAVE i < j
      <3>1. i \in Nat /\ j \in Nat /\ i + 1 < j + 1
        BY <1>2
      <3>2. i + 1 \in DOMAIN inputQueue /\ j + 1 \in DOMAIN inputQueue
        BY <1>2
      <3>3. inputQueue[i + 1].gen < inputQueue[j + 1].gen
        BY <3>1, <3>2 DEF InputSide, InputInv, Ascending
      <3> QED
        BY <1>2, <3>3
    <2>2. publisher.at = "send" => \A i \in DOMAIN Tail(inputQueue) : Tail(inputQueue)[i].gen < publisher.mutation.gen
      BY <1>2 DEF InputSide, InputInv, Ascending
    <2> QED
      BY <1>1, <1>6, <2>1, <2>2 DEF InputSide, InputInv, Ascending
  <1>11. MarkKnown /\ (~lost /\ dropped <= cut => \A f \in InputFields : Shows(f))
    BY DEF InputSide, InputInv
  <1>12. CASE Covered(m) /\ UNCHANGED <<cut, lost>>
    <2>1. m.gen <= cut /\ server' = server
      BY <1>4, <1>12 DEF Covered
    <2>2. MarkKnown'
      BY <1>1, <1>11, <1>12 DEF MarkKnown
    <2>3. ASSUME ~lost', dropped' <= cut', NEW f \in InputFields
          PROVE  Shows(f)'
      <3>1. Shows(f)
        BY <1>1, <1>11, <1>12, <2>3
      <3>2. ASSUME NEW n \in Outstanding', n.field = f, n.gen > cut,
                   \A k \in Outstanding' : k.field = f => k.gen <= n.gen
            PROVE  n.value = auth.input[f]
        <4>1. \A k \in Outstanding : k.field = f => k.gen <= n.gen
          BY <1>5, <1>6, <1>7, <3>2
        <4> QED
          BY <1>6, <3>1, <3>2, <4>1 DEF Shows
      <3>3. (\A k \in Outstanding' : k.field = f => k.gen <= cut) => server.view[f] = auth.input[f]
        BY <1>6, <2>1, <3>1 DEF Shows
      <3> QED
        BY <1>1, <1>12, <2>1, <3>2, <3>3 DEF Shows
    <2> QED
      BY <1>9, <1>10, <2>2, <2>3 DEF InputSide, InputInv
  <1>13. CASE ~Covered(m) /\ cut' = m.gen /\ lost' = (lost \/ (cut < dropped /\ dropped < m.gen))
    <2>1. m.gen > cut
      BY <1>5, <1>8, <1>13 DEF Covered
    <2>2. MarkKnown'
      BY <1>1, <1>5, <1>8, <1>11, <1>13, <2>1 DEF MarkKnown
    <2>3. ASSUME ~lost', dropped' <= cut', NEW f \in InputFields
          PROVE  Shows(f)'
      <3>1. ~lost /\ dropped <= cut
        <4>1. dropped < m.gen
          BY <1>1, <1>5, <1>8, <1>13, <2>3
        <4>2. ~(lost \/ (cut < dropped /\ dropped < m.gen))
          BY <1>13, <2>3
        <4> QED
          BY <1>8, <4>1, <4>2
      <3>2. Shows(f)
        BY <1>11, <3>1
      <3>3. ASSUME NEW n \in Outstanding', n.field = f, n.gen > cut',
                   \A k \in Outstanding' : k.field = f => k.gen <= n.gen
            PROVE  n.value = auth.input[f]
        <4>1. \A k \in Outstanding : k.field = f => k.gen <= n.gen
          BY <1>5, <1>6, <1>7, <3>3
        <4>2. n.gen > cut
          <5>1. n.gen \in Nat /\ n.gen > m.gen
            BY <1>7, <3>3
          <5> QED
            BY <1>5, <1>8, <2>1, <5>1
        <4> QED
          BY <1>6, <3>2, <3>3, <4>1, <4>2 DEF Shows
      <3>4. ASSUME \A k \in Outstanding' : k.field = f => k.gen <= cut'
            PROVE  server'.view[f] = auth.input[f]
        <4>1. \A k \in Outstanding' : k.field # f
          BY <1>5, <1>7, <1>13, <3>4
        <4>2. CASE f = m.field
          <5>1. \A k \in Outstanding : k.field = f => k.gen <= m.gen
            BY <1>5, <1>6, <4>1
          <5>2. m.value = auth.input[f]
            BY <1>5, <2>1, <3>2, <4>2, <5>1 DEF Shows
          <5> QED
            BY <1>4, <1>13, <4>2, <5>2, FieldsKnown
        <4>3. CASE f # m.field
          <5>1. \A k \in Outstanding : k.field # f
            BY <1>6, <4>1, <4>3
          <5>2. server.view[f] = auth.input[f]
            BY <3>2, <5>1 DEF Shows
          <5> QED
            BY <1>4, <1>13, <4>3, <5>2, FieldsKnown
        <4> QED
          BY <4>2, <4>3
      <3> QED
        BY <1>1, <3>3, <3>4 DEF Shows
    <2> QED
      BY <1>9, <1>10, <2>2, <2>3 DEF InputSide, InputInv
  <1> QED
    BY <1>1, <1>12, <1>13

LEMMA StreamStarts ==
    ASSUME Init
    PROVE  StreamInv
  <1>1. /\ [f \in InputFields |-> FALSE] \in [InputFields -> BOOLEAN] /\ [f \in Fields |-> FALSE] \in Views
        /\ <<>> \in Seq(Mutations) /\ <<>> \in Seq(Deltas) /\ <<>> \in Seq(Envelopes) /\ NoCursor \in Cursors
        /\ Len(<<>>) = 0 /\ DOMAIN <<>> = {}
    BY DEF Views, NoCursor, Cursors
  <1>2. InputTypes
    <2>1. /\ auth = [gen |-> 0, input |-> [f \in InputFields |-> FALSE]] /\ publisher = [at |-> "idle"]
          /\ inputQueue = <<>> /\ dirty = FALSE /\ dropped = 0 /\ lost = FALSE
          /\ pointer = [value |-> FALSE, fresh |-> FALSE] /\ base = FALSE /\ due = FALSE /\ cut = 0
      BY DEF Init
    <2>2. auth \in [gen : Nat, input : [InputFields -> BOOLEAN]] /\ auth.gen = 0
      BY <1>1, <2>1
    <2>3. publisher \in Publishers
      BY <2>1 DEF Publishers
    <2>4. cut \in 0 .. auth.gen /\ dropped \in 0 .. auth.gen
      BY <2>1, <2>2
    <2>5. inputQueue \in Seq(Mutations) /\ Len(inputQueue) <= InputCapacity
      BY <1>1, <2>1, FieldsKnown
    <2>6. pointer \in [value : BOOLEAN, fresh : BOOLEAN]
      BY <2>1
    <2>7. dirty \in BOOLEAN /\ lost \in BOOLEAN /\ base \in BOOLEAN /\ due \in BOOLEAN
      BY <2>1
    <2> QED
      BY <2>2, <2>3, <2>4, <2>5, <2>6, <2>7 DEF InputTypes
  <1>3. server \in Servers /\ client \in Clients /\ client.view = client.truth
        /\ client.boot = 0 /\ client.rev = 0 /\ server.boot = 1 /\ server.rev = 0
    BY <1>1 DEF Init, Servers, Clients
  <1>4. ServerTypes
    BY <1>1, <1>3, FieldsKnown DEF Init, ServerTypes
  <1>5. task \in Tasks /\ task.at = "down"
    BY <1>1 DEF Init, Tasks
  <1>6. LinkTypes
    <2>1. pending = <<>> /\ live = <<>> /\ wire = <<>> /\ lagged = FALSE /\ asked = FALSE
      BY DEF Init
    <2>2. /\ pending \in Seq(Envelopes) /\ live \in Seq(Envelopes) /\ wire \in Seq(Envelopes)
          /\ Len(live) <= LiveCapacity /\ Len(wire) <= WireCapacity
      BY <1>1, <2>1, FieldsKnown
    <2>3. lagged \in BOOLEAN /\ asked \in BOOLEAN
      BY <2>1
    <2> QED
      BY <1>3, <1>5, <2>2, <2>3 DEF LinkTypes
  <1>7. Sent = {}
    BY <1>1 DEF Init, Sent, Seen
  <1>8. Carried = {} /\ Points = {server, Held}
    BY <1>7 DEF Carried, Points
  <1>9. Held.boot = 0 /\ Held.rev = 0
    BY <1>3 DEF Held
  <1>10. ViewInv
    BY <1>3, <1>8, <1>9 DEF ViewInv, Agree
  <1>11. publisher.at = "idle" /\ Outstanding = {}
    BY <1>1 DEF Init, Outstanding, Seen
  <1>12. \A f \in InputFields : server.view[f] = FALSE /\ auth.input[f] = FALSE
    BY FieldsKnown DEF Init
  <1>13. InputInv
    <2>1. Ascending
      BY <1>1, <1>11 DEF Init, Ascending
    <2>2. MarkKnown
      BY DEF Init, MarkKnown
    <2>3. \A f \in InputFields : Shows(f)
      BY <1>11, <1>12 DEF Shows
    <2> QED
      BY <2>1, <2>2, <2>3 DEF InputInv
  <1> QED
    BY <1>2, <1>4, <1>6, <1>10, <1>13 DEF StreamInv

LEMMA StreamSteps ==
    ASSUME StreamInv, [Next]_vars
    PROVE  StreamInv'
  <1>1. InputSide /\ ViewSide /\ InputTypes
    BY DEF StreamInv, InputSide, ViewSide
  <1>2. SUFFICES InputSide' /\ ViewSide'
    BY DEF StreamInv, InputSide, ViewSide
  <1>3. pointer \in [value : BOOLEAN, fresh : BOOLEAN] /\ base \in BOOLEAN /\ due \in BOOLEAN /\ dirty \in BOOLEAN
    BY <1>1 DEF InputTypes
  <1>4. ASSUME NEW f \in InputFields, NEW b \in BOOLEAN, Publish(f, b)
        PROVE  InputSide' /\ ViewSide'
    BY <1>1, <1>4, PublishInput, InputStepView DEF InputStep
  <1>5. CASE TrySend
    BY <1>1, <1>5, TrySendInput, InputStepView DEF InputStep
  <1>6. CASE Mark
    BY <1>1, <1>6, MarkInput, InputStepView DEF InputStep
  <1>7. CASE MovePointer
    <2>1. /\ UNCHANGED <<auth, publisher, inputQueue, dropped, lost, cut, server, dirty, base, due, pass>>
          /\ pointer' = [value |-> ~pointer.value, fresh |-> TRUE]
      BY <1>7 DEF MovePointer, input, daemon, actor
    <2>2. pointer' \in [value : BOOLEAN, fresh : BOOLEAN]
      BY <2>1
    <2> QED
      BY <1>1, <1>3, <1>7, <2>1, <2>2, InputQuiet, InputStepView
  <1>8. CASE ChangeBase
    <2>1. /\ UNCHANGED <<auth, publisher, inputQueue, dropped, lost, cut, server, dirty, pointer, pass>>
          /\ base' \in BOOLEAN /\ due' \in BOOLEAN
      BY <1>8 DEF ChangeBase, input, actor
    <2> QED
      BY <1>1, <1>3, <1>8, <2>1, InputQuiet, InputStepView
  <1>9. CASE PollDirty
    <2>1. /\ UNCHANGED <<auth, publisher, inputQueue, dropped, lost, cut, server, pointer, base, due>>
          /\ pass = "poll" /\ dirty' = FALSE
          /\ pass' = IF ~dirty THEN "rest" ELSE IF NeedsRebuild THEN "rebuild" ELSE "poll"
      BY <1>9 DEF PollDirty, input, daemon
    <2>2. dirty => cut >= dropped \/ pass' = "rebuild"
      <3>1. auth.gen \in Nat /\ cut \in Nat /\ dropped \in Nat /\ dropped <= auth.gen
        BY <1>1, OutstandingKnown
      <3> QED
        BY <2>1, <3>1 DEF NeedsRebuild
    <2>3. pass = "rebuild" => pass' = "rebuild"
      BY <2>1
    <2> QED
      BY <1>1, <1>3, <1>9, <2>1, <2>2, <2>3, InputQuiet, PassStepView
  <1>10. CASE Sleep
    <2>1. UNCHANGED <<auth, publisher, inputQueue, dropped, lost, cut, server, dirty, pointer, base, due>>
          /\ pass = "rest"
      BY <1>10 DEF Sleep, input, daemon
    <2> QED
      BY <1>1, <1>3, <1>10, <2>1, InputQuiet, PassStepView
  <1>11. CASE TakeMutation
    BY <1>1, <1>11, TakeMutationInput, TakeMutationView
  <1>12. CASE TakePointer
    <2>1. /\ UNCHANGED <<auth, publisher, inputQueue, dropped, lost, cut, dirty, base, due>>
          /\ pass = "rest" /\ pointer' = [pointer EXCEPT !.fresh = FALSE]
      BY <1>12 DEF TakePointer, input, daemon
    <2>2. pointer' \in [value : BOOLEAN, fresh : BOOLEAN]
      BY <1>3, <2>1
    <2>3. ViewSide' /\ \A f \in InputFields : server'.view[f] = server.view[f]
      BY <1>1, <1>12, TakePointerView
    <2>4. InputSide'
      BY <1>1, <1>3, <2>1, <2>2, <2>3, InputQuiet
    <2> QED
      BY <2>3, <2>4
  <1>13. CASE StartReconcile
    <2>1. UNCHANGED <<auth, publisher, inputQueue, dropped, lost, cut, server, dirty, pointer, base>>
          /\ pass = "rest" /\ due' \in BOOLEAN
      BY <1>13 DEF StartReconcile, input
    <2> QED
      BY <1>1, <1>3, <1>13, <2>1, InputQuiet, PassStepView
  <1>14. CASE ReadBase
    <2>1. UNCHANGED <<auth, publisher, inputQueue, dropped, lost, cut, server, dirty, pointer, base, due, pass>>
      BY <1>14 DEF ReadBase, input, daemon
    <2> QED
      BY <1>1, <1>3, <1>14, <2>1, InputQuiet, PassStepView
  <1>15. CASE Rebuild
    <2>1. UNCHANGED <<auth, publisher, inputQueue, dirty, dropped, base, due>> /\ CoverProjection
      BY <1>15 DEF Rebuild, input, daemon
    <2> QED
      BY <1>1, <1>15, <2>1, RebuildView, CoverInput
  <1>16. CASE Reconcile
    <2>1. UNCHANGED <<auth, publisher, inputQueue, dirty, dropped, base, due>> /\ CoverProjection
      BY <1>16 DEF Reconcile, input, daemon
    <2> QED
      BY <1>1, <1>16, <2>1, ReconcileView, CoverInput
  <1>17. CASE ServeStep
    <2>1. UNCHANGED <<auth, publisher, inputQueue, dropped, lost, cut, server, dirty, pointer, base, due>>
          /\ pass = "rest"
      BY <1>17 DEF ServeStep, HandleSubscribe, HandleRecoverLag, input, daemon
    <2> QED
      BY <1>1, <1>3, <1>17, <2>1, InputQuiet, ServeView
  <1>18. ASSUME UNCHANGED aggregator
         PROVE  InputSide'
    <2>1. UNCHANGED <<auth, publisher, inputQueue, dropped, lost, cut, server, dirty, pointer, base, due, pass>>
      BY <1>18 DEF aggregator, input, daemon, actor
    <2> QED
      BY <1>1, <1>3, <2>1, InputQuiet
  <1>19. CASE TaskStep \/ ClientStep \/ Disconnect
    <2>1. UNCHANGED aggregator
      BY <1>19 DEF TaskStep, ClientStep, SendNext, Tick, ReadResync, Connect, Receive, Disconnect
    <2>2. InputSide'
      BY <1>18, <2>1
    <2> QED
      BY <1>1, <1>19, <2>2, SendNextView, TickView, ConnectionView, ReceiveView DEF TaskStep, ClientStep
  <1>20. CASE UNCHANGED vars
    <2>1. UNCHANGED <<auth, publisher, inputQueue, dropped, lost, cut, server, dirty, pointer, base, due, pass,
                      sampled, replay, pending, live, lagged, task, wire, asked, client>>
      BY <1>20 DEF vars, input, daemon, actor, subscriber, connection
    <2>2. InputSide'
      BY <1>1, <1>3, <2>1, InputQuiet
    <2>3. ServerTypes' /\ LinkTypes'
      BY <1>1, <2>1 DEF ViewSide, ServerTypes, LinkTypes
    <2> QED
      BY <1>1, <2>1, <2>2, <2>3, QuietKeeps DEF ViewSide
  <1> QED
    BY <1>4, <1>5, <1>6, <1>7, <1>8, <1>9, <1>10, <1>11, <1>12, <1>13, <1>14, <1>15, <1>16, <1>17, <1>19, <1>20
       DEF Next, InputStep, ActorStep

LEMMA StreamTyped ==
    ASSUME StreamInv
    PROVE  UiTypeOK
  <1>1. InputTypes /\ ServerTypes /\ LinkTypes
    BY DEF StreamInv
  <1>2. auth.gen \in Nat /\ auth.input \in [InputFields -> BOOLEAN] /\ publisher.at \in {"idle", "send", "mark"}
    BY <1>1 DEF InputTypes, Publishers
  <1>3. {dirty, lost, base, due, lagged, asked} \subseteq BOOLEAN /\ {cut, dropped} \subseteq 0 .. auth.gen
    BY <1>1 DEF InputTypes, LinkTypes
  <1>4. task.at \in {"down", "subscribing", "stream", "recovering"} /\ task.cursor \in Cursors
    BY <1>1 DEF LinkTypes, Tasks
  <1> QED
    BY <1>1, <1>2, <1>3, <1>4 DEF UiTypeOK, InputTypes, ServerTypes, LinkTypes, Servers, Clients

\* The three parts of the invariant hold in every state.
THEOREM StreamInvariant == Spec => []StreamInv
  BY StreamStarts, StreamSteps, PTL DEF Spec

\* What the client shows under a boot identity and a revision is what the
\* aggregator showed under them (handleEnvelope, replay, RecoverLag, rebuild).
THEOREM ClientShowsServer == Spec => []ClientMatchesServer
  <1>1. StreamInv => ClientMatchesServer
    BY StreamTyped DEF StreamInv, ViewInv, ClientMatchesServer
  <1> QED
    BY <1>1, StreamInvariant, PTL

\* Once the input mutations are all taken, the view shows the authoritative
\* input (apply_input_mutation, project_authoritative_snapshot).
THEOREM DrainedInputShown == Spec => []DrainedShowsInput
  <1>1. ASSUME StreamInv, Drained, ~lost
        PROVE  \A f \in InputFields : server.view[f] = auth.input[f]
    <2>1. publisher.at = "idle" /\ inputQueue = <<>> /\ ~dirty /\ pass # "rebuild"
      BY <1>1 DEF Drained
    <2>2. MarkKnown /\ InputTypes /\ (~lost /\ dropped <= cut => \A f \in InputFields : Shows(f))
      BY <1>1 DEF StreamInv, InputInv
    <2>3. dropped \in Nat /\ cut \in Nat
      BY <2>2, OutstandingKnown
    <2>4. \A f \in InputFields : Shows(f)
      BY <1>1, <2>1, <2>2, <2>3 DEF MarkKnown
    <2>5. Outstanding = {}
      BY <2>1 DEF Outstanding, Seen
    <2> QED
      BY <2>4, <2>5 DEF Shows
  <1>2. StreamInv => DrainedShowsInput
    BY <1>1 DEF DrainedShowsInput
  <1> QED
    BY <1>2, StreamInvariant, PTL
==============================================================================
