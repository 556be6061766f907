------------------------- MODULE CapturePathProofs -------------------------
(***************************************************************************)
(* Safety of the capture path for rings and queues of any size and for     *)
(* any kinds of motion: the order in which input reaches the actor, the    *)
(* announcement of every loss, and wake-ups.                               *)
(***************************************************************************)
EXTENDS CapturePath, FiniteSetTheorems, SequenceTheorems, WellFoundedInduction, TLAPS

(* An input that was captured, and what may be handed on.                  *)
Inputs == {e \in Events : e.class \in Classes /\ 0 < e.first /\ e.first <= e.last}
Handed == Inputs \cup {OverflowEvent}

-----------------------------------------------------------------------------
(* The ring, by position instead of by slot.                               *)

At(r, i) == r.slots[Physical(r, i)]

Rings == [slots : [0 .. RingCapacity - 1 -> Events], head : 0 .. RingCapacity - 1,
          tail : 0 .. RingCapacity - 1, count : 0 .. RingCapacity, latched : BOOLEAN]

RingOK(r) ==
    /\ r \in Rings
    /\ r.head = Physical(r, r.count)
    /\ \A i \in 0 .. r.count - 1 : At(r, i) \in Inputs

InRingOrder(r) == \A i, j \in 0 .. r.count - 1 : i < j => At(r, i).last < At(r, j).first

LEMMA Sizes ==
    /\ RingCapacity \in Nat \ {0} /\ IngressCapacity \in Nat \ {0}
    /\ CaptureMax \in Nat \ {0} /\ CallbackMax \in Nat \ {0} /\ CrashMax \in Nat
    /\ Replacing \subseteq Motions /\ "discrete" \notin Motions /\ "overflow" \notin Motions
  BY QueueAssumption, PathAssumption

LEMMA InputFacts ==
    /\ \A e \in Inputs : /\ e \in Events /\ e.first \in Nat /\ e.last \in Nat /\ 0 < e.first /\ e.first <= e.last
                         /\ e.first \in Stamps /\ e.last \in Stamps /\ IsInput(e)
    /\ OverflowEvent \in Events /\ ~IsInput(OverflowEvent) /\ OverflowEvent \notin Inputs
  <1>1. \A e \in Inputs : /\ e \in Events /\ e.first \in Nat /\ e.last \in Nat /\ 0 < e.first /\ e.first <= e.last
                         /\ e.first \in Stamps /\ e.last \in Stamps /\ IsInput(e)
    BY Sizes DEF Inputs, Events, Stamps, Classes, IsInput
  <1>2. OverflowEvent \in Events /\ ~IsInput(OverflowEvent)
    BY Sizes DEF OverflowEvent, Event, Events, Stamps, IsInput
  <1> QED
    BY <1>1, <1>2

(* A position is a slot, no two of the ring's positions are the same slot, *)
(* and the slot behind a position is that of the next one.                 *)
Slot(tail, i) == IF tail + i < RingCapacity THEN tail + i ELSE tail + i - RingCapacity

LEMMA Slots ==
    ASSUME NEW r \in Rings
    PROVE  /\ \A i \in 0 .. RingCapacity : Physical(r, i) = Slot(r.tail, i) /\ Physical(r, i) \in 0 .. RingCapacity - 1
           /\ \A i, j \in 0 .. RingCapacity - 1 : Physical(r, i) = Physical(r, j) => i = j
           /\ \A i \in 0 .. RingCapacity - 1 : (Physical(r, i) + 1) % RingCapacity = Physical(r, i + 1)
           /\ \A i \in 1 .. RingCapacity : (Physical(r, i) + RingCapacity - 1) % RingCapacity = Physical(r, i - 1)
           /\ Physical(r, RingCapacity) = Physical(r, 0) /\ Physical(r, 0) = r.tail
  <1> DEFINE N == RingCapacity
  <1>1. N \in Nat \ {0} /\ r.tail \in 0 .. N - 1
    BY Sizes DEF Rings
  <1> HIDE DEF N
  <1>2. \A x \in 0 .. N - 1 : x % N = x /\ (x + N) % N = x
    BY <1>1
  <1>3. \A i \in 0 .. N : (r.tail + i) % N = IF r.tail + i < N THEN r.tail + i ELSE r.tail + i - N
    <2> SUFFICES ASSUME NEW i \in 0 .. N
                 PROVE  (r.tail + i) % N = IF r.tail + i < N THEN r.tail + i ELSE r.tail + i - N
      OBVIOUS
    <2>1. CASE r.tail + i < N
      BY <1>1, <1>2, <2>1
    <2>2. CASE ~(r.tail + i < N)
      <3>1. r.tail + i - N \in 0 .. N - 1 /\ (r.tail + i - N) + N = r.tail + i
        BY <1>1, <2>2
      <3> QED
        BY <1>2, <2>2, <3>1
    <2> QED
      BY <2>1, <2>2
  <1>4. \A i \in 0 .. N : Physical(r, i) = Slot(r.tail, i)
    BY <1>3 DEF Physical, Slot, N
  <1>5. \A i \in 0 .. N : Slot(r.tail, i) \in 0 .. N - 1
    BY <1>1 DEF Slot, N
  <1>6. \A i, j \in 0 .. N - 1 : Slot(r.tail, i) = Slot(r.tail, j) => i = j
    BY <1>1 DEF Slot, N
  <1>7. \A i \in 0 .. N - 1 : (Slot(r.tail, i) + 1) % N = Slot(r.tail, i + 1)
    <2> SUFFICES ASSUME NEW i \in 0 .. N - 1 PROVE (Slot(r.tail, i) + 1) % N = Slot(r.tail, i + 1)
      OBVIOUS
    <2>1. CASE Slot(r.tail, i) + 1 < N
      <3>1. Slot(r.tail, i) + 1 \in 0 .. N - 1 /\ Slot(r.tail, i + 1) = Slot(r.tail, i) + 1
        BY <1>1, <2>1 DEF Slot, N
      <3> QED
        BY <1>2, <3>1
    <2>2. CASE ~(Slot(r.tail, i) + 1 < N)
      <3>1. Slot(r.tail, i) + 1 = 0 + N /\ Slot(r.tail, i + 1) = 0 /\ 0 \in 0 .. N - 1
        BY <1>1, <2>2 DEF Slot, N
      <3> QED
        BY <1>2, <3>1
    <2> QED
      BY <2>1, <2>2
  <1>8. \A i \in 1 .. N : (Slot(r.tail, i) + N - 1) % N = Slot(r.tail, i - 1)
    <2> SUFFICES ASSUME NEW i \in 1 .. N PROVE (Slot(r.tail, i) + N - 1) % N = Slot(r.tail, i - 1)
      OBVIOUS
    <2>1. CASE Slot(r.tail, i) = 0
      <3>1. Slot(r.tail, i) + N - 1 = N - 1 /\ N - 1 \in 0 .. N - 1 /\ Slot(r.tail, i - 1) = N - 1
        BY <1>1, <2>1 DEF Slot, N
      <3> QED
        BY <1>2, <3>1
    <2>2. CASE Slot(r.tail, i) # 0
      <3>1. Slot(r.tail, i) + N - 1 = Slot(r.tail, i - 1) + N /\ Slot(r.tail, i - 1) \in 0 .. N - 1
        BY <1>1, <1>5, <2>2 DEF Slot, N
      <3> QED
        BY <1>2, <3>1
    <2> QED
      BY <2>1, <2>2
  <1>9. Slot(r.tail, N) = Slot(r.tail, 0) /\ Slot(r.tail, 0) = r.tail
    BY <1>1 DEF Slot, N
  <1>10. /\ \A i \in 0 .. N - 1 : i \in 0 .. N /\ i + 1 \in 0 .. N
         /\ \A i \in 1 .. N : i \in 0 .. N /\ i - 1 \in 0 .. N
         /\ 0 \in 0 .. N /\ N \in 0 .. N
    BY <1>1
  <1> QED
    BY <1>4, <1>5, <1>6, <1>7, <1>8, <1>9, <1>10 DEF N

Ring(r) == [slots |-> r.slots, head |-> r.head, tail |-> r.tail, count |-> r.count, latched |-> r.latched]

LEMMA Shape ==
    ASSUME NEW r, RingOK(r)
    PROVE  /\ RingCapacity \in Nat \ {0} /\ r \in Rings /\ r.count \in Nat /\ r.count <= RingCapacity
           /\ r.head \in 0 .. RingCapacity - 1 /\ r.tail \in 0 .. RingCapacity - 1
           /\ r.slots \in [0 .. RingCapacity - 1 -> Events] /\ r.latched \in BOOLEAN
           /\ \A i \in 0 .. r.count - 1 : i \in 0 .. RingCapacity - 1 /\ i \in 0 .. RingCapacity
           /\ r.count \in 0 .. RingCapacity
           /\ \A i \in 0 .. r.count - 1 : At(r, i) \in Inputs
  BY Sizes DEF RingOK, Rings

(* The same slots are read with the same tail.                             *)
LEMMA SameTail == \A q, r : q.tail = r.tail => \A i : Physical(q, i) = Physical(r, i)
  BY DEF Physical

LEMMA RingAppends ==
    ASSUME NEW r, RingOK(r), r.count < RingCapacity, NEW e \in Inputs, NEW q, q = Append1(r, e)
    PROVE  /\ RingOK(q) /\ q.count = r.count + 1 /\ q.latched = r.latched
           /\ At(q, r.count) = e /\ \A i \in 0 .. r.count - 1 : At(q, i) = At(r, i)
  <1>1. r.count \in 0 .. RingCapacity - 1 /\ r.head = Physical(r, r.count)
    BY Shape DEF RingOK
  <1>2. /\ q.tail = r.tail /\ q.count = r.count + 1 /\ q.latched = r.latched
        /\ q.head = (r.head + 1) % RingCapacity /\ q.slots = [r.slots EXCEPT ![r.head] = e]
        /\ q = Ring(q)
    <2>1. r = Ring(r) /\ q = [r EXCEPT !.slots = [r.slots EXCEPT ![r.head] = e],
                                       !.head = (r.head + 1) % RingCapacity, !.count = r.count + 1]
      BY Shape DEF Append1, Rings, Ring
    <2> QED
      BY <2>1 DEF Ring
  <1>3. \A i : Physical(q, i) = Physical(r, i)
    BY <1>2, SameTail
  <1>4. At(q, r.count) = e
    BY <1>1, <1>2, <1>3, Shape DEF At
  <1>5. \A i \in 0 .. r.count - 1 : At(q, i) = At(r, i)
    <2> SUFFICES ASSUME NEW i \in 0 .. r.count - 1 PROVE At(q, i) = At(r, i)
      OBVIOUS
    <2>1. Physical(r, i) # Physical(r, r.count) /\ Physical(r, i) \in 0 .. RingCapacity - 1
      BY <1>1, Shape, Slots, SMTT(60), ZenonT(60)
    <2> QED
      BY <1>1, <1>2, <1>3, <2>1, Shape DEF At
  <1>6. q.head = Physical(q, q.count) /\ q.head \in 0 .. RingCapacity - 1
    <2>1. (Physical(r, r.count) + 1) % RingCapacity = Physical(r, r.count + 1)
          /\ Physical(r, r.count + 1) \in 0 .. RingCapacity - 1
      <3>1. r.count + 1 \in 0 .. RingCapacity
        BY <1>1, Sizes
      <3> QED
        BY <1>1, <3>1, Shape, Slots
    <2> QED
      BY <1>1, <1>2, <1>3, <2>1
  <1>7. q \in Rings
    <2>1. q.slots \in [0 .. RingCapacity - 1 -> Events]
      BY <1>2, InputFacts, Shape
    <2>2. q.count \in 0 .. RingCapacity
      BY <1>1, <1>2, Sizes
    <2> QED
      BY <1>2, <1>6, <2>1, <2>2, Shape DEF Rings, Ring, Ring
  <1>8. \A i \in 0 .. q.count - 1 : At(q, i) \in Inputs
    <2>1. \A i \in 0 .. q.count - 1 : i = r.count \/ i \in 0 .. r.count - 1
      BY <1>1, <1>2
    <2> QED
      BY <1>4, <1>5, <2>1, Shape
  <1> QED
    BY <1>2, <1>4, <1>5, <1>6, <1>7, <1>8 DEF RingOK

Replaced(r, x) == [r EXCEPT !.slots[Newest(r)] = x]

LEMMA RingReplaces ==
    ASSUME NEW r, RingOK(r), r.count > 0, NEW x \in Inputs, NEW q, q = Replaced(r, x)
    PROVE  /\ RingOK(q) /\ q.count = r.count /\ q.latched = r.latched
           /\ r.slots[Newest(r)] = At(r, r.count - 1)
           /\ At(q, r.count - 1) = x /\ \A i \in 0 .. r.count - 2 : At(q, i) = At(r, i)
  <1>1. r.count \in 1 .. RingCapacity /\ r.count - 1 \in 0 .. RingCapacity - 1 /\ r.head = Physical(r, r.count)
    BY Shape DEF RingOK
  <1>2. Newest(r) = Physical(r, r.count - 1) /\ Newest(r) \in 0 .. RingCapacity - 1
    <2>1. r.count - 1 \in 0 .. RingCapacity
      BY <1>1, Sizes
    <2> QED
      BY <1>1, <2>1, Shape, Slots DEF Newest
  <1>3. /\ q.tail = r.tail /\ q.count = r.count /\ q.latched = r.latched
        /\ q.head = r.head /\ q.slots = [r.slots EXCEPT ![Newest(r)] = x]
        /\ q = Ring(q)
    <2>1. r = Ring(r) /\ q = [r EXCEPT !.slots = [r.slots EXCEPT ![Newest(r)] = x]]
      BY Shape DEF Rings, Ring, Replaced
    <2> QED
      BY <2>1 DEF Ring
  <1>4. \A i : Physical(q, i) = Physical(r, i)
    BY <1>3, SameTail
  <1>5. At(q, r.count - 1) = x
    BY <1>2, <1>3, <1>4, Shape DEF At
  <1>6. \A i \in 0 .. r.count - 2 : At(q, i) = At(r, i)
    <2> SUFFICES ASSUME NEW i \in 0 .. r.count - 2 PROVE At(q, i) = At(r, i)
      OBVIOUS
    <2>0. i \in 0 .. RingCapacity - 1 /\ i \in 0 .. RingCapacity /\ i # r.count - 1
      BY <1>1, Shape
    <2>1. Physical(r, i) # Newest(r) /\ Physical(r, i) \in 0 .. RingCapacity - 1
      BY <1>1, <1>2, <2>0, Shape, Slots, SMTT(60), ZenonT(60)
    <2> QED
      BY <1>3, <1>4, <2>1, Shape DEF At
  <1>7. q \in Rings /\ q.head = Physical(q, q.count)
    <2>1. q.slots \in [0 .. RingCapacity - 1 -> Events]
      <3>1. r.slots \in [0 .. RingCapacity - 1 -> Events] /\ x \in Events /\ q.slots = [r.slots EXCEPT ![Newest(r)] = x]
        BY <1>3, InputFacts, Shape
      <3> QED
        BY <3>1
    <2> QED
      BY <1>1, <1>3, <1>4, <2>1, Shape, SMTT(60), ZenonT(60) DEF Rings, Ring
  <1>8. \A i \in 0 .. q.count - 1 : At(q, i) \in Inputs
    <2>1. \A i \in 0 .. q.count - 1 : i = r.count - 1 \/ i \in 0 .. r.count - 2
      BY <1>1, <1>3
    <2> QED
      BY <1>5, <1>6, <2>1, Shape
  <1> QED
    BY <1>2, <1>3, <1>5, <1>6, <1>7, <1>8 DEF RingOK, At

LEMMA RingRemoves ==
    ASSUME NEW r, RingOK(r), NEW k \in 0 .. r.count - 1, NEW q, q = RemoveAt(r, k)
    PROVE  /\ RingOK(q) /\ q.count = r.count - 1 /\ q.latched = r.latched
           /\ \A i \in 0 .. r.count - 2 : At(q, i) = IF i < k THEN At(r, i) ELSE At(r, i + 1)
  <1>1. r.count \in 1 .. RingCapacity /\ r.count - 1 \in 0 .. RingCapacity - 1 /\ r.count - 1 \in 0 .. RingCapacity
    BY Shape
  <1>2. /\ q.tail = r.tail /\ q.count = r.count - 1 /\ q.latched = r.latched
        /\ q.head = Physical(r, r.count - 1)
        /\ q.slots = [p \in 0 .. RingCapacity - 1 |->
                        IF \E j \in k .. r.count - 2 : Physical(r, j) = p
                        THEN r.slots[(p + 1) % RingCapacity] ELSE r.slots[p]]
        /\ q = Ring(q)
    <2> DEFINE slots == [p \in 0 .. RingCapacity - 1 |->
                           IF \E j \in k .. r.count - 2 : Physical(r, j) = p
                           THEN r.slots[(p + 1) % RingCapacity] ELSE r.slots[p]]
               end   == Physical(r, r.count - 1)
    <2>1. r \in Rings
      BY Shape
    <2>2. q = [r EXCEPT !.slots = slots, !.head = end, !.count = r.count - 1]
      BY <2>1 DEF RemoveAt, Rings
    <2> HIDE DEF slots, end
    <2>3. /\ q.tail = r.tail /\ q.count = r.count - 1 /\ q.latched = r.latched /\ q.head = end /\ q.slots = slots
          /\ q = Ring(q)
      BY <2>1, <2>2 DEF Rings, Ring
    <2> QED
      BY <2>3 DEF slots, end
  <1>3. \A i : Physical(q, i) = Physical(r, i)
    BY <1>2, SameTail
  <1>4. \A i \in 0 .. r.count - 2 : At(q, i) = IF i < k THEN At(r, i) ELSE At(r, i + 1)
    <2> SUFFICES ASSUME NEW i \in 0 .. r.count - 2 PROVE At(q, i) = IF i < k THEN At(r, i) ELSE At(r, i + 1)
      OBVIOUS
    <2>1. i \in 0 .. RingCapacity - 1 /\ i \in 0 .. RingCapacity /\ Physical(r, i) \in 0 .. RingCapacity - 1
      <3>1. i \in 0 .. RingCapacity - 1 /\ i \in 0 .. RingCapacity
        BY <1>1, Shape
      <3> QED
        BY <3>1, Shape, Slots
    <2>2. CASE i < k
      <3>1. ~\E j \in k .. r.count - 2 : Physical(r, j) = Physical(r, i)
        <4> SUFFICES ASSUME NEW j \in k .. r.count - 2, Physical(r, j) = Physical(r, i) PROVE FALSE
          OBVIOUS
        <4>1. j \in 0 .. RingCapacity - 1 /\ j # i
          BY <1>1, <2>2, Shape
        <4> QED
          BY <2>1, <4>1, Shape, Slots
      <3> QED
        BY <1>2, <1>3, <2>1, <2>2, <3>1 DEF At
    <2>3. CASE ~(i < k)
      <3>1. i \in k .. r.count - 2
        BY <1>1, <2>3
      <3>2. (Physical(r, i) + 1) % RingCapacity = Physical(r, i + 1)
        BY <2>1, Shape, Slots
      <3> QED
        BY <1>2, <1>3, <2>1, <2>3, <3>1, <3>2 DEF At
    <2> QED
      BY <2>2, <2>3
  <1>5. \A i \in 0 .. q.count - 1 : At(q, i) \in Inputs
    <2>1. \A i \in 0 .. q.count - 1 : i \in 0 .. r.count - 2 /\ i \in 0 .. r.count - 1 /\ i + 1 \in 0 .. r.count - 1
      BY <1>1, <1>2
    <2> QED
      BY <1>4, <2>1, Shape
  <1>6. q.slots \in [0 .. RingCapacity - 1 -> Events]
    <2>1. \A p \in 0 .. RingCapacity - 1 : (\E j \in k .. r.count - 2 : Physical(r, j) = p)
             => (p + 1) % RingCapacity \in 0 .. RingCapacity - 1
      <3> SUFFICES ASSUME NEW p \in 0 .. RingCapacity - 1, NEW j \in k .. r.count - 2, Physical(r, j) = p
                   PROVE  (p + 1) % RingCapacity \in 0 .. RingCapacity - 1
        OBVIOUS
      <3>1. j \in 0 .. RingCapacity - 1 /\ j + 1 \in 0 .. RingCapacity
        BY <1>1, Shape
      <3>2. (Physical(r, j) + 1) % RingCapacity = Physical(r, j + 1) /\ Physical(r, j + 1) \in 0 .. RingCapacity - 1
        BY <3>1, Shape, Slots
      <3> QED
        BY <3>2
    <2> QED
      <3>1. r.slots \in [0 .. RingCapacity - 1 -> Events] /\ DOMAIN r.slots = 0 .. RingCapacity - 1
        BY Shape
      <3> DEFINE Slotted(p) == IF \E j \in k .. r.count - 2 : Physical(r, j) = p
                                THEN r.slots[(p + 1) % RingCapacity] ELSE r.slots[p]
      <3>2. \A p \in 0 .. RingCapacity - 1 : Slotted(p) \in Events
        BY <2>1, <3>1
      <3>3. q.slots = [p \in 0 .. RingCapacity - 1 |-> Slotted(p)]
        BY <1>2
      <3> HIDE DEF Slotted
      <3> QED
        BY <3>2, <3>3
  <1>7. q \in Rings
    <2>1. q.head \in 0 .. RingCapacity - 1 /\ q.count \in 0 .. RingCapacity
      BY <1>1, <1>2, Shape, Slots
    <2> QED
      BY <1>2, <1>6, <2>1, Shape DEF Rings, Ring, Ring
  <1>8. q.head = Physical(q, q.count)
    BY <1>2, <1>3
  <1> QED
    BY <1>2, <1>4, <1>5, <1>7, <1>8 DEF RingOK

LEMMA RingPops ==
    ASSUME NEW r, RingOK(r), HasEvent(r), NEW p, p = Pop(r)
    PROVE  /\ RingOK(p.ring)
           /\ r.latched => /\ p.event = OverflowEvent /\ ~p.ring.latched /\ p.ring.count = r.count
                           /\ \A i \in 0 .. r.count - 1 : At(p.ring, i) = At(r, i)
           /\ ~r.latched => /\ r.count > 0 /\ p.event = At(r, 0) /\ p.event \in Inputs
                            /\ ~p.ring.latched /\ p.ring.count = r.count - 1
                            /\ \A i \in 0 .. r.count - 2 : At(p.ring, i) = At(r, i + 1)
  <1> DEFINE q == p.ring
  <1>1. CASE r.latched
    <2>1. p.event = OverflowEvent /\ q = [r EXCEPT !.latched = FALSE]
      BY <1>1 DEF Pop
    <2>2. /\ q.tail = r.tail /\ q.count = r.count /\ q.head = r.head /\ q.slots = r.slots /\ q.latched = FALSE
          /\ q \in Rings
      <3>1. r \in Rings
        BY Shape
      <3> HIDE DEF q
      <3>2. q.tail = r.tail /\ q.count = r.count /\ q.head = r.head /\ q.slots = r.slots /\ q.latched = FALSE
        BY <2>1, <3>1 DEF Rings
      <3>3. q \in Rings
        BY <2>1, <3>1 DEF Rings
      <3> QED
        BY <3>2, <3>3
    <2> HIDE DEF q
    <2>3. \A i : Physical(q, i) = Physical(r, i)
      BY <2>2, SameTail
    <2>4. \A i : At(q, i) = At(r, i)
      BY <2>2, <2>3 DEF At
    <2>5. RingOK(q)
      BY <2>2, <2>3, <2>4 DEF RingOK
    <2> QED
      BY <1>1, <2>1, <2>2, <2>4, <2>5 DEF q
  <1>2. CASE ~r.latched
    <2>1. /\ p.event = r.slots[r.tail] /\ q = [r EXCEPT !.tail = (@ + 1) % RingCapacity, !.count = @ - 1]
          /\ r.count \in 1 .. RingCapacity
      BY <1>2, Shape DEF Pop, HasEvent
    <2>2. /\ q.tail = (r.tail + 1) % RingCapacity /\ q.count = r.count - 1 /\ q.head = r.head /\ q.slots = r.slots
          /\ q.latched = r.latched
          /\ q = Ring(q)
      <3>1. r = Ring(r) /\ q = [r EXCEPT !.tail = (r.tail + 1) % RingCapacity, !.count = r.count - 1]
        BY <2>1, Shape DEF Rings, Ring
      <3> QED
        BY <3>1 DEF Ring
    <2> HIDE DEF q
    <2>3. q.tail = Physical(r, 1) /\ q.tail \in 0 .. RingCapacity - 1 /\ q.count \in 0 .. RingCapacity
          /\ Physical(r, 1) = Slot(r.tail, 1)
      <3>1. 1 \in 0 .. RingCapacity /\ q.count \in 0 .. RingCapacity
        BY <2>1, <2>2, Sizes
      <3>2. Physical(r, 1) = Slot(r.tail, 1) /\ Physical(r, 1) \in 0 .. RingCapacity - 1
        BY <3>1, Shape, Slots
      <3> QED
        BY <2>2, <3>1, <3>2 DEF Physical
    <2>4. q \in Rings
      BY <2>2, <2>3, Shape DEF Rings, Ring
    <2>5. \A i \in 0 .. RingCapacity - 1 : Physical(q, i) = Physical(r, i + 1)
      <3> SUFFICES ASSUME NEW i \in 0 .. RingCapacity - 1 PROVE Physical(q, i) = Physical(r, i + 1)
        OBVIOUS
      <3>1. i \in 0 .. RingCapacity /\ i + 1 \in 0 .. RingCapacity /\ i \in Nat
        BY Shape
      <3>2. Physical(q, i) = Slot(q.tail, i) /\ Physical(r, i + 1) = Slot(r.tail, i + 1)
        BY <2>4, <3>1, Shape, Slots
      <3>3. Slot(Slot(r.tail, 1), i) = Slot(r.tail, i + 1)
        <4>1. r.tail \in 0 .. RingCapacity - 1 /\ RingCapacity \in Nat \ {0}
          BY Shape
        <4>2. CASE r.tail + 1 < RingCapacity
          BY <3>1, <4>1, <4>2 DEF Slot
        <4>3. CASE ~(r.tail + 1 < RingCapacity)
          BY <3>1, <4>1, <4>3 DEF Slot
        <4> QED
          BY <4>2, <4>3
      <3> QED
        BY <2>3, <3>2, <3>3
    <2>6. \A i \in 0 .. r.count - 2 : At(q, i) = At(r, i + 1)
      <3>1. \A i \in 0 .. r.count - 2 : i \in 0 .. RingCapacity - 1
        BY <2>1, Shape
      <3> QED
        BY <2>2, <2>5, <3>1 DEF At
    <2>7. p.event = At(r, 0) /\ p.event \in Inputs
      <3>1. 0 \in 0 .. r.count - 1
        BY <2>1, Sizes
      <3>2. At(r, 0) \in Inputs /\ Physical(r, 0) = r.tail
        BY <3>1, Shape, Slots
      <3> QED
        BY <2>1, <3>2 DEF At
    <2>8. q.head = Physical(q, q.count)
      <3>1. q.count \in 0 .. RingCapacity - 1 /\ q.count + 1 = r.count
        BY <2>1, <2>2, Shape
      <3> QED
        BY <2>2, <2>5, <3>1 DEF RingOK
    <2>9. \A i \in 0 .. q.count - 1 : At(q, i) \in Inputs
      <3>1. \A i \in 0 .. q.count - 1 : i \in 0 .. r.count - 2 /\ i + 1 \in 0 .. r.count - 1
        BY <2>1, <2>2
      <3> QED
        BY <2>6, <3>1, Shape
    <2>10. RingOK(q) /\ r.count > 0
      BY <2>1, <2>4, <2>8, <2>9 DEF RingOK
    <2> QED
      BY <1>2, <2>2, <2>6, <2>7, <2>10 DEF q
  <1> QED
    BY <1>1, <1>2

-----------------------------------------------------------------------------
(* A push.                                                                 *)

AllLast(r, s) == \A i \in 0 .. r.count - 1 : At(r, i).last < s
AllFirst(r, x) == \A i \in 0 .. r.count - 1 : x < At(r, i).first

\* q is r with what was captured at s, in order.
Extends(q, r, s) ==
    /\ RingOK(q) /\ InRingOrder(q)
    /\ \A i \in 0 .. q.count - 1 : At(q, i).last <= s
    /\ \A x \in Nat : x < s /\ AllFirst(r, x) => AllFirst(q, x)

LEMMA CapturedEvent ==
    ASSUME NEW s \in Stamps \ {0}, NEW class \in Classes
    PROVE  /\ Event(class, s) \in Inputs /\ Event(class, s).class = class
           /\ Event(class, s).first = s /\ Event(class, s).last = s /\ s \in Nat
  BY Sizes DEF Event, Inputs, Events, Stamps, Classes

LEMMA AppendExtends ==
    ASSUME NEW r, RingOK(r), InRingOrder(r), r.count < RingCapacity, NEW s \in Nat, AllLast(r, s),
           NEW e \in Inputs, e.first = s, e.last = s, NEW q, q = Append1(r, e)
    PROVE  Extends(q, r, s)
  <1>1. /\ RingOK(q) /\ q.count = r.count + 1 /\ At(q, r.count) = e
        /\ \A i \in 0 .. r.count - 1 : At(q, i) = At(r, i)
    BY RingAppends
  <1>2. /\ r.count \in Nat
        /\ \A i \in 0 .. q.count - 1 : i = r.count \/ i \in 0 .. r.count - 1
        /\ \A i \in 0 .. r.count - 1 : At(r, i) \in Inputs
    BY <1>1, Shape
  <1>3. \A i \in 0 .. r.count - 1 : At(r, i).last \in Nat /\ At(r, i).first \in Nat /\ At(r, i).last < s
    BY <1>2, InputFacts DEF AllLast
  <1>4. InRingOrder(q)
    <2> SUFFICES ASSUME NEW i \in 0 .. q.count - 1, NEW j \in 0 .. q.count - 1, i < j
                 PROVE  At(q, i).last < At(q, j).first
      BY DEF InRingOrder
    <2>1. i \in 0 .. r.count - 1
      BY <1>1, <1>2
    <2>2. CASE j = r.count
      BY <1>1, <1>3, <2>1, <2>2
    <2>3. CASE j \in 0 .. r.count - 1
      BY <1>1, <2>1, <2>3 DEF InRingOrder
    <2> QED
      BY <1>2, <2>2, <2>3
  <1>5. \A i \in 0 .. q.count - 1 : At(q, i).last <= s
    BY <1>1, <1>2, <1>3
  <1>6. \A x \in Nat : x < s /\ AllFirst(r, x) => AllFirst(q, x)
    BY <1>1, <1>2 DEF AllFirst
  <1> QED
    BY <1>1, <1>4, <1>5, <1>6 DEF Extends

LEMMA CoalesceExtends ==
    ASSUME NEW r, RingOK(r), InRingOrder(r), r.count > 0, NEW s \in Nat, AllLast(r, s),
           NEW e \in Inputs, e.first = s, e.last = s, s \in Stamps,
           NEW q, q = Replaced(r, Coalesced(r.slots[Newest(r)], e))
    PROVE  Extends(q, r, s)
  <1> DEFINE old == At(r, r.count - 1)
             new == Coalesced(old, e)
  <1>1. r.count \in Nat /\ r.count - 1 \in 0 .. r.count - 1 /\ \A i \in 0 .. r.count - 1 : At(r, i) \in Inputs
    BY Shape
  <1>2. old \in Inputs /\ old.first <= old.last /\ old.last < s /\ old.first \in Nat /\ old.last \in Nat
    BY <1>1, InputFacts DEF AllLast
  <1>3. new \in Inputs /\ new.last = s /\ old.first <= new.first /\ new.first \in Nat
    <2>1. CASE e.class \in Replacing
      BY <1>2, <2>1 DEF Coalesced
    <2>2. CASE e.class \notin Replacing
      BY <1>2, <2>2, InputFacts DEF Coalesced, Inputs, Events, Stamps
    <2> QED
      BY <2>1, <2>2
  <1>4. r.slots[Newest(r)] = old
    BY RingReplaces, <1>2
  <1>5. /\ RingOK(q) /\ q.count = r.count
        /\ At(q, r.count - 1) = new /\ \A i \in 0 .. r.count - 2 : At(q, i) = At(r, i)
    BY <1>3, <1>4, RingReplaces
  <1> HIDE DEF old, new
  <1>6. /\ \A i \in 0 .. q.count - 1 : i = r.count - 1 \/ i \in 0 .. r.count - 2
        /\ \A i \in 0 .. r.count - 2 : i \in 0 .. r.count - 1 /\ i < r.count - 1
    BY <1>1, <1>5
  <1>7. \A i \in 0 .. r.count - 1 : At(r, i).last \in Nat /\ At(r, i).first \in Nat /\ At(r, i).last < s
    BY <1>1, InputFacts DEF AllLast
  <1>8. \A i \in 0 .. r.count - 2 : At(r, i).last < old.first
    BY <1>1, <1>6 DEF InRingOrder, old
  <1>9. InRingOrder(q)
    <2> SUFFICES ASSUME NEW i \in 0 .. q.count - 1, NEW j \in 0 .. q.count - 1, i < j
                 PROVE  At(q, i).last < At(q, j).first
      BY DEF InRingOrder
    <2>1. i \in 0 .. r.count - 2 /\ i \in 0 .. r.count - 1 /\ At(q, i) = At(r, i)
      BY <1>1, <1>5, <1>6
    <2>2. CASE j = r.count - 1
      BY <1>2, <1>3, <1>5, <1>7, <1>8, <2>1, <2>2
    <2>3. CASE j \in 0 .. r.count - 2
      BY <1>5, <1>6, <2>1, <2>3 DEF InRingOrder
    <2> QED
      BY <1>6, <2>2, <2>3
  <1>10. \A i \in 0 .. q.count - 1 : At(q, i).last <= s
    BY <1>3, <1>5, <1>6, <1>7
  <1>11. \A x \in Nat : x < s /\ AllFirst(r, x) => AllFirst(q, x)
    <2> SUFFICES ASSUME NEW x \in Nat, AllFirst(r, x), NEW i \in 0 .. q.count - 1
                 PROVE  x < At(q, i).first
      BY DEF AllFirst
    <2>1. CASE i = r.count - 1
      <3>1. x < old.first
        BY <1>1 DEF AllFirst, old
      <3> QED
        BY <1>2, <1>3, <1>5, <2>1, <3>1
    <2>2. CASE i \in 0 .. r.count - 2
      BY <1>5, <1>6, <2>2 DEF AllFirst
    <2> QED
      BY <1>6, <2>1, <2>2
  <1> QED
    BY <1>5, <1>9, <1>10, <1>11 DEF Extends

\* A ring from which one event was removed.
LEMMA RemovedOrder ==
    ASSUME NEW r, RingOK(r), InRingOrder(r), NEW s \in Nat, AllLast(r, s),
           NEW k \in 0 .. r.count - 1, NEW q, q = RemoveAt(r, k)
    PROVE  /\ RingOK(q) /\ InRingOrder(q) /\ AllLast(q, s) /\ q.count < RingCapacity /\ q.latched = r.latched
           /\ \A x \in Nat : AllFirst(r, x) => AllFirst(q, x)
  <1> DEFINE From(i) == IF i < k THEN i ELSE i + 1
  <1>1. /\ RingOK(q) /\ q.count = r.count - 1 /\ q.latched = r.latched
        /\ \A i \in 0 .. r.count - 2 : At(q, i) = IF i < k THEN At(r, i) ELSE At(r, i + 1)
    BY RingRemoves
  <1>2. r.count \in Nat /\ k \in Nat /\ r.count <= RingCapacity /\ RingCapacity \in Nat
    BY Shape
  <1>3. \A i \in 0 .. q.count - 1 : From(i) \in 0 .. r.count - 1 /\ i \in 0 .. r.count - 2 /\ i \in Int
    BY <1>1, <1>2
  <1>4. \A i, j \in 0 .. q.count - 1 : i < j => From(i) < From(j)
    BY <1>1, <1>2
  <1>5. \A i \in 0 .. q.count - 1 : At(q, i) = At(r, From(i))
    BY <1>1, <1>3
  <1>6. q.count < RingCapacity
    BY <1>1, <1>2
  <1> HIDE DEF From
  <1> QED
    BY <1>1, <1>3, <1>4, <1>5, <1>6 DEF InRingOrder, AllLast, AllFirst

\* Among some positions there is a first one.
LEMMA FirstOne ==
    ASSUME NEW n \in Nat, NEW S \in SUBSET (0 .. n), S # {}
    PROVE  \E i \in S : \A j \in S : i <= j
  <1> DEFINE Below == {0 .. i : i \in S}
  <1>1. IsWellFoundedOn(StrictSubsetOrdering(Nat), FiniteSubsetsOf(Nat))
    BY FS_StrictSubsetOrderingWellFounded
  <1>2. Below \subseteq FiniteSubsetsOf(Nat) /\ Below # {}
    <2>1. \A i \in S : 0 .. i \in SUBSET Nat /\ IsFiniteSet(0 .. i)
      BY FS_Interval
    <2> QED
      BY <2>1 DEF FiniteSubsetsOf
  <1>3. PICK least \in Below : \A other \in Below : <<other, least>> \notin StrictSubsetOrdering(Nat)
    <2> HIDE DEF Below
    <2> QED
      BY <1>1, <1>2, WFMin
  <1>4. PICK i \in S : least = 0 .. i
    OBVIOUS
  <1>5. \A j \in S : i <= j
    <2> SUFFICES ASSUME NEW j \in S, j < i PROVE FALSE
      OBVIOUS
    <2>1. 0 .. j \subseteq 0 .. i /\ i \notin 0 .. j /\ i \in 0 .. i
      OBVIOUS
    <2>2. <<0 .. j, 0 .. i>> \in StrictSubsetOrdering(Nat)
      BY <2>1 DEF StrictSubsetOrdering
    <2> QED
      BY <1>3, <1>4, <2>2
  <1> QED
    BY <1>5

LEMMA PushExtends ==
    ASSUME NEW r, RingOK(r), InRingOrder(r), NEW s \in Stamps \ {0}, AllLast(r, s),
           NEW class \in Classes, NEW p, p = Push(r, Event(class, s))
    PROVE  /\ Extends(p.ring, r, s)
           /\ p.lost => p.ring.latched
           /\ r.latched => p.ring.latched
  <1> DEFINE e == Event(class, s)
  <1>1. e \in Inputs /\ e.first = s /\ e.last = s /\ s \in Nat /\ s \in Stamps
    BY CapturedEvent
  <1>2. p = Push(r, e)
    OBVIOUS
  <1> HIDE DEF e
  <1>3. \A q : /\ Pushed(q, FALSE).ring = q /\ ~Pushed(q, FALSE).lost
              /\ Pushed(q, TRUE).ring = q
    BY DEF Pushed
  <1>4. r.count \in Nat /\ r.count <= RingCapacity /\ RingCapacity \in Nat /\ r.latched \in BOOLEAN /\ r \in Rings
    BY Shape
  <1>5. Extends(r, r, s)
    <2>1. \A i \in 0 .. r.count - 1 : At(r, i).last \in Nat /\ At(r, i).last < s
      BY Shape, InputFacts DEF AllLast
    <2> QED
      BY <1>1, <2>1 DEF Extends
  <1>6. CASE r.count > 0 /\ CanCoalesce(r.slots[Newest(r)], e)
    <2>1. p = Pushed(Replaced(r, Coalesced(r.slots[Newest(r)], e)), FALSE)
      BY <1>2, <1>6 DEF Push, Replaced
    <2> DEFINE q == Replaced(r, Coalesced(r.slots[Newest(r)], e))
    <2>2. Extends(q, r, s)
      BY <1>1, <1>6, CoalesceExtends
    <2>3. q.latched = r.latched
      BY <1>4 DEF Replaced, Rings
    <2>4. p.ring = q /\ ~p.lost
      BY <1>3, <2>1
    <2> HIDE DEF q
    <2> QED
      BY <2>2, <2>3, <2>4
  <1>7. CASE ~(r.count > 0 /\ CanCoalesce(r.slots[Newest(r)], e)) /\ r.count < RingCapacity
    <2>1. p = Pushed(Append1(r, e), FALSE)
      BY <1>2, <1>7 DEF Push
    <2> DEFINE q == Append1(r, e)
    <2>2. Extends(q, r, s) /\ q.latched = r.latched
      BY <1>1, <1>7, AppendExtends, RingAppends
    <2>3. p.ring = q /\ ~p.lost
      BY <1>3, <2>1
    <2> HIDE DEF q
    <2> QED
      BY <2>2, <2>3
  <1>8. CASE ~(r.count > 0 /\ CanCoalesce(r.slots[Newest(r)], e)) /\ ~(r.count < RingCapacity)
    <2>1. CASE IsMotion(e)
      <3>1. p = Pushed(r, FALSE)
        BY <1>2, <1>8, <2>1 DEF Push
      <3>2. p.ring = r /\ ~p.lost
        BY <1>3, <3>1
      <3> QED
        BY <1>5, <3>2
    <2>2. CASE ~IsMotion(e) /\ MotionAt(r) = {}
      <3> DEFINE q == [r EXCEPT !.latched = TRUE]
      <3>1. p = Pushed(q, TRUE)
        BY <1>2, <1>8, <2>2 DEF Push
      <3>2. q.latched /\ q.count = r.count /\ q.tail = r.tail /\ q.head = r.head /\ q.slots = r.slots /\ q \in Rings
        BY <1>4 DEF Rings
      <3> HIDE DEF q
      <3>3. \A i : At(q, i) = At(r, i) /\ Physical(q, i) = Physical(r, i)
        BY <3>2, SameTail DEF At
      <3>4. Extends(q, r, s)
        BY <1>5, <3>2, <3>3 DEF Extends, RingOK, InRingOrder, AllFirst
      <3>5. p.ring = q
        BY <1>3, <3>1
      <3> QED
        BY <3>2, <3>4, <3>5
    <2>3. CASE ~IsMotion(e) /\ MotionAt(r) # {}
      <3> DEFINE k == CHOOSE i \in MotionAt(r) : \A j \in MotionAt(r) : i <= j
                 q == RemoveAt(r, k)
      <3>1. k \in 0 .. r.count - 1
        <4>1. \E i \in MotionAt(r) : \A j \in MotionAt(r) : i <= j
          <5>1. MotionAt(r) \in SUBSET (0 .. RingCapacity)
            BY <1>4 DEF MotionAt
          <5> QED
            BY <1>4, <2>3, <5>1, FirstOne
        <4> QED
          BY <4>1 DEF MotionAt
      <3>2. p = Pushed(Append1(q, e), FALSE)
        BY <1>2, <1>8, <2>3 DEF Push
      <3> HIDE DEF k
      <3>3. /\ RingOK(q) /\ InRingOrder(q) /\ AllLast(q, s) /\ q.count < RingCapacity /\ q.latched = r.latched
            /\ \A x \in Nat : AllFirst(r, x) => AllFirst(q, x)
        BY <1>1, <3>1, RemovedOrder
      <3> HIDE DEF q
      <3>4. Extends(Append1(q, e), q, s) /\ Append1(q, e).latched = r.latched
        BY <1>1, <3>3, AppendExtends, RingAppends
      <3>5. Extends(Append1(q, e), r, s)
        BY <3>3, <3>4 DEF Extends
      <3>6. p.ring = Append1(q, e) /\ ~p.lost
        BY <1>3, <3>2
      <3> QED
        BY <3>4, <3>5, <3>6
    <2> QED
      BY <2>1, <2>2, <2>3
  <1> QED
    BY <1>4, <1>6, <1>7, <1>8

-----------------------------------------------------------------------------
(* The invariant.                                                          *)

Threads == {"top", "register", "submit", "forward", "recheck", "pended", "waiting", "publish", "ended"}

\* A request is out only while the thread waits for it.
Types ==
    /\ RingOK(ring) /\ callbacks \in 0 .. CallbackMax
    /\ request \in [at : Places, event : Handed]
    /\ thread \in Threads /\ hand \in Handed
    /\ request.at # "none" => thread \in {"recheck", "pended", "waiting"}
    /\ {registered, cancelled, running, overflow, sleeping, permit} \subseteq BOOLEAN
    /\ queue \in Seq(Inputs) /\ Len(queue) <= IngressCapacity
    /\ {captured, taken, lost} \subseteq Stamps /\ crashes \in 0 .. CrashMax

\* The one event between the ring and the ingress, if it is an input.
Given == IF thread = "publish" THEN hand
         ELSE IF request.at = "done" THEN request.event ELSE OverflowEvent

InQueueOrder(q) == \A i, j \in DOMAIN q : i < j => q[i].last < q[j].first
Ahead == {taken} \cup {queue[i].last : i \in DOMAIN queue}

\* What the actor took, the ingress, the event between and the ring follow
\* one another.
OrderInv ==
    /\ InRingOrder(ring) /\ InQueueOrder(queue)
    /\ \A i \in DOMAIN queue : taken < queue[i].first
    /\ \A x \in Ahead : x <= captured /\ AllFirst(ring, x) /\ (IsInput(Given) => x < Given.first)
    /\ IsInput(Given) => Given.last <= captured /\ AllFirst(ring, Given.last)
    /\ \A i \in 0 .. ring.count - 1 : At(ring, i).last <= captured

FaultGiven == \/ thread = "publish" /\ ~IsInput(hand)
              \/ request.at = "done" /\ ~IsInput(request.event)

\* Wherever the fault is, everything ahead of it was captured before the loss.
LossInv ==
    lost # 0 =>
        /\ taken < lost
        /\ \/ overflow
           \/ /\ \A x \in Ahead : x < lost
              /\ \/ FaultGiven
                 \/ ring.latched /\ (IsInput(Given) => Given.last < lost)

IInv == Types /\ OrderInv /\ LossInv /\ NoMissedWakeup

LEMMA Before ==
    ASSUME Types, OrderInv
    PROVE  /\ captured \in Nat /\ taken \in Nat /\ RingOK(ring) /\ InRingOrder(ring)
           /\ AllLast(ring, captured + 1) /\ callbacks \in Nat
           /\ captured < CaptureMax => captured + 1 \in Stamps \ {0}
  <1>1. /\ captured \in Nat /\ taken \in Nat /\ RingOK(ring) /\ InRingOrder(ring) /\ callbacks \in Nat
        /\ captured < CaptureMax => captured + 1 \in Stamps \ {0}
    BY Sizes DEF Types, OrderInv, Stamps
  <1>2. \A i \in 0 .. ring.count - 1 : At(ring, i).last \in Nat
    BY <1>1, Shape, InputFacts
  <1> QED
    BY <1>1, <1>2 DEF OrderInv, AllLast

LEMMA InitInv == Init => IInv
  <1> SUFFICES ASSUME Init PROVE IInv
    OBVIOUS
  <1> USE DEF Init
  <1>1. OverflowEvent \in Handed /\ ~IsInput(OverflowEvent)
    BY InputFacts DEF Handed
  <1>2. RingOK(ring) /\ ring.count = 0 /\ ~ring.latched
    <2>1. EmptyRing \in Rings /\ EmptyRing.count = 0 /\ EmptyRing.tail = 0 /\ EmptyRing.head = 0 /\ EmptyRing.latched = FALSE
      BY Sizes, InputFacts DEF EmptyRing, Rings
    <2>2. Physical(EmptyRing, 0) = 0
      BY <2>1, Slots
    <2>3. 0 .. EmptyRing.count - 1 = {}
      BY <2>1
    <2> QED
      BY <2>1, <2>2, <2>3 DEF RingOK
  <1>3. Given = OverflowEvent /\ 0 .. ring.count - 1 = {} /\ Ahead = {0} /\ queue = <<>>
    BY <1>2 DEF Given, NoRequest, Ahead
  <1>4. Types
    <2>1. request \in [at : Places, event : Handed] /\ request.at = "none"
      BY <1>1 DEF NoRequest, Places
    <2>2. 0 \in Stamps /\ 0 \in 0 .. CallbackMax /\ 0 \in 0 .. CrashMax
      BY Sizes DEF Stamps
    <2>3. queue \in Seq(Inputs) /\ Len(queue) <= IngressCapacity
      BY Sizes
    <2>4. thread \in Threads
      BY DEF Threads
    <2> QED
      BY <1>1, <1>2, <2>1, <2>2, <2>3, <2>4 DEF Types
  <1>5. OrderInv
    BY <1>1, <1>3 DEF OrderInv, InRingOrder, InQueueOrder, AllFirst
  <1>6. LossInv
    BY DEF LossInv
  <1>7. NoMissedWakeup
    BY DEF NoMissedWakeup, NoRequest
  <1> QED
    BY <1>4, <1>5, <1>6, <1>7 DEF IInv

-----------------------------------------------------------------------------
(* The ingress.                                                            *)

\* What a push of e may make of a queue.
Takes(q, r, e) ==
    /\ r \in Seq(Inputs) /\ Len(r) <= IngressCapacity
    /\ InQueueOrder(r)
    /\ \A x \in Nat : (\A i \in DOMAIN q : x < q[i].first) /\ x < e.first => \A i \in DOMAIN r : x < r[i].first
    /\ \A i \in DOMAIN r : r[i].last = e.last \/ \E j \in DOMAIN q : r[i].last = q[j].last

Queued(q, e) == /\ q \in Seq(Inputs) /\ Len(q) <= IngressCapacity /\ InQueueOrder(q)
                /\ e \in Inputs /\ \A i \in DOMAIN q : q[i].last < e.first

LEMMA QueueShape ==
    ASSUME NEW q, NEW e, Queued(q, e)
    PROVE  /\ Len(q) \in Nat /\ DOMAIN q = 1 .. Len(q)
           /\ \A i \in 1 .. Len(q) : /\ q[i] \in Inputs /\ q[i].first \in Nat /\ q[i].last \in Nat
                                     /\ q[i].first <= q[i].last /\ q[i].last < e.first
           /\ e \in Inputs /\ e.first \in Nat /\ e.last \in Nat /\ e.first <= e.last /\ 0 < e.first
           /\ q \in [1 .. Len(q) -> Inputs]
  <1>1. Len(q) \in Nat /\ DOMAIN q = 1 .. Len(q) /\ q \in [1 .. Len(q) -> Inputs]
    BY DEF Queued
  <1>2. \A i \in 1 .. Len(q) : q[i] \in Inputs
    BY <1>1
  <1> QED
    BY <1>1, <1>2, InputFacts DEF Queued

LEMMA AppendTakes ==
    ASSUME NEW q, NEW e, Queued(q, e), Len(q) < IngressCapacity, NEW r, r = Append(q, e)
    PROVE  Takes(q, r, e)
  <1>1. /\ r \in Seq(Inputs) /\ Len(r) = Len(q) + 1 /\ DOMAIN r = 1 .. Len(q) + 1 /\ r[Len(q) + 1] = e
        /\ \A i \in 1 .. Len(q) : r[i] = q[i]
    BY QueueShape DEF Queued
  <1>2. \A i \in DOMAIN r : i = Len(q) + 1 \/ i \in 1 .. Len(q)
    BY <1>1, QueueShape
  <1>3. InQueueOrder(r)
    <2> SUFFICES ASSUME NEW i \in DOMAIN r, NEW j \in DOMAIN r, i < j PROVE r[i].last < r[j].first
      BY DEF InQueueOrder
    <2>1. i \in 1 .. Len(q)
      BY <1>1, QueueShape
    <2>2. CASE j = Len(q) + 1
      BY <1>1, <2>1, <2>2, QueueShape
    <2>3. CASE j \in 1 .. Len(q)
      BY <1>1, <2>1, <2>3, QueueShape DEF InQueueOrder, Queued
    <2> QED
      BY <1>2, <2>2, <2>3
  <1>4. Len(r) <= IngressCapacity
    BY <1>1, QueueShape, Sizes
  <1> QED
    BY <1>1, <1>2, <1>3, <1>4, QueueShape DEF Takes

LEMMA EvictTakes ==
    ASSUME Types, NEW e, Queued(queue, e), NEW k \in DOMAIN queue, NEW r, r = Evicted(k, e)
    PROVE  Takes(queue, r, e)
  <1> DEFINE From(j) == IF j < k THEN j ELSE j + 1
             rest == [j \in 1 .. Len(queue) - 1 |-> queue[From(j)]]
  <1>1. r = Append(rest, e)
    BY DEF Evicted
  <1>2. Len(queue) \in Nat /\ k \in 1 .. Len(queue) /\ k \in Nat /\ Len(queue) - 1 \in Nat
    BY QueueShape
  <1>3. \A j \in 1 .. Len(queue) - 1 : From(j) \in 1 .. Len(queue)
    BY <1>2
  <1>4. \A i, j \in 1 .. Len(queue) - 1 : i < j => From(i) < From(j)
    BY <1>2
  <1> HIDE DEF From
  <1>5. rest \in [1 .. Len(queue) - 1 -> Inputs]
    BY <1>3, QueueShape
  <1>6. rest \in Seq(Inputs) /\ Len(rest) = Len(queue) - 1 /\ DOMAIN rest = 1 .. Len(queue) - 1
    BY <1>2, <1>5
  <1>7. \A j \in DOMAIN rest : rest[j] = queue[From(j)] /\ From(j) \in DOMAIN queue
    BY <1>3, <1>6, QueueShape
  <1>8. Queued(rest, e) /\ Len(rest) < IngressCapacity
    <2>1. InQueueOrder(rest)
      BY <1>4, <1>6, <1>7 DEF InQueueOrder, Queued
    <2>2. Len(rest) < IngressCapacity
      BY <1>2, <1>6, Sizes DEF Types
    <2> QED
      BY <1>6, <1>7, <2>1, <2>2, Sizes DEF Queued
  <1> HIDE DEF rest
  <1>9. Takes(rest, r, e)
    BY <1>1, <1>8, AppendTakes
  <1> QED
    BY <1>7, <1>9 DEF Takes

LEMMA SeqOf ==
    ASSUME NEW n \in Nat, NEW S, NEW f \in [1 .. n -> S]
    PROVE  f \in Seq(S) /\ Len(f) = n /\ DOMAIN f = 1 .. n
  OBVIOUS

LEMMA CoalesceTakes ==
    ASSUME NEW q, NEW e, Queued(q, e), q # <<>>, NEW r, r = [q EXCEPT ![Len(q)] = Coalesced(@, e)]
    PROVE  Takes(q, r, e)
  <1> DEFINE n == Len(q)
             new == Coalesced(q[n], e)
  <1>1. n \in Nat /\ n \in 1 .. n /\ q \in [1 .. n -> Inputs] /\ DOMAIN q = 1 .. n /\ n # 0
    BY QueueShape DEF Queued
  <1>2. new \in Inputs /\ new.last = e.last /\ new.first \in {q[n].first, e.first}
    <2>1. q[n] \in Inputs /\ q[n].last < e.first /\ q[n].first <= q[n].last /\ q[n].first \in Nat /\ q[n].last \in Nat
      BY <1>1, QueueShape
    <2>2. CASE e.class \in Replacing
      BY <2>1, <2>2, QueueShape DEF Coalesced
    <2>3. CASE e.class \notin Replacing
      BY <2>1, <2>3, QueueShape, InputFacts DEF Coalesced, Inputs, Events, Stamps
    <2> QED
      BY <2>2, <2>3
  <1>3. r = [q EXCEPT ![n] = new]
    OBVIOUS
  <1> HIDE DEF new
  <1>4. r \in [1 .. n -> Inputs] /\ r[n] = new /\ \A i \in 1 .. n : i # n => r[i] = q[i]
    BY <1>1, <1>2, <1>3
  <1>5. r \in Seq(Inputs) /\ Len(r) = n /\ DOMAIN r = 1 .. n
    <2> HIDE DEF n
    <2> QED
      BY <1>1, <1>4, SeqOf
  <1> HIDE DEF n
  <1>6. InQueueOrder(r)
    <2> SUFFICES ASSUME NEW i \in DOMAIN r, NEW j \in DOMAIN r, i < j PROVE r[i].last < r[j].first
      BY DEF InQueueOrder
    <2>1. i \in 1 .. n /\ i # n /\ r[i] = q[i] /\ j \in 1 .. n
      BY <1>1, <1>4, <1>5
    <2>2. q[i].last < q[j].first /\ q[i].last < e.first
      BY <1>1, <1>5, <2>1 DEF InQueueOrder, Queued
    <2>3. CASE j = n
      BY <1>2, <1>4, <2>1, <2>2, <2>3
    <2>4. CASE j # n
      BY <1>4, <2>1, <2>2, <2>4
    <2> QED
      BY <2>3, <2>4
  <1>7. Len(r) <= IngressCapacity
    BY <1>5 DEF Queued, n
  <1>8. \A x \in Nat : (\A i \in DOMAIN q : x < q[i].first) /\ x < e.first => \A i \in DOMAIN r : x < r[i].first
    BY <1>1, <1>2, <1>4, <1>5
  <1>9. \A i \in DOMAIN r : r[i].last = e.last \/ \E j \in DOMAIN q : r[i].last = q[j].last
    BY <1>1, <1>2, <1>4, <1>5
  <1> QED
    BY <1>5, <1>6, <1>7, <1>8, <1>9 DEF Takes

LEMMA PushTakes ==
    ASSUME Types, NEW e, Queued(queue, e), TryPush(e)
    PROVE  /\ Takes(queue, queue', e)
           /\ UNCHANGED <<overflow, lost>> \/ (overflow' /\ lost' = Lose(e.last))
           /\ {overflow', sleeping', permit'} \subseteq BOOLEAN
           /\ (queue' # <<>> \/ overflow') /\ sleeping' => sleeping /\ (queue # <<>> \/ overflow)
  <1> DEFINE back == queue[Len(queue)]
             oldest == CHOOSE i \in MotionsQueued : \A j \in MotionsQueued : i <= j
  <1>1. /\ {overflow, sleeping, permit} \subseteq BOOLEAN
        /\ NotifyOne => ~sleeping' /\ sleeping' \in BOOLEAN /\ permit' \in BOOLEAN
    BY DEF Types, NotifyOne
  <1>2. Takes(queue, queue, e)
    BY QueueShape DEF Takes, Queued
  <1>3. CASE queue # <<>> /\ CanCoalesce(back, e)
    <2>1. /\ queue' = queue \/ queue' = [queue EXCEPT ![Len(queue)] = Coalesced(@, e)]
          /\ UNCHANGED <<overflow, sleeping, permit, lost>>
      BY <1>3 DEF TryPush
    <2>2. Takes(queue, queue', e)
      BY <1>2, <1>3, <2>1, CoalesceTakes
    <2> QED
      BY <1>1, <1>3, <2>1, <2>2
  <1>4. CASE ~(queue # <<>> /\ CanCoalesce(back, e)) /\ (Len(queue) < IngressCapacity \/ MotionsQueued # {})
    <2>1. /\ queue' = IF Len(queue) < IngressCapacity THEN Append(queue, e) ELSE Evicted(oldest, e)
          /\ NotifyOne /\ UNCHANGED <<overflow, lost>>
      BY <1>4 DEF TryPush
    <2>2. CASE Len(queue) < IngressCapacity
      <3>1. Takes(queue, queue', e)
        BY <2>1, <2>2, AppendTakes
      <3> QED
        BY <1>1, <2>1, <3>1
    <2>3. CASE ~(Len(queue) < IngressCapacity)
      <3>1. oldest \in DOMAIN queue
        <4>1. MotionsQueued \in SUBSET (0 .. Len(queue)) /\ Len(queue) \in Nat /\ MotionsQueued \subseteq DOMAIN queue
          BY QueueShape DEF MotionsQueued
        <4>2. \E i \in MotionsQueued : \A j \in MotionsQueued : i <= j
          BY <1>4, <2>3, <4>1, FirstOne
        <4> QED
          BY <4>1, <4>2
      <3> HIDE DEF oldest
      <3>2. Takes(queue, queue', e)
        BY <2>1, <2>3, <3>1, EvictTakes
      <3> QED
        BY <1>1, <2>1, <3>2
    <2> QED
      BY <2>2, <2>3
  <1>5. CASE ~(queue # <<>> /\ CanCoalesce(back, e)) /\ ~(Len(queue) < IngressCapacity \/ MotionsQueued # {})
    <2>1. CASE IsMotion(e)
      <3>1. UNCHANGED <<ingress, lost>>
        BY <1>5, <2>1 DEF TryPush
      <3> QED
        BY <1>1, <1>2, <3>1 DEF ingress
    <2>2. CASE ~IsMotion(e)
      <3>1. overflow' = TRUE /\ lost' = Lose(e.last) /\ NotifyOne /\ UNCHANGED queue
        BY <1>5, <2>2 DEF TryPush
      <3> QED
        BY <1>1, <1>2, <3>1
    <2> QED
      BY <2>1, <2>2
  <1> QED
    BY <1>3, <1>4, <1>5

-----------------------------------------------------------------------------
(* The steps.                                                              *)

\* Nothing moves on the path, or the next event leaves the ring.
Still == /\ UNCHANGED <<ring, queue, overflow, taken, captured, lost>>
         /\ Given' = Given /\ (FaultGiven' <=> FaultGiven)

Pops == /\ HasEvent(ring) /\ ~IsInput(Given) /\ ~FaultGiven
        /\ ring' = Pop(ring).ring /\ Given' = Pop(ring).event
        /\ FaultGiven' <=> ~IsInput(Pop(ring).event)
        /\ UNCHANGED <<queue, overflow, taken, captured, lost>>

LEMMA StillKeeps ==
    ASSUME OrderInv, LossInv, Still
    PROVE  OrderInv' /\ LossInv'
  <1>1. Ahead' = Ahead
    BY DEF Still, Ahead
  <1>2. OrderInv'
    BY <1>1 DEF Still, OrderInv
  <1>3. LossInv'
    BY <1>1 DEF Still, LossInv
  <1> QED
    BY <1>2, <1>3

LEMMA PopsKeep ==
    ASSUME Types, OrderInv, LossInv, Pops
    PROVE  OrderInv' /\ LossInv'
  <1> DEFINE p == Pop(ring)
  <1>1. RingOK(ring) /\ ring.count \in Nat /\ ring.latched \in BOOLEAN
    BY Shape DEF Types
  <1>2. /\ RingOK(p.ring) /\ ~p.ring.latched
        /\ ring.latched => /\ p.event = OverflowEvent /\ p.ring.count = ring.count
                           /\ \A i \in 0 .. ring.count - 1 : At(p.ring, i) = At(ring, i)
        /\ ~ring.latched => /\ ring.count > 0 /\ p.event = At(ring, 0) /\ p.event \in Inputs
                            /\ p.ring.count = ring.count - 1
                            /\ \A i \in 0 .. ring.count - 2 : At(p.ring, i) = At(ring, i + 1)
    BY <1>1, RingPops DEF Pops
  <1>3. /\ ring' = p.ring /\ Given' = p.event /\ (FaultGiven' <=> ~IsInput(p.event)) /\ ~FaultGiven
        /\ UNCHANGED <<queue, overflow, taken, captured, lost>>
    BY DEF Pops
  <1> HIDE DEF p
  <1>4. Ahead' = Ahead
    BY <1>3 DEF Ahead
  <1>5. \A i \in 0 .. ring.count - 1 : /\ At(ring, i) \in Inputs /\ At(ring, i).first \in Nat /\ At(ring, i).last \in Nat
                                       /\ At(ring, i).first <= At(ring, i).last
    BY <1>1, Shape, InputFacts
  <1>6. CASE ring.latched
    <2>1. ~IsInput(Given')
      BY <1>2, <1>3, <1>6, InputFacts
    <2>2. InRingOrder(ring') /\ \A x : AllFirst(ring, x) => AllFirst(ring', x)
      BY <1>2, <1>3, <1>6 DEF InRingOrder, AllFirst, OrderInv
    <2>3. OrderInv'
      BY <1>2, <1>3, <1>4, <1>6, <2>1, <2>2 DEF OrderInv
    <2>4. LossInv'
      BY <1>2, <1>3, <1>4, <1>6, <2>1 DEF LossInv
    <2> QED
      BY <2>3, <2>4
  <1>7. CASE ~ring.latched
    <2>1. /\ ring'.count = ring.count - 1 /\ Given' = At(ring, 0) /\ IsInput(Given')
          /\ \A i \in 0 .. ring'.count - 1 : /\ i \in 0 .. ring.count - 2 /\ i + 1 \in 0 .. ring.count - 1 /\ i \in 0 .. ring.count - 1
                                             /\ At(ring', i) = At(ring, i + 1)
          /\ 0 \in 0 .. ring.count - 1
      BY <1>1, <1>2, <1>3, <1>7, InputFacts
    <2>2. InRingOrder(ring')
      BY <1>1, <2>1 DEF InRingOrder, OrderInv
    <2>3. \A x : AllFirst(ring, x) => AllFirst(ring', x) /\ x < At(ring, 0).first
      BY <2>1 DEF AllFirst
    <2>4. AllFirst(ring', At(ring, 0).last)
      BY <1>1, <2>1 DEF AllFirst, InRingOrder, OrderInv
    <2>5. At(ring, 0).last <= captured /\ \A i \in 0 .. ring'.count - 1 : At(ring', i).last <= captured
      BY <2>1 DEF OrderInv
    <2>6. \A x \in Ahead : x <= captured /\ AllFirst(ring', x) /\ x < At(ring, 0).first
      BY <2>3 DEF OrderInv
    <2>7. OrderInv'
      BY <1>3, <1>4, <2>1, <2>2, <2>4, <2>5, <2>6 DEF OrderInv
    <2>8. LossInv'
      BY <1>3, <1>4, <1>7 DEF LossInv
    <2> QED
      BY <2>7, <2>8
  <1> QED
    BY <1>6, <1>7

LEMMA CaptureKeeps ==
    ASSUME IInv, NEW class \in Classes, Capture(class)
    PROVE  IInv'
  <1> DEFINE s == captured + 1
             p == Push(ring, Event(class, s))
  <1>1. Types /\ OrderInv /\ LossInv
    BY DEF IInv
  <1>2. /\ s \in Stamps \ {0} /\ RingOK(ring) /\ InRingOrder(ring) /\ AllLast(ring, s) /\ captured \in Nat /\ taken \in Nat
        /\ captured' = s /\ ring' = p.ring /\ callbacks' = callbacks + 1 /\ callbacks < CallbackMax /\ callbacks \in Nat
        /\ lost' = IF p.lost THEN Lose(s) ELSE lost
        /\ UNCHANGED <<request, capture, ingress, taken, crashes>>
    BY <1>1, Before DEF Capture
  <1>3. Extends(ring', ring, s) /\ (p.lost => ring'.latched) /\ (ring.latched => ring'.latched)
    BY <1>2, PushExtends
  <1>4. lost' = lost \/ (lost = 0 /\ lost' = s /\ ring'.latched)
    BY <1>2, <1>3 DEF Lose
  <1> HIDE DEF p, s
  <1>5. s = captured + 1 /\ s \in Nat
    BY <1>2 DEF s
  <1>6. Given' = Given /\ (FaultGiven' <=> FaultGiven) /\ Ahead' = Ahead
    BY <1>2 DEF Given, FaultGiven, Ahead, capture, ingress
  <1>7. Types'
    <2>1. RingOK(ring')
      BY <1>3 DEF Extends
    <2>2. callbacks' \in 0 .. CallbackMax /\ lost' \in Stamps /\ captured' \in Stamps
      BY <1>1, <1>2, <1>4, Sizes DEF Types
    <2> QED
      BY <1>1, <1>2, <2>1, <2>2 DEF Types, capture, ingress
  <1>8. \A x \in Ahead : x \in Nat
    <2>1. \A i \in DOMAIN queue : queue[i].last \in Nat
      BY <1>1, InputFacts DEF Types
    <2> QED
      BY <1>2, <2>1 DEF Ahead
  <1>9. IsInput(Given) => Given.last \in Nat
    BY <1>1, InputFacts DEF Types, Given, Handed
  <1>10. OrderInv'
    <2>1. InRingOrder(ring') /\ \A i \in 0 .. ring'.count - 1 : At(ring', i).last <= captured'
      BY <1>2, <1>3 DEF Extends
    <2>2. \A x \in Ahead : x <= captured' /\ AllFirst(ring', x)
      BY <1>1, <1>2, <1>3, <1>5, <1>8 DEF Extends, OrderInv
    <2>3. IsInput(Given) => Given.last <= captured' /\ AllFirst(ring', Given.last)
      BY <1>1, <1>2, <1>3, <1>5, <1>9 DEF Extends, OrderInv
    <2> QED
      BY <1>1, <1>2, <1>6, <2>1, <2>2, <2>3 DEF OrderInv, ingress
  <1>11. LossInv'
    <2>1. CASE lost' = lost
      BY <1>1, <1>2, <1>3, <1>6, <2>1 DEF LossInv, ingress
    <2>2. CASE lost' = s /\ ring'.latched
      <3>1. taken \in Ahead /\ \A x \in Ahead : x < s
        BY <1>1, <1>2, <1>5, <1>8 DEF OrderInv, Ahead
      <3>2. IsInput(Given) => Given.last < s
        BY <1>1, <1>2, <1>5, <1>9 DEF OrderInv
      <3> QED
        BY <1>2, <1>6, <2>2, <3>1, <3>2 DEF LossInv
    <2> QED
      BY <1>4, <2>1, <2>2
  <1>12. NoMissedWakeup'
    BY <1>2 DEF IInv, NoMissedWakeup, ingress
  <1> QED
    BY <1>7, <1>10, <1>11, <1>12 DEF IInv

LEMMA AheadFacts ==
    ASSUME Types
    PROVE  /\ taken \in Nat /\ captured \in Nat /\ lost \in Nat
           /\ \A i \in DOMAIN queue : queue[i] \in Inputs /\ queue[i].first \in Nat /\ queue[i].last \in Nat
           /\ \A x \in Ahead : x \in Nat
           /\ taken \in Ahead /\ \A i \in DOMAIN queue : queue[i].last \in Ahead
           /\ Given \in Handed
           /\ IsInput(Given) => Given \in Inputs
  <1>1. \A i \in DOMAIN queue : queue[i] \in Inputs /\ queue[i].first \in Nat /\ queue[i].last \in Nat
    BY InputFacts DEF Types
  <1>2. taken \in Nat /\ captured \in Nat /\ lost \in Nat
    BY Sizes DEF Types, Stamps
  <1>3. Given \in Handed
    BY DEF Types, Given, Handed
  <1>4. IsInput(Given) => Given \in Inputs
    BY <1>3, InputFacts DEF Handed
  <1> QED
    BY <1>1, <1>2, <1>3, <1>4 DEF Ahead

\* An input is published.
LEMMA PublishInput ==
    ASSUME IInv, Publish, IsInput(hand)
    PROVE  IInv'
  <1>1. Types /\ OrderInv /\ LossInv /\ NoMissedWakeup
    BY DEF IInv
  <1>2. /\ thread = "publish" /\ TryPush(hand) /\ thread' = "top" /\ hand' = OverflowEvent
        /\ UNCHANGED <<driver, registered, cancelled, running, captured, taken, crashes>>
    BY DEF Publish, IsInput
  <1>3. Given = hand /\ hand \in Inputs /\ ~FaultGiven /\ request.at = "none"
    BY <1>1, <1>2, AheadFacts DEF Given, FaultGiven, Types
  <1>4. Queued(queue, hand)
    BY <1>1, <1>3, AheadFacts DEF Queued, OrderInv, Types
  <1>5. /\ Takes(queue, queue', hand)
        /\ UNCHANGED <<overflow, lost>> \/ (overflow' /\ lost' = Lose(hand.last))
        /\ {overflow', sleeping', permit'} \subseteq BOOLEAN
        /\ (queue' # <<>> \/ overflow') /\ sleeping' => sleeping /\ (queue # <<>> \/ overflow)
    BY <1>1, <1>2, <1>4, PushTakes
  <1>6. /\ hand.first \in Nat /\ hand.last \in Nat /\ hand.last \in Stamps /\ hand.first <= hand.last
        /\ taken < hand.first /\ hand.last <= captured /\ AllFirst(ring, hand.last)
    BY <1>1, <1>3, InputFacts, AheadFacts DEF OrderInv
  <1>7. ~IsInput(Given') /\ ~FaultGiven' /\ ring' = ring
    BY <1>2, <1>3, InputFacts DEF Given, FaultGiven, driver
  <1>8. Types'
    <2>1. lost' \in Stamps
      BY <1>1, <1>5, <1>6 DEF Types, Lose
    <2>2. thread' \in Threads /\ hand' \in Handed
      BY <1>2 DEF Threads, Handed
    <2>3. queue' \in Seq(Inputs) /\ Len(queue') <= IngressCapacity
      BY <1>5 DEF Takes
    <2> QED
      BY <1>1, <1>2, <1>3, <1>5, <2>1, <2>2, <2>3 DEF Types, driver
  <1>9. \A x \in Ahead' : x = hand.last \/ x \in Ahead
    BY <1>2, <1>5 DEF Ahead, Takes
  <1>10. OrderInv'
    <2>1. InQueueOrder(queue') /\ \A i \in DOMAIN queue' : taken < queue'[i].first
      BY <1>1, <1>5, <1>6, AheadFacts DEF Takes, OrderInv
    <2>2. \A x \in Ahead' : x <= captured /\ AllFirst(ring, x)
      BY <1>1, <1>6, <1>9 DEF OrderInv
    <2> QED
      BY <1>1, <1>2, <1>7, <2>1, <2>2 DEF OrderInv
  <1>11. LossInv'
    <2>1. CASE UNCHANGED <<overflow, lost>>
      <3>1. CASE overflow \/ lost = 0
        BY <1>1, <1>2, <2>1, <3>1 DEF LossInv
      <3>2. CASE ~overflow /\ lost # 0
        <4>1. ring.latched /\ hand.last < lost /\ \A x \in Ahead : x < lost
          BY <1>1, <1>3, <3>2 DEF LossInv, IsInput
        <4>2. \A x \in Ahead' : x < lost
          BY <1>9, <4>1
        <4> QED
          BY <1>1, <1>2, <1>7, <2>1, <4>1, <4>2 DEF LossInv
      <3> QED
        BY <3>1, <3>2
    <2>2. CASE overflow' /\ lost' = Lose(hand.last)
      <3>1. lost # 0 => taken < lost
        BY <1>1 DEF LossInv
      <3>2. taken < hand.last
        BY <1>1, <1>6, AheadFacts
      <3> QED
        BY <1>2, <2>2, <3>1, <3>2 DEF LossInv, Lose
    <2> QED
      BY <1>5, <2>1, <2>2
  <1>12. NoMissedWakeup'
    BY <1>1, <1>2, <1>3, <1>5 DEF NoMissedWakeup, driver
  <1> QED
    BY <1>8, <1>10, <1>11, <1>12 DEF IInv

LEMMA PublishFault ==
    ASSUME IInv, Publish, ~IsInput(hand)
    PROVE  IInv'
  <1>1. Types /\ OrderInv /\ LossInv /\ NoMissedWakeup
    BY DEF IInv
  <1>2. /\ thread = "publish" /\ ReportFault /\ thread' = "top" /\ hand' = OverflowEvent
        /\ UNCHANGED <<driver, registered, cancelled, running, captured, taken, crashes>>
    BY DEF Publish, IsInput
  <1>3. /\ overflow' = TRUE /\ UNCHANGED <<queue, lost>> /\ ~sleeping' /\ sleeping' \in BOOLEAN /\ permit' \in BOOLEAN
        /\ request.at = "none"
    BY <1>1, <1>2 DEF ReportFault, NotifyOne, Types
  <1>4. ~IsInput(Given') /\ ring' = ring /\ Ahead' = Ahead
    BY <1>2, <1>3, InputFacts DEF Given, driver, Ahead
  <1>5. Types'
    BY <1>1, <1>2, <1>3 DEF Types, driver, Threads, Handed
  <1>6. OrderInv'
    BY <1>1, <1>2, <1>3, <1>4 DEF OrderInv
  <1>7. LossInv'
    BY <1>1, <1>2, <1>3 DEF LossInv
  <1>8. NoMissedWakeup'
    BY <1>1, <1>2, <1>3 DEF NoMissedWakeup, driver
  <1> QED
    BY <1>5, <1>6, <1>7, <1>8 DEF IInv

LEMMA ActorKeeps ==
    ASSUME IInv, ActorTakes
    PROVE  IInv'
  <1>1. Types /\ OrderInv /\ LossInv /\ NoMissedWakeup
    BY DEF IInv
  <1>2. /\ ~sleeping /\ permit' = FALSE /\ UNCHANGED <<driver, capture, captured, crashes>>
    BY DEF ActorTakes
  <1>3. /\ Given' = Given /\ (FaultGiven' <=> FaultGiven) /\ ring' = ring
        /\ UNCHANGED <<callbacks, request, thread, hand, registered, cancelled, running>>
    BY <1>2 DEF Given, FaultGiven, driver, capture
  <1>4. CASE overflow
    <2>1. overflow' = FALSE /\ lost' = 0 /\ UNCHANGED <<queue, sleeping, taken>>
      BY <1>4 DEF ActorTakes
    <2>2. Ahead' = Ahead
      BY <2>1 DEF Ahead
    <2>3. Types'
      <3>1. 0 \in Stamps
        BY Sizes DEF Stamps
      <3> QED
        BY <1>1, <1>2, <1>3, <2>1, <3>1 DEF Types
    <2>4. OrderInv' /\ LossInv' /\ NoMissedWakeup'
      BY <1>1, <1>2, <1>3, <2>1, <2>2 DEF OrderInv, LossInv, NoMissedWakeup
    <2> QED
      BY <2>3, <2>4 DEF IInv
  <1>5. CASE ~overflow /\ queue # <<>>
    <2>1. queue' = Tail(queue) /\ taken' = Head(queue).last /\ UNCHANGED <<overflow, sleeping, lost>>
      BY <1>5 DEF ActorTakes
    <2>2. /\ queue' \in Seq(Inputs) /\ Len(queue') <= IngressCapacity /\ 1 \in DOMAIN queue /\ Head(queue) = queue[1]
          /\ \A i \in DOMAIN queue' : i \in Nat /\ i + 1 \in DOMAIN queue /\ 1 < i + 1 /\ queue'[i] = queue[i + 1]
      <3>1. queue \in Seq(Inputs) /\ queue # <<>> /\ Len(queue) <= IngressCapacity
        BY <1>1, <1>5 DEF Types
      <3>2. /\ Tail(queue) \in Seq(Inputs) /\ Len(queue) \in Nat /\ Len(queue) > 0 /\ Len(Tail(queue)) = Len(queue) - 1
            /\ \A i \in 1 .. Len(queue) - 1 : Tail(queue)[i] = queue[i + 1]
        BY <3>1
      <3> QED
        BY <2>1, <3>1, <3>2, Sizes
    <2>3. taken' = queue[1].last /\ queue[1].last \in Ahead /\ queue[1].last \in Stamps /\ queue[1].last \in Nat
      BY <1>1, <2>1, <2>2, AheadFacts, InputFacts
    <2>4. Types'
      BY <1>1, <1>2, <1>3, <2>1, <2>2, <2>3 DEF Types
    <2>5. Ahead' \subseteq Ahead
      BY <2>2, <2>3 DEF Ahead
    <2>6. OrderInv'
      <3>1. InQueueOrder(queue') /\ \A i \in DOMAIN queue' : taken' < queue'[i].first
        BY <1>1, <2>2, <2>3 DEF OrderInv, InQueueOrder
      <3> QED
        BY <1>1, <1>2, <1>3, <2>5, <3>1 DEF OrderInv
    <2>7. LossInv'
      BY <1>1, <1>3, <1>5, <2>1, <2>3, <2>5 DEF LossInv
    <2>8. NoMissedWakeup'
      BY <1>1, <1>2, <1>3, <2>1 DEF NoMissedWakeup
    <2> QED
      BY <2>4, <2>6, <2>7, <2>8 DEF IInv
  <1>6. CASE ~overflow /\ queue = <<>>
    <2>1. sleeping' = ~permit /\ UNCHANGED <<queue, overflow, taken, lost>>
      BY <1>6 DEF ActorTakes
    <2>2. Still
      BY <1>2, <1>3, <2>1 DEF Still
    <2>3. Types'
      <3>1. permit \in BOOLEAN
        BY <1>1 DEF Types
      <3>2. sleeping' \in BOOLEAN /\ permit' \in BOOLEAN
        BY <1>2, <2>1, <3>1
      <3> QED
        BY <1>1, <1>2, <1>3, <2>1, <3>2 DEF Types
    <2>4. NoMissedWakeup'
      BY <1>1, <1>3, <1>6, <2>1 DEF NoMissedWakeup
    <2> QED
      BY <1>1, <2>2, <2>3, <2>4, StillKeeps DEF IInv
  <1> QED
    BY <1>4, <1>5, <1>6

LEMMA CrashKeeps ==
    ASSUME IInv, Crash
    PROVE  IInv'
  <1>1. Types /\ OrderInv /\ LossInv /\ NoMissedWakeup
    BY DEF IInv
  <1>2. /\ crashes < CrashMax /\ crashes' = crashes + 1 /\ request' = NoRequest
        /\ thread' = "top" /\ hand' = OverflowEvent
        /\ registered' = FALSE /\ cancelled' = FALSE /\ running' = TRUE
        /\ queue' = <<>> /\ overflow' = FALSE /\ sleeping' = FALSE /\ permit' = FALSE
        /\ lost' = IF ring.latched THEN lost ELSE 0
        /\ UNCHANGED <<ring, callbacks, captured, taken>>
    BY DEF Crash
  <1>3. ~IsInput(Given') /\ Ahead' = {taken} /\ request'.at = "none"
    BY <1>2, InputFacts DEF Given, Ahead, NoRequest
  <1>4. Types'
    <2>1. request' \in [at : Places, event : Handed] /\ thread' \in Threads /\ hand' \in Handed
      BY <1>2 DEF NoRequest, Places, Handed, Threads
    <2>2. crashes' \in 0 .. CrashMax /\ lost' \in Stamps
      BY <1>1, <1>2, Sizes DEF Types, Stamps
    <2>3. queue' \in Seq(Inputs) /\ Len(queue') <= IngressCapacity
      BY <1>2, Sizes
    <2> QED
      BY <1>1, <1>2, <1>3, <2>1, <2>2, <2>3 DEF Types
  <1>5. OrderInv'
    BY <1>1, <1>2, <1>3, AheadFacts DEF OrderInv, InQueueOrder
  <1>6. LossInv'
    BY <1>1, <1>2, <1>3 DEF LossInv
  <1>7. NoMissedWakeup'
    BY <1>2, <1>3 DEF NoMissedWakeup
  <1> QED
    BY <1>4, <1>5, <1>6, <1>7 DEF IInv

\* A request that finds an event takes it.
LEMMA Satisfied ==
    ASSUME Types, Satisfy, thread \in {"recheck", "pended", "waiting"} \/ request.at = "none"
    PROVE  \/ UNCHANGED <<request, ring>> /\ ~(request.at = "queued" /\ HasEvent(ring))
           \/ /\ request.at = "queued" /\ HasEvent(ring)
              /\ request'.at = "done" /\ request'.event = Pop(ring).event /\ ring' = Pop(ring).ring
              /\ request' \in [at : Places, event : Handed] /\ RingOK(ring')
  <1>1. CASE request.at = "queued" /\ HasEvent(ring)
    <2>1. request' = [at |-> "done", event |-> Pop(ring).event] /\ ring' = Pop(ring).ring
      BY <1>1 DEF Satisfy
    <2>2. RingOK(Pop(ring).ring) /\ Pop(ring).event \in Handed
      <3>1. RingOK(ring) /\ ring.latched \in BOOLEAN
        BY Shape DEF Types
      <3> QED
        BY <1>1, <3>1, RingPops DEF Handed
    <2> QED
      BY <1>1, <2>1, <2>2 DEF Places
  <1>2. CASE ~(request.at = "queued" /\ HasEvent(ring))
    BY <1>2 DEF Satisfy
  <1> QED
    BY <1>1, <1>2

\* Steps that do not change what is on the path, or only take from the ring.
Moves == Types' /\ NoMissedWakeup' /\ (Still \/ Pops)

LEMMA CallbackMoves ==
    ASSUME IInv, CallbackSatisfies
    PROVE  Moves
  <1>1. Types /\ NoMissedWakeup
    BY DEF IInv
  <1>2. /\ callbacks > 0 /\ callbacks' = callbacks - 1 /\ Satisfy
        /\ UNCHANGED <<thread, hand, registered, cancelled, running, queue, overflow, sleeping, permit>>
        /\ UNCHANGED <<captured, taken, lost, crashes>>
    BY DEF CallbackSatisfies, capture, ingress, history
  <1>3. callbacks' \in 0 .. CallbackMax
    BY <1>1, <1>2, Sizes DEF Types
  <1>4. thread \in {"recheck", "pended", "waiting"} \/ request.at = "none"
    BY <1>1 DEF Types
  <1>5. CASE UNCHANGED <<request, ring>> /\ ~(request.at = "queued" /\ HasEvent(ring))
    BY <1>1, <1>2, <1>3, <1>5 DEF Moves, Types, NoMissedWakeup, Still, Given, FaultGiven
  <1>6. CASE /\ request.at = "queued" /\ HasEvent(ring)
             /\ request'.at = "done" /\ request'.event = Pop(ring).event /\ ring' = Pop(ring).ring
             /\ request' \in [at : Places, event : Handed] /\ RingOK(ring')
    <2>1. thread # "publish" /\ thread' = thread /\ ~IsInput(OverflowEvent)
      BY <1>1, <1>2, <1>6, InputFacts DEF Types
    <2>2. Pops
      BY <1>2, <1>6, <2>1 DEF Pops, Given, FaultGiven
    <2> QED
      BY <1>1, <1>2, <1>3, <1>6, <2>1, <2>2 DEF Moves, Types, NoMissedWakeup
  <1> QED
    BY <1>1, <1>2, <1>4, <1>5, <1>6, Satisfied

LEMMA RecheckMoves ==
    ASSUME IInv, Recheck
    PROVE  Moves
  <1>1. Types /\ NoMissedWakeup
    BY DEF IInv
  <1>2. /\ thread = "recheck" /\ Satisfy /\ thread' = "pended"
        /\ UNCHANGED <<callbacks, hand, registered, cancelled, running, queue, overflow, sleeping, permit>>
        /\ UNCHANGED <<captured, taken, lost, crashes>>
    BY DEF Recheck, ingress, history
  <1>3. thread' \in Threads
    BY <1>2 DEF Threads
  <1>4. CASE UNCHANGED <<request, ring>> /\ ~(request.at = "queued" /\ HasEvent(ring))
    BY <1>1, <1>2, <1>3, <1>4 DEF Moves, Types, NoMissedWakeup, Still, Given, FaultGiven
  <1>5. CASE /\ request.at = "queued" /\ HasEvent(ring)
             /\ request'.at = "done" /\ request'.event = Pop(ring).event /\ ring' = Pop(ring).ring
             /\ request' \in [at : Places, event : Handed] /\ RingOK(ring')
    <2>1. Pops
      BY <1>2, <1>5, InputFacts DEF Pops, Given, FaultGiven
    <2> QED
      BY <1>1, <1>2, <1>3, <1>5, <2>1 DEF Moves, Types, NoMissedWakeup
  <1> QED
    BY <1>1, <1>2, <1>4, <1>5, Satisfied

LEMMA SubmitMoves ==
    ASSUME IInv, Submit
    PROVE  Moves
  <1>1. Types /\ NoMissedWakeup
    BY DEF IInv
  <1>2. /\ thread = "submit" /\ request.at = "none"
        /\ UNCHANGED <<callbacks, request, cancelled, running, queue, overflow, sleeping, permit>>
        /\ UNCHANGED <<captured, taken, lost, crashes>>
    BY <1>1 DEF Submit, ingress, history, Types
  <1>3. CASE HasEvent(ring)
    <2>1. hand' = Pop(ring).event /\ ring' = Pop(ring).ring /\ thread' = "publish" /\ registered' = FALSE
      BY <1>3 DEF Submit
    <2>2. RingOK(ring') /\ hand' \in Handed
      <3>1. RingOK(ring) /\ ring.latched \in BOOLEAN
        BY <1>1, Shape DEF Types
      <3> QED
        BY <1>3, <2>1, <3>1, RingPops DEF Handed
    <2>3. Pops
      BY <1>2, <1>3, <2>1, InputFacts DEF Pops, Given, FaultGiven
    <2>4. Types'
      BY <1>1, <1>2, <2>1, <2>2 DEF Types, Threads
    <2> QED
      BY <1>1, <1>2, <2>3, <2>4 DEF Moves, NoMissedWakeup
  <1>4. CASE ~HasEvent(ring)
    <2>1. thread' = "forward" /\ UNCHANGED <<hand, ring, registered>>
      BY <1>4 DEF Submit
    <2>2. Types'
      BY <1>1, <1>2, <2>1 DEF Types, Threads
    <2> QED
      BY <1>1, <1>2, <2>1, <2>2 DEF Moves, NoMissedWakeup, Still, Given, FaultGiven
  <1> QED
    BY <1>3, <1>4

\* Steps of the thread and of the daemon that leave the ring alone.
LEMMA QuietMoves ==
    ASSUME IInv, LoopTop \/ Register \/ Forward \/ CheckCancelled \/ Woken \/ WaitFails
                 \/ ActorInterrupted \/ StopFlag \/ StopCancel
    PROVE  Moves
  <1>1. Types /\ NoMissedWakeup
    BY DEF IInv
  <1>2. /\ {registered, cancelled, running, overflow, sleeping, permit} \subseteq BOOLEAN
        /\ request \in [at : Places, event : Handed] /\ ~IsInput(OverflowEvent)
        /\ NoRequest \in [at : Places, event : Handed] /\ NoRequest.at = "none"
        /\ [NoRequest EXCEPT !.at = "queued"] \in [at : Places, event : Handed]
        /\ [NoRequest EXCEPT !.at = "cancelled"] \in [at : Places, event : Handed]
        /\ [NoRequest EXCEPT !.at = "queued"].at = "queued"
        /\ [NoRequest EXCEPT !.at = "cancelled"].at = "cancelled"
    BY <1>1, InputFacts DEF Types, NoRequest, Places, Handed
  <1>3. CASE LoopTop
    BY <1>1, <1>3 DEF LoopTop, driver, ingress, history, Moves, Types, Threads, NoMissedWakeup, Still, Given, FaultGiven
  <1>4. CASE Register
    <2>1. registered' \in BOOLEAN
      BY <1>2, <1>4 DEF Register
    <2> QED
      BY <1>1, <1>4, <2>1 DEF Register, driver, ingress, history, Moves, Types, Threads, NoMissedWakeup, Still, Given, FaultGiven
  <1>5. CASE Forward
    <2>1. /\ thread = "forward" /\ thread' = "recheck" /\ request.at = "none" /\ request'.at = "queued"
          /\ request' \in [at : Places, event : Handed]
          /\ UNCHANGED <<ring, callbacks, hand, registered, cancelled, running, queue, overflow, sleeping, permit>>
          /\ UNCHANGED <<captured, taken, lost, crashes>>
      BY <1>1, <1>2, <1>5 DEF Forward, ingress, history, Types
    <2> QED
      BY <1>1, <2>1 DEF Moves, Types, Threads, NoMissedWakeup, Still, Given, FaultGiven
  <1>6. CASE CheckCancelled
    <2>1. /\ thread = "pended" /\ thread' = "waiting"
          /\ UNCHANGED <<ring, callbacks, hand, registered, cancelled, running, queue, overflow, sleeping, permit>>
          /\ UNCHANGED <<captured, taken, lost, crashes>>
          /\ request' = request \/ (request.at = "queued" /\ request' = [NoRequest EXCEPT !.at = "cancelled"])
      BY <1>6 DEF CheckCancelled, CancelRequest, ingress, history
    <2>2. /\ request' \in [at : Places, event : Handed]
          /\ request' = request \/ (request.at = "queued" /\ request'.at = "cancelled")
      BY <1>2, <2>1
    <2> QED
      BY <1>1, <2>1, <2>2 DEF Moves, Types, Threads, NoMissedWakeup, Still, Given, FaultGiven
  <1>7. CASE Woken
    <2>1. /\ thread = "waiting" /\ request.at \in {"done", "cancelled"}
          /\ thread' = (IF request.at = "done" THEN "publish" ELSE "ended")
          /\ hand' = request.event /\ request' = NoRequest /\ registered' = FALSE
          /\ UNCHANGED <<ring, callbacks, cancelled, running, queue, overflow, sleeping, permit>>
          /\ UNCHANGED <<captured, taken, lost, crashes>>
      BY <1>7 DEF Woken, ingress, history
    <2>2. hand' \in Handed /\ thread' \in Threads
      BY <1>2, <2>1 DEF Threads
    <2>3. Types'
      BY <1>1, <1>2, <2>1, <2>2 DEF Types
    <2>4. Still
      BY <1>2, <2>1 DEF Still, Given, FaultGiven
    <2> QED
      BY <1>1, <1>2, <2>1, <2>3, <2>4 DEF Moves, NoMissedWakeup
  <1>8. CASE WaitFails
    <2>1. /\ thread = "forward" \/ (thread = "waiting" /\ request.at = "queued")
          /\ thread' = "ended" /\ request' = NoRequest /\ registered' = FALSE
          /\ UNCHANGED <<ring, callbacks, hand, cancelled, running, queue, overflow, sleeping, permit>>
          /\ UNCHANGED <<captured, taken, lost, crashes>>
      BY <1>8 DEF WaitFails, ingress, history
    <2>2. request.at # "done"
      BY <1>1, <2>1 DEF Types
    <2>3. Types'
      BY <1>1, <1>2, <2>1 DEF Types, Threads
    <2>4. Still
      BY <1>2, <2>1, <2>2 DEF Still, Given, FaultGiven
    <2> QED
      BY <1>1, <1>2, <2>1, <2>3, <2>4 DEF Moves, NoMissedWakeup
  <1>9. CASE ActorInterrupted
    BY <1>1, <1>9 DEF ActorInterrupted, driver, capture, history, Moves, Types, NoMissedWakeup, Still, Given, FaultGiven
  <1>10. CASE StopFlag
    BY <1>1, <1>10 DEF StopFlag, driver, ingress, history, Moves, Types, NoMissedWakeup, Still, Given, FaultGiven
  <1>11. CASE StopCancel
    <2>1. /\ cancelled' = TRUE
          /\ UNCHANGED <<ring, callbacks, thread, hand, registered, running, queue, overflow, sleeping, permit>>
          /\ UNCHANGED <<captured, taken, lost, crashes>>
          /\ request' = request \/ (request.at = "queued" /\ request' = [NoRequest EXCEPT !.at = "cancelled"])
      BY <1>11 DEF StopCancel, CancelRequest, ingress, history
    <2>2. /\ request' \in [at : Places, event : Handed]
          /\ request' = request \/ (request.at = "queued" /\ request'.at = "cancelled")
      BY <1>2, <2>1
    <2> QED
      BY <1>1, <2>1, <2>2 DEF Moves, Types, NoMissedWakeup, Still, Given, FaultGiven
  <1> QED
    BY <1>3, <1>4, <1>5, <1>6, <1>7, <1>8, <1>9, <1>10, <1>11

LEMMA StepInv ==
    ASSUME IInv, [Next]_vars
    PROVE  IInv'
  <1>1. ASSUME Moves PROVE IInv'
    <2>1. Types /\ OrderInv /\ LossInv
      BY DEF IInv
    <2>2. OrderInv' /\ LossInv'
      BY <1>1, <2>1, StillKeeps, PopsKeep DEF Moves
    <2> QED
      BY <1>1, <2>2 DEF Moves, IInv
  <1>2. ASSUME NEW class \in Classes, Capture(class) PROVE IInv'
    BY <1>2, CaptureKeeps
  <1>3. CASE CallbackSatisfies
    BY <1>1, <1>3, CallbackMoves
  <1>4. CASE ThreadStep
    <2>1. CASE Publish
      BY <2>1, PublishInput, PublishFault
    <2> QED
      BY <1>1, <1>4, <2>1, QuietMoves, SubmitMoves, RecheckMoves DEF ThreadStep
  <1>5. CASE WaitFails \/ StopFlag \/ StopCancel
    BY <1>1, <1>5, QuietMoves
  <1>6. CASE Actor
    BY <1>1, <1>6, QuietMoves, ActorKeeps DEF Actor
  <1>7. CASE Crash
    BY <1>7, CrashKeeps
  <1>8. CASE UNCHANGED vars
    <2>1. UNCHANGED <<ring, callbacks, request, thread, hand, registered, cancelled, running>>
          /\ UNCHANGED <<queue, overflow, sleeping, permit, captured, taken, lost, crashes>>
      BY <1>8 DEF vars, driver, capture, ingress, history
    <2>2. Moves
      BY <2>1 DEF Moves, IInv, Types, NoMissedWakeup, Still, Given, FaultGiven
    <2> QED
      BY <1>1, <2>2
  <1> QED
    BY <1>2, <1>3, <1>4, <1>5, <1>6, <1>7, <1>8 DEF Next

-----------------------------------------------------------------------------
(* The results.                                                            *)

(* The invariant of the whole path: the driver's ring, the one request,    *)
(* the thread's hand and the ingress hold one row of events in the order   *)
(* of their capture, and the fault for a loss has its place in that row.   *)
THEOREM PathInvariant == Spec => []IInv
  <1>1. Init => IInv
    BY InitInv
  <1>2. IInv /\ [Next]_vars => IInv'
    BY StepInv
  <1> QED
    BY <1>1, <1>2, PTL DEF Spec

(* A lost press or release is announced before anything captured later     *)
(* (reliable_overflow_latched, the driver's OverflowPending).              *)
THEOREM LossIsAnnounced == Spec => []LossAnnounced
  <1>1. IInv => LossAnnounced
    BY DEF IInv, LossInv, LossAnnounced, FaultGiven
  <1> QED
    BY <1>1, PathInvariant, PTL

(* A request that waits in the driver and an actor that sleeps are not     *)
(* forgotten (the second look of IOCTL_RSHARE_WAIT_EVENT, notify_one).     *)
THEOREM NothingSleepsOn == Spec => []NoMissedWakeup
  <1>1. IInv => NoMissedWakeup
    BY DEF IInv
  <1> QED
    BY <1>1, PathInvariant, PTL


(* The row, place by place: the ingress, the event between, the ring.      *)
LEMMA FrontPlaces ==
    ASSUME Types, NEW front, front = queue \o Hand \o Completed
    PROVE  \E m \in {0, 1} :
              /\ front \in Seq(Handed) /\ Len(front) = Len(queue) + m
              /\ \A k \in 1 .. Len(queue) : front[k] = queue[k]
              /\ m = 1 => front[Len(queue) + 1] = Given
  <1>1. /\ queue \in Seq(Handed) /\ Len(queue) \in Nat
        /\ hand \in Handed /\ request.event \in Handed
    <2>1. \A i \in DOMAIN queue : queue[i] \in Handed
      BY DEF Types, Handed
    <2>2. queue \in Seq(Inputs) /\ Len(queue) \in Nat
      BY DEF Types
    <2>3. queue \in Seq(Handed)
      BY <2>1, <2>2
    <2> QED
      BY <2>2, <2>3 DEF Types
  <1>2. \A s \in Seq(Handed) : s \o <<>> = s
    OBVIOUS
  <1>3. ASSUME NEW e \in Handed
        PROVE  /\ queue \o <<e>> \in Seq(Handed) /\ Len(queue \o <<e>>) = Len(queue) + 1
               /\ \A k \in 1 .. Len(queue) : (queue \o <<e>>)[k] = queue[k]
               /\ (queue \o <<e>>)[Len(queue) + 1] = e
    BY <1>1
  <1>4. CASE thread = "publish"
    <2>1. Hand = <<hand>> /\ Completed = <<>> /\ Given = hand
      BY <1>4 DEF Hand, Completed, Given, Types
    <2>2. front = queue \o <<hand>>
      BY <1>1, <1>2, <1>3, <2>1
    <2> QED
      BY <1>1, <1>3, <2>1, <2>2
  <1>5. CASE thread # "publish" /\ request.at = "done"
    <2>1. Hand = <<>> /\ Completed = <<request.event>> /\ Given = request.event
      BY <1>5 DEF Hand, Completed, Given
    <2>2. front = queue \o <<request.event>>
      BY <1>1, <1>2, <2>1
    <2> QED
      BY <1>1, <1>3, <2>1, <2>2
  <1>6. CASE thread # "publish" /\ request.at # "done"
    <2>1. Hand = <<>> /\ Completed = <<>>
      BY <1>6 DEF Hand, Completed
    <2>2. front = queue
      BY <1>1, <1>2, <2>1
    <2> QED
      BY <1>1, <2>2
  <1> QED
    BY <1>4, <1>5, <1>6

LEMMA InOrder ==
    ASSUME Types, OrderInv
    PROVE  /\ \A i \in DOMAIN Path : IsInput(Path[i]) => taken < Path[i].first
           /\ \A i, j \in DOMAIN Path :
                 i < j /\ IsInput(Path[i]) /\ IsInput(Path[j]) => Path[i].last < Path[j].first
  <1> DEFINE front == queue \o Hand \o Completed
             back == Contents(ring)
             n == Len(queue)
             f == Len(front)
  <1>1. PICK m \in {0, 1} : /\ front \in Seq(Handed) /\ f = n + m
                            /\ \A k \in 1 .. n : front[k] = queue[k]
                            /\ m = 1 => front[n + 1] = Given
    BY FrontPlaces
  <1>2. n \in Nat /\ ring.count \in Nat /\ DOMAIN queue = 1 .. n
    BY Shape DEF Types
  <1>3. back \in Seq(Inputs) /\ Len(back) = ring.count /\ \A k \in 1 .. ring.count : back[k] = At(ring, k - 1)
    <2>1. \A k \in 1 .. ring.count : k - 1 \in 0 .. ring.count - 1
      BY <1>2
    <2>2. \A k \in 1 .. ring.count : ring.slots[Physical(ring, k - 1)] \in Inputs
      BY <2>1, Shape DEF Types, At
    <2>3. back \in [1 .. ring.count -> Inputs]
      BY <2>2 DEF Contents
    <2>4. \A k \in 1 .. ring.count : back[k] = At(ring, k - 1)
      BY DEF Contents, At
    <2> HIDE DEF back
    <2> QED
      BY <1>2, <2>3, <2>4, SeqOf
  <1>4. Path = front \o back
    BY DEF Path
  <1> HIDE DEF front, back
  <1>5. /\ DOMAIN Path = 1 .. f + ring.count
        /\ \A k \in 1 .. f : Path[k] = front[k]
        /\ \A k \in f + 1 .. f + ring.count : Path[k] = back[k - f] /\ k - f \in 1 .. ring.count
    BY <1>1, <1>2, <1>3, <1>4, SMTT(60), ZenonT(60)
  <1> HIDE DEF n, f
  \* Where an input of the row is.
  <1> DEFINE InQueue(k) == k \in DOMAIN queue /\ Path[k] = queue[k]
             Between(k) == k = n + 1 /\ Path[k] = Given
             InRing(k) == k - f - 1 \in 0 .. ring.count - 1 /\ Path[k] = At(ring, k - f - 1)
  <1>6. \A k \in DOMAIN Path : /\ k \in Nat
                               /\ \/ k <= n /\ InQueue(k)
                                  \/ k = n + 1 /\ k <= f /\ Between(k)
                                  \/ k > f /\ InRing(k)
    <2> SUFFICES ASSUME NEW k \in DOMAIN Path
                 PROVE  k \in Nat /\ ((k <= n /\ InQueue(k)) \/ (k = n + 1 /\ k <= f /\ Between(k)) \/ (k > f /\ InRing(k)))
      OBVIOUS
    <2>1. k \in 1 .. f + ring.count /\ f \in Nat
      BY <1>1, <1>2, <1>5
    <2>2. CASE k <= n
      BY <1>1, <1>2, <1>5, <2>1, <2>2
    <2>3. CASE k > n /\ k <= f
      BY <1>1, <1>2, <1>5, <2>1, <2>3
    <2>4. CASE k > f
      <3>1. k \in f + 1 .. f + ring.count
        BY <1>2, <2>1, <2>4
      <3>2. Path[k] = back[k - f] /\ k - f \in 1 .. ring.count
        BY <1>5, <3>1
      <3>3. back[k - f] = At(ring, (k - f) - 1) /\ (k - f) - 1 = k - f - 1 /\ k - f - 1 \in 0 .. ring.count - 1
        BY <1>2, <1>3, <2>1, <3>2
      <3> QED
        BY <2>1, <2>4, <3>2, <3>3
    <2> QED
      BY <1>2, <2>1, <2>2, <2>3, <2>4
  <1>7. f \in Nat /\ n <= f /\ f <= n + 1
    BY <1>1, <1>2
  <1> HIDE DEF InQueue, Between, InRing
  <1>8. \A k : /\ InQueue(k) => taken < Path[k].first /\ Path[k].last \in Ahead
               /\ Between(k) /\ IsInput(Path[k]) => \A x \in Ahead : x < Path[k].first
               /\ InRing(k) => \A x : AllFirst(ring, x) => x < Path[k].first
    BY AheadFacts DEF OrderInv, InQueue, Between, InRing, AllFirst
  <1>9. taken \in Ahead /\ \A x \in Ahead : AllFirst(ring, x)
    BY AheadFacts DEF OrderInv
  <1>10. ASSUME NEW i \in DOMAIN Path, IsInput(Path[i])
         PROVE  taken < Path[i].first
    BY <1>6, <1>8, <1>9, <1>10
  <1>11. ASSUME NEW i \in DOMAIN Path, NEW j \in DOMAIN Path, i < j, IsInput(Path[i]), IsInput(Path[j])
         PROVE  Path[i].last < Path[j].first
    <2>1. CASE InQueue(i)
      <3>1. CASE InQueue(j)
        BY <1>11, <2>1, <3>1 DEF InQueue, OrderInv, InQueueOrder
      <3>2. CASE Between(j) \/ InRing(j)
        BY <1>8, <1>9, <1>11, <2>1, <3>2
      <3> QED
        BY <1>6, <3>1, <3>2
    <2>2. CASE i = n + 1 /\ Between(i)
      <3>1. j > f /\ InRing(j)
        BY <1>2, <1>6, <1>7, <1>11, <2>2
      <3>2. AllFirst(ring, Path[i].last)
        BY <1>11, <2>2 DEF Between, OrderInv
      <3> QED
        BY <1>8, <3>1, <3>2
    <2>3. CASE i > f /\ InRing(i)
      <3>1. j > f /\ InRing(j)
        BY <1>2, <1>6, <1>7, <1>11, <2>3
      <3>2. i - f - 1 < j - f - 1
        BY <1>6, <1>7, <1>11
      <3> QED
        BY <2>3, <3>1, <3>2 DEF InRing, OrderInv, InRingOrder
    <2> QED
      BY <1>6, <2>1, <2>2, <2>3
  <1> QED
    BY <1>10, <1>11

LEMMA TypesHold == Types => CaptureTypeOK
  <1> SUFFICES ASSUME Types PROVE CaptureTypeOK
    OBVIOUS
  <1>1. /\ ring.slots \in [0 .. RingCapacity - 1 -> Events] /\ ring.count \in 0 .. RingCapacity
        /\ ring.tail \in 0 .. RingCapacity - 1 /\ ring.head = Physical(ring, ring.count) /\ ring.latched \in BOOLEAN
    BY Shape DEF Types, RingOK
  <1>2. Handed \subseteq Events
    BY InputFacts DEF Handed
  <1>3. queue \in Seq(Events)
    <2>1. \A i \in DOMAIN queue : queue[i] \in Events
      BY InputFacts DEF Types
    <2>2. queue \in Seq(Inputs)
      BY DEF Types
    <2> QED
      BY <2>1, <2>2
  <1>4. request \in [at : Places, event : Events] /\ hand \in Events
    BY <1>2 DEF Types
  <1> QED
    BY <1>1, <1>3, <1>4 DEF Types, CaptureTypeOK, Threads

(* Nothing overtakes between the hardware and the actor, though the driver *)
(* and the ingress coalesce, evict and drop (RShareEventQueuePush,         *)
(* try_push).                                                              *)
THEOREM InputStaysInOrder == Spec => []InCaptureOrder
  <1>1. IInv => InCaptureOrder
    BY InOrder, TypesHold DEF IInv, InCaptureOrder
  <1> QED
    BY <1>1, PathInvariant, PTL
=============================================================================
