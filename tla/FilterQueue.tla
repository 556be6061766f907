---------------------------- MODULE FilterQueue ----------------------------
(***************************************************************************)
(* The ring of captured events in the Windows filter driver,               *)
(* drivers/windows/rshare-filter/event_queue.c, slot by slot as the code   *)
(* keeps it: motion coalesces with the newest event, gives its place to a  *)
(* discrete event when the ring is full, and a discrete event that finds   *)
(* no place is lost and latches an overflow.                               *)
(*                                                                         *)
(* An event is known by its class and by the interval of captures it       *)
(* stands for: the n-th capture is stamped n, and a sum of relative        *)
(* motions carries the stamps of the first and of the last of them.        *)
(***************************************************************************)
EXTENDS Integers, Sequences

CONSTANTS Motions,       \* kinds of motion: device, flags and source together
          Replacing,     \* those of them that are absolute positions
          RingCapacity   \* RSHARE_EVENT_QUEUE_CAPACITY

ASSUME QueueAssumption ==
    Replacing \subseteq Motions /\ "discrete" \notin Motions /\ "overflow" \notin Motions
    /\ RingCapacity \in Nat \ {0}

Event(class, stamp) == [class |-> class, first |-> stamp, last |-> stamp]
OverflowEvent == Event("overflow", 0)
IsMotion(e) == e.class \in Motions

(* RShareCanCoalesce, and what the two branches after it make of the older *)
(* event: a position is replaced, a relative motion is added to.           *)
CanCoalesce(previous, e) == IsMotion(previous) /\ previous.class = e.class
Coalesced(previous, e) ==
    IF e.class \in Replacing THEN e ELSE [previous EXCEPT !.last = e.last]

EmptyRing == [slots |-> [p \in 0 .. RingCapacity - 1 |-> OverflowEvent],
              head |-> 0, tail |-> 0, count |-> 0, latched |-> FALSE]

Physical(r, i) == (r.tail + i) % RingCapacity
Newest(r) == (r.head + RingCapacity - 1) % RingCapacity
Contents(r) == [i \in 1 .. r.count |-> r.slots[Physical(r, i - 1)]]
MotionAt(r) == {i \in 0 .. r.count - 1 : IsMotion(r.slots[Physical(r, i)])}

(* The inner loop of RShareDropOldestRealtime: what is behind moves up.    *)
RemoveAt(r, i) ==
    [r EXCEPT !.slots = [p \in DOMAIN @ |->
                            IF \E j \in i .. r.count - 2 : Physical(r, j) = p
                                THEN r.slots[(p + 1) % RingCapacity] ELSE @[p]],
              !.count = @ - 1,
              !.head = Physical(r, r.count - 1)]

Append1(r, e) == [r EXCEPT !.slots[r.head] = e,
                           !.head = (@ + 1) % RingCapacity,
                           !.count = @ + 1]

Pushed(r, lost) == [ring |-> r, lost |-> lost]

(* RShareEventQueuePush, and whether a discrete event was lost.            *)
Push(r, e) ==
    IF r.count > 0 /\ CanCoalesce(r.slots[Newest(r)], e) THEN
        Pushed([r EXCEPT !.slots[Newest(r)] = Coalesced(@, e)], FALSE)
    ELSE IF r.count < RingCapacity THEN
        Pushed(Append1(r, e), FALSE)
    ELSE IF IsMotion(e) THEN
        Pushed(r, FALSE)
    ELSE IF MotionAt(r) = {} THEN
        Pushed([r EXCEPT !.latched = TRUE], TRUE)
    ELSE
        Pushed(Append1(RemoveAt(r, CHOOSE i \in MotionAt(r) :
                                       \A j \in MotionAt(r) : i <= j), e), FALSE)

\* Mutant: the latched overflow waits for the events before it.
PopOverflowLast(r) ==
    IF r.count > 0 THEN
        [ring |-> [r EXCEPT !.tail = (@ + 1) % RingCapacity, !.count = @ - 1],
         event |-> r.slots[r.tail]]
    ELSE
        [ring |-> [r EXCEPT !.latched = FALSE], event |-> OverflowEvent]

(* RShareEventQueuePop, of a ring that has something to give.              *)
HasEvent(r) == r.latched \/ r.count > 0
Pop(r) ==
    IF r.latched THEN
        [ring |-> [r EXCEPT !.latched = FALSE], event |-> OverflowEvent]
    ELSE
        [ring |-> [r EXCEPT !.tail = (@ + 1) % RingCapacity, !.count = @ - 1],
         event |-> r.slots[r.tail]]
=============================================================================
