---------------------------- MODULE CapturePath ----------------------------
(***************************************************************************)
(* Captured input on its way from the Windows filter driver to the input   *)
(* actor: the driver's ring and its one pending wait request (driver.c),   *)
(* the capture thread that waits for an event at a time and can be         *)
(* cancelled (windows.rs, main.rs), and the semantic ingress, the bounded  *)
(* queue that the actor takes from (crates/rshare-input/src/ingress.rs).   *)
(*                                                                         *)
(* Four parties run at once: the driver's callbacks, the capture thread    *)
(* (also while it is inside the driver), the daemon that stops it, and the *)
(* actor.  A step is what one of them does under one lock.                 *)
(***************************************************************************)
EXTENDS FilterQueue

CONSTANTS IngressCapacity,  \* capacity of the ingress queue
          CaptureMax,       \* bound: captures
          CallbackMax,      \* bound: callbacks that have pushed and not yet looked for a waiter
          CrashMax          \* bound: deaths of the daemon

ASSUME PathAssumption == {IngressCapacity, CaptureMax, CallbackMax} \subseteq Nat \ {0}
                         /\ CrashMax \in Nat

VARIABLES
    ring,       \* EventQueue of the control device
    callbacks,  \* callbacks between RShareEventQueuePush and RShareSatisfyPendingWaiter
    request,    \* the wait request: where it is, and the event it was completed with
    thread,     \* where the capture thread is
    hand,       \* the event it has been given
    registered, \* WaitRegistrationState: its request may be cancelled
    cancelled,  \* WaitRegistrationState: cancelled
    running,    \* the flag of WindowsDriverCapture
    queue, overflow,    \* IngressState: queue, reliable_overflow_latched
    sleeping, permit,   \* ready: the actor awaits it; a notification is stored
    captured,   \* stamps given out
    taken,      \* history: the last stamp the actor took
    lost,       \* history: the first stamp lost since its last fault, 0 if none
    crashes

driver == <<ring, callbacks, request>>
capture == <<thread, hand, registered, cancelled, running>>
ingress == <<queue, overflow, sleeping, permit>>
history == <<captured, taken, lost, crashes>>
vars == <<driver, capture, ingress, history>>

Places == {"none", "queued", "done", "cancelled"}
NoRequest == [at |-> "none", event |-> OverflowEvent]
Classes == Motions \cup {"discrete"}
Stamps == 0 .. CaptureMax
Events == [class : Classes \cup {"overflow"}, first : Stamps, last : Stamps]

(* The ring's indices agree with its count; everything is within bounds.   *)
CaptureTypeOK ==
    /\ ring.slots \in [0 .. RingCapacity - 1 -> Events]
    /\ ring.count \in 0 .. RingCapacity /\ ring.tail \in 0 .. RingCapacity - 1
    /\ ring.head = Physical(ring, ring.count) /\ ring.latched \in BOOLEAN
    /\ callbacks \in 0 .. CallbackMax
    /\ request \in [at : Places, event : Events]
    /\ thread \in {"top", "register", "submit", "forward", "recheck", "pended",
                   "waiting", "publish", "ended"}
    /\ hand \in Events
    /\ {registered, cancelled, running, overflow, sleeping, permit} \subseteq BOOLEAN
    /\ queue \in Seq(Events) /\ Len(queue) <= IngressCapacity
    /\ {captured, taken, lost} \subseteq Stamps /\ crashes \in 0 .. CrashMax

Init ==
    /\ ring = EmptyRing /\ callbacks = 0 /\ request = NoRequest
    /\ thread = "top" /\ hand = OverflowEvent
    /\ registered = FALSE /\ cancelled = FALSE /\ running = TRUE
    /\ queue = <<>> /\ overflow = FALSE /\ sleeping = FALSE /\ permit = FALSE
    /\ captured = 0 /\ taken = 0 /\ lost = 0 /\ crashes = 0

Lose(stamp) == IF lost = 0 THEN stamp ELSE lost

-----------------------------------------------------------------------------
(* The driver.                                                             *)

(* A callback captures an event: RShareQueueEvent up to its last call.     *)
Capture(class) ==
    LET stamp == captured + 1
        pushed == Push(ring, Event(class, stamp)) IN
    /\ captured < CaptureMax /\ callbacks < CallbackMax
    /\ captured' = stamp
    /\ ring' = pushed.ring
    /\ lost' = IF pushed.lost THEN Lose(stamp) ELSE lost
    /\ callbacks' = callbacks + 1
    /\ UNCHANGED <<request, capture, ingress, taken, crashes>>

(* RShareSatisfyPendingWaiter: a request in the queue takes an event; one  *)
(* that finds none goes back to the queue.                                 *)
Satisfy ==
    IF request.at = "queued" /\ HasEvent(ring)
    THEN /\ request' = [at |-> "done", event |-> Pop(ring).event]
         /\ ring' = Pop(ring).ring
    ELSE UNCHANGED <<request, ring>>

CallbackSatisfies ==
    /\ callbacks > 0
    /\ callbacks' = callbacks - 1
    /\ Satisfy
    /\ UNCHANGED <<capture, ingress, history>>

(* CancelIoEx: only a request in the manual queue can be cancelled, and    *)
(* RShareFilterEvtIoCanceledOnQueue completes it.                          *)
CancelRequest ==
    request' = IF request.at = "queued" THEN [NoRequest EXCEPT !.at = "cancelled"]
                                        ELSE request

-----------------------------------------------------------------------------
(* The capture thread.                                                     *)

(* The loop's condition.                                                   *)
LoopTop ==
    /\ thread = "top"
    /\ thread' = IF running THEN "register" ELSE "ended"
    /\ UNCHANGED <<driver, hand, registered, cancelled, running, ingress, history>>

(* wait_event: WaitRegistrationState::register.                            *)
Register ==
    /\ thread = "register"
    /\ thread' = IF cancelled THEN "ended" ELSE "submit"
    /\ registered' = ~cancelled
    /\ UNCHANGED <<driver, hand, cancelled, running, ingress, history>>

(* IOCTL_RSHARE_WAIT_EVENT, its first look at the ring: an event completes *)
(* the call at once.                                                       *)
Submit ==
    /\ thread = "submit"
    /\ IF HasEvent(ring)
       THEN /\ hand' = Pop(ring).event
            /\ ring' = Pop(ring).ring
            /\ thread' = "publish"
            /\ registered' = FALSE
       ELSE /\ thread' = "forward"
            /\ UNCHANGED <<hand, ring, registered>>
    /\ UNCHANGED <<callbacks, request, cancelled, running, ingress, history>>

(* Its second part: the request goes to the manual queue.                  *)
Forward ==
    /\ thread = "forward"
    /\ request' = [NoRequest EXCEPT !.at = "queued"]
    /\ thread' = "recheck"
    /\ UNCHANGED <<ring, callbacks, hand, registered, cancelled, running, ingress, history>>

\* Mutant: the request is left in the queue without a second look.
NoRecheck ==
    /\ thread = "recheck"
    /\ thread' = "pended"
    /\ UNCHANGED <<driver, hand, registered, cancelled, running, ingress, history>>

(* Its last part, the second look.                                         *)
Recheck ==
    /\ thread = "recheck"
    /\ Satisfy
    /\ thread' = "pended"
    /\ UNCHANGED <<callbacks, hand, registered, cancelled, running, ingress, history>>

\* Mutant: only the one who stops the capture cancels a request.
WaitUnchecked ==
    /\ thread = "pended"
    /\ thread' = "waiting"
    /\ UNCHANGED <<driver, hand, registered, cancelled, running, ingress, history>>

(* wait_event_registered after ERROR_IO_PENDING: a cancellation that came  *)
(* before the request did is carried out by the waiter.                    *)
CheckCancelled ==
    /\ thread = "pended"
    /\ IF cancelled THEN CancelRequest ELSE UNCHANGED request
    /\ thread' = "waiting"
    /\ UNCHANGED <<ring, callbacks, hand, registered, cancelled, running, ingress, history>>

(* WaitForSingleObject returns, the registration is cleared; a cancelled   *)
(* wait ends the loop, whether or not it was asked to stop.                *)
Woken ==
    /\ thread = "waiting" /\ request.at \in {"done", "cancelled"}
    /\ thread' = IF request.at = "done" THEN "publish" ELSE "ended"
    /\ hand' = request.event
    /\ request' = NoRequest
    /\ registered' = FALSE
    /\ UNCHANGED <<ring, callbacks, cancelled, running, ingress, history>>

(* The wait fails (the device is gone): the thread warns and ends.         *)
WaitFails ==
    /\ \/ thread = "forward"
       \/ thread = "waiting" /\ request.at = "queued"
    /\ request' = NoRequest
    /\ thread' = "ended"
    /\ registered' = FALSE
    /\ UNCHANGED <<ring, callbacks, hand, cancelled, running, ingress, history>>

-----------------------------------------------------------------------------
(* The semantic ingress.                                                   *)

(* Notify::notify_one.                                                     *)
NotifyOne == sleeping' = FALSE /\ permit' = (permit \/ ~sleeping)

MotionsQueued == {i \in DOMAIN queue : IsMotion(queue[i])}

\* Mutant: motion that gives up its place leaves it to the newcomer.
EvictedInPlace(i, e) == [queue EXCEPT ![i] = e]

Evicted(i, e) == Append([j \in 1 .. Len(queue) - 1 |-> queue[IF j < i THEN j ELSE j + 1]], e)

(* try_push: coalesce with the newest, evict the oldest motion, or, with   *)
(* the queue full of discrete events, drop motion and latch the loss of    *)
(* anything else.  A sum that would overflow i32 drops the newcomer.       *)
TryPush(e) ==
    LET back == queue[Len(queue)]
        oldest == CHOOSE i \in MotionsQueued : \A j \in MotionsQueued : i <= j IN
    IF queue # <<>> /\ CanCoalesce(back, e) THEN
        /\ \/ queue' = [queue EXCEPT ![Len(queue)] = Coalesced(@, e)]
           \/ e.class \notin Replacing /\ queue' = queue
        /\ UNCHANGED <<overflow, sleeping, permit, lost>>
    ELSE IF Len(queue) < IngressCapacity \/ MotionsQueued # {} THEN
        /\ queue' = IF Len(queue) < IngressCapacity THEN Append(queue, e)
                                                    ELSE Evicted(oldest, e)
        /\ NotifyOne
        /\ UNCHANGED <<overflow, lost>>
    ELSE IF IsMotion(e) THEN
        UNCHANGED <<ingress, lost>>
    ELSE
        /\ overflow' = TRUE
        /\ lost' = Lose(e.last)
        /\ NotifyOne
        /\ UNCHANGED queue

(* report_fault.                                                           *)
ReportFault ==
    /\ overflow' = TRUE
    /\ NotifyOne
    /\ UNCHANGED <<queue, lost>>

(* The thread passes on what it was given: publish_windows_driver_event,   *)
(* or the fault that the driver's overflow is mapped to.                   *)
Publish ==
    /\ thread = "publish"
    /\ IF hand.class = "overflow" THEN ReportFault ELSE TryPush(hand)
    /\ thread' = "top"
    /\ hand' = OverflowEvent
    /\ UNCHANGED <<driver, registered, cancelled, running, captured, taken, crashes>>

(* recv_event in the actor's loop: faults first, then the queue; with      *)
(* nothing there it sleeps, unless a notification was stored.              *)
ActorTakes ==
    /\ ~sleeping
    /\ permit' = FALSE
    /\ IF overflow THEN
           /\ overflow' = FALSE /\ lost' = 0
           /\ UNCHANGED <<queue, sleeping, taken>>
       ELSE IF queue # <<>> THEN
           /\ queue' = Tail(queue) /\ taken' = Head(queue).last
           /\ UNCHANGED <<overflow, sleeping, lost>>
       ELSE
           /\ sleeping' = ~permit
           /\ UNCHANGED <<queue, overflow, taken, lost>>
    /\ UNCHANGED <<driver, capture, captured, crashes>>

(* A command wins the select! and the future that slept is dropped.        *)
ActorInterrupted ==
    /\ sleeping
    /\ sleeping' = FALSE
    /\ UNCHANGED <<driver, capture, queue, overflow, permit, history>>

-----------------------------------------------------------------------------
(* The daemon.                                                             *)

(* WindowsDriverCapture::stop, its first statement ...                     *)
StopFlag ==
    /\ running
    /\ running' = FALSE
    /\ UNCHANGED <<driver, thread, hand, registered, cancelled, ingress, history>>

(* ... and its second, under the registration's lock; it then joins.       *)
StopCancel ==
    /\ ~running /\ ~cancelled
    /\ cancelled' = TRUE
    /\ IF registered THEN CancelRequest ELSE UNCHANGED request
    /\ UNCHANGED <<ring, callbacks, thread, hand, registered, running, ingress, history>>

(* The daemon dies or exits, and is started again: the driver cancels its  *)
(* request (RShareFilterEvtFileCleanup) and keeps the ring.                *)
Crash ==
    /\ crashes < CrashMax /\ crashes' = crashes + 1
    /\ thread \notin {"forward", "recheck"}
    /\ request' = NoRequest
    /\ thread' = "top" /\ hand' = OverflowEvent
    /\ registered' = FALSE /\ cancelled' = FALSE /\ running' = TRUE
    /\ queue' = <<>> /\ overflow' = FALSE /\ sleeping' = FALSE /\ permit' = FALSE
    /\ lost' = IF ring.latched THEN lost ELSE 0
    /\ UNCHANGED <<ring, callbacks, captured, taken>>

ThreadStep == LoopTop \/ Register \/ Submit \/ Forward \/ Recheck \/ CheckCancelled
              \/ Woken \/ Publish
Actor == ActorTakes \/ ActorInterrupted

Next ==
    \/ \E class \in Classes : Capture(class)
    \/ CallbackSatisfies
    \/ ThreadStep \/ WaitFails
    \/ Actor
    \/ StopFlag \/ StopCancel \/ Crash

Fairness == /\ WF_vars(ThreadStep) /\ WF_vars(CallbackSatisfies) /\ WF_vars(StopCancel)
            /\ WF_vars(ActorTakes)
Spec == Init /\ [][Next]_vars /\ Fairness

-----------------------------------------------------------------------------
(* Properties.                                                             *)

IsInput(e) == e.class # "overflow"
Hand == IF thread = "publish" THEN <<hand>> ELSE <<>>
Completed == IF request.at = "done" THEN <<request.event>> ELSE <<>>
Path == queue \o Hand \o Completed \o Contents(ring)

(* Types, capacities and the ring's indices hold.  And nothing overtakes:  *)
(* whatever was evicted, coalesced or lost, what the actor has still to    *)
(* take is in the order of its capture, motion never before the button it  *)
(* came after.                                                             *)
InCaptureOrder ==
    /\ CaptureTypeOK
    /\ \A i \in DOMAIN Path : IsInput(Path[i]) => taken < Path[i].first
    /\ \A i, j \in DOMAIN Path :
          i < j /\ IsInput(Path[i]) /\ IsInput(Path[j]) => Path[i].last < Path[j].first

(* A lost press or release is announced: a fault is on its way to the      *)
(* actor, and gets there before any input captured after the loss.         *)
LossAnnounced ==
    lost # 0 =>
        /\ taken < lost
        /\ \/ ring.latched \/ overflow
           \/ thread = "publish" /\ ~IsInput(hand)
           \/ request.at = "done" /\ ~IsInput(request.event)

(* No wake-up is missed: a request waits in the driver, and the actor for  *)
(* the ingress, only while there is nothing for them, or someone is about  *)
(* to look.                                                                *)
NoMissedWakeup ==
    /\ request.at = "queued" /\ HasEvent(ring) => callbacks > 0 \/ thread = "recheck"
    /\ queue # <<>> \/ overflow => ~sleeping

(* A capture that is stopped ends, though the cancellation may come before *)
(* the request it is to cancel; the daemon's shutdown joins the thread.    *)
StopEndsCapture == ~running ~> (thread = "ended" \/ running)

(* What the fault CaptureDiscontinuity is documented for (violated: a      *)
(* filter capture that ends by a failed wait reports nothing).             *)
EndedCaptureReported == thread = "ended" /\ running => overflow
=============================================================================
