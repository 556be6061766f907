---------------------------- MODULE InjectionActor ----------------------------
(***************************************************************************)
(* The receiver's injection actor                                          *)
(* (crates/rshare-input/src/injection_actor.rs): producers submit frames   *)
(* of the authenticated controller, the owner's connection closes, the     *)
(* lease lapses, local commands arrive; one worker thread owns the input   *)
(* backend and injects.  Producers only change the queues, under a mutex;  *)
(* the worker takes one work item under it (Take...) and carries the item  *)
(* out without it (Execute...), so that anything may be submitted or       *)
(* closed between the two.                                                 *)
(***************************************************************************)
EXTENDS Integers, FiniteSets, SequencesExt

CONSTANTS
    Owners,            \* AuthenticatedInputOwner
    Keys, Buttons,
    Classes,           \* of realtime payload, "Relative" motion among them
    EpochMax, SeqMax,  \* bounds of epochs and of frame sequences
    ReliableCapacity,  \* of the reliable and of the trusted-local queue
    ControlCapacity,   \* CONTROL_QUEUE_CAPACITY
    SegmentCapacity,   \* REALTIME_SEGMENT_CAPACITY
    ComponentCapacity, \* RELATIVE_COMPONENT_CAPACITY
    None

Controls == Keys \cup Buttons
Epochs == 1..EpochMax
Seqs == 0..SeqMax

ASSUME ActorConstantsAssumption ==
    /\ None \notin Owners \cup Controls
    /\ EpochMax \in Nat /\ SeqMax \in Nat
    /\ {ReliableCapacity, ControlCapacity, SegmentCapacity, ComponentCapacity} \subseteq Nat \ {0}

VARIABLES
    admission,  \* QueueState.active; epoch 0 for None
    controls,   \* Begin and Close commands
    releaseAll, \* the release_all_sources slot is taken
    trusted,    \* trusted_local
    ordinary,   \* realtime batches and reliable frames, in one queue
    shutdown,
    work,       \* what the worker is carrying out
    gate,       \* the worker's session and its gate; epoch 0 for None
    remote,     \* remote_ledger: the epoch that pressed a control, 0 if up
    local,      \* trusted_ledger: the controls held
    backend,    \* the controls down on this machine
    mishaps     \* history: which kinds of failure have happened

queueVars == <<admission, controls, releaseAll, trusted, ordinary, shutdown>>
workerVars == <<gate, remote, local, backend, mishaps>>
actorVars == <<queueVars, work, workerVars>>

-----------------------------------------------------------------------------
(* A last sequence (Option<u64>) is kept as the number after it, 0 if none.*)

NoSession == [owner |-> None, epoch |-> 0, open |-> FALSE, rt |-> 0, rel |-> 0, due |-> FALSE]
NoGate == [epoch |-> 0, rt |-> 0, rel |-> 0]

(* Work: what the worker does next.  A realtime batch holds the sequences  *)
(* of the frames merged into it; only relative motion keeps several.       *)
Work(type, epoch, kind, seqs, control, anchor) ==
    [type |-> type, epoch |-> epoch, kind |-> kind, seqs |-> seqs,
     control |-> control, anchor |-> anchor]
Simple(type, epoch) == Work(type, epoch, None, <<>>, None, 0)
RealtimeBatch(class, seqs) == Work("Realtime", admission.epoch, class, seqs, None, 0)
ReliableFrame(kind, s, c, a) == Work("Reliable", admission.epoch, kind, <<s>>, c, a)
TrustedEvent(kind, c) == Work("TrustedLocal", 0, kind, <<>>, c, 0)
Idle == Simple("Idle", 0)
Exited == Simple("Exited", 0)

IsRealtime(x) == x.type = "Realtime"
IsButton(x) == x.type = "Reliable" /\ x.control \in Buttons
ReliableLen == Cardinality({i \in DOMAIN ordinary : ~IsRealtime(ordinary[i])})

\* The realtime batches at the back of the queue.
SegmentLen ==
    Cardinality({i \in DOMAIN ordinary : \A j \in i..Len(ordinary) : IsRealtime(ordinary[j])})

-----------------------------------------------------------------------------
(* Submissions.  One that is refused changes nothing, and has no action.   *)

From(o, e) == admission.owner = o /\ admission.epoch = e /\ admission.open /\ ~shutdown

\* Mutant: what waits is kept when its session closes.
CloseKeepingQueue ==
    IF admission.open
    THEN /\ admission' = [admission EXCEPT !.open = FALSE]
         /\ UNCHANGED ordinary
         /\ controls' = Append(controls, Simple("Close", admission.epoch))
    ELSE UNCHANGED <<admission, ordinary, controls>>


(* close_admission, which needs no room in the control queue.              *)
CloseAdmission ==
    IF admission.open
    THEN /\ admission' = [admission EXCEPT !.open = FALSE]
         /\ ordinary' = <<>>
         /\ controls' = Append(controls, Simple("Close", admission.epoch))
    ELSE UNCHANGED <<admission, ordinary, controls>>

\* Mutant: the Close that a takeover will need is not counted.
HasRoomForBegin == Len(controls) + 1 <= ControlCapacity

RoomToBegin == Len(controls) + (IF admission.open THEN 2 ELSE 1) <= ControlCapacity

BeginSession(o, e) ==
    /\ ~shutdown /\ RoomToBegin
    /\ e > admission.epoch
    /\ controls' = controls
                   \o (IF admission.open THEN <<Simple("Close", admission.epoch)>> ELSE <<>>)
                   \o <<Simple("Begin", e)>>
    /\ ordinary' = <<>>
    /\ admission' = [NoSession EXCEPT !.owner = o, !.epoch = e, !.open = TRUE]
    /\ UNCHANGED <<releaseAll, trusted, shutdown, work, workerVars>>

(* The queue after a batch of one frame: it merges with the last batch of  *)
(* its class (relative motion adds up, until the sum overflows or there    *)
(* are too many; axes replace), or takes a place of its own, or is lost.   *)
RealtimeQueues(class, s) ==
    LET merges == ordinary # <<>> /\ IsRealtime(Last(ordinary)) /\ Last(ordinary).kind = class
        Merged(seqs) == {[ordinary EXCEPT ![Len(ordinary)].seqs = seqs]}
    IN  CASE merges /\ class = "Relative" ->
               {ordinary} \cup (IF Len(Last(ordinary).seqs) < ComponentCapacity
                                THEN Merged(Append(Last(ordinary).seqs, s)) ELSE {})
          [] merges /\ class # "Relative" -> Merged(<<s>>)
          [] OTHER -> IF SegmentLen < SegmentCapacity
                      THEN {Append(ordinary, RealtimeBatch(class, <<s>>))} ELSE {ordinary}

SubmitRealtime(o, e, class, s) ==
    /\ From(o, e)
    /\ s >= admission.rt
    /\ admission' = [admission EXCEPT !.rt = s + 1, !.due = FALSE]
    /\ ordinary' \in RealtimeQueues(class, s)
    /\ UNCHANGED <<controls, releaseAll, trusted, shutdown, work, workerVars>>

(* The sequence check and the bound of reliable_len.                       *)
Follows(s) == admission.rel = 0 \/ s = admission.rel

HasRoom == ReliableLen < ReliableCapacity

SubmitReliable(o, e, kind, s, c, a) ==
    /\ From(o, e)
    /\ Follows(s)
    /\ HasRoom
    /\ admission' = [admission EXCEPT !.rel = s + 1, !.due = FALSE]
    /\ ordinary' = Append(ordinary, ReliableFrame(kind, s, c, a))
    /\ UNCHANGED <<controls, releaseAll, trusted, shutdown, work, workerVars>>

(* A ReleaseAll frame, a reliable sequence that does not follow, or a      *)
(* frame of another protocol version ends the session.                     *)
SubmitTerminal(o, e) ==
    /\ From(o, e)
    /\ CloseAdmission
    /\ UNCHANGED <<releaseAll, trusted, shutdown, work, workerVars>>

RequestReleaseAll ==
    /\ CloseAdmission
    /\ UNCHANGED <<releaseAll, trusted, shutdown, work, workerVars>>

RequestReleaseThrough(o, e) ==
    /\ admission.owner = o /\ admission.epoch <= e
    /\ CloseAdmission
    /\ UNCHANGED <<releaseAll, trusted, shutdown, work, workerVars>>

RequestReleaseAllSources ==
    /\ ~shutdown
    /\ admission' = [admission EXCEPT !.open = FALSE]
    /\ ordinary' = <<>> /\ controls' = <<>> /\ trusted' = <<>>
    /\ releaseAll' = TRUE
    /\ UNCHANGED <<shutdown, work, workerVars>>

InjectTrustedLocal(kind, c) ==
    /\ ~shutdown /\ Len(trusted) < ReliableCapacity
    /\ trusted' = Append(trusted, TrustedEvent(kind, c))
    /\ UNCHANGED <<admission, controls, releaseAll, ordinary, shutdown, work, workerVars>>

(* shutdown, or the last handle dropped.                                   *)
Shutdown ==
    /\ ~shutdown
    /\ shutdown' = TRUE
    /\ ordinary' = <<>> /\ trusted' = <<>>
    /\ UNCHANGED <<admission, controls, releaseAll, work, workerVars>>

(* The deadline passes without an accepted frame of the session.           *)
LeaseElapses ==
    /\ admission.open /\ ~admission.due
    /\ admission' = [admission EXCEPT !.due = TRUE]
    /\ UNCHANGED <<controls, releaseAll, trusted, ordinary, shutdown, work, workerVars>>

-----------------------------------------------------------------------------
(* next_work_item: one action per kind of work, in falling priority.       *)

LeaseLapsed == admission.open /\ admission.due /\ gate.epoch = admission.epoch

MayTake == work = Idle /\ ~shutdown

TakeShutdown ==
    /\ work = Idle /\ shutdown
    /\ work' = Simple("Shutdown", 0)
    /\ UNCHANGED <<queueVars, workerVars>>

TakeReleaseAllSources ==
    /\ MayTake /\ releaseAll
    /\ work' = Simple("ReleaseAllSources", 0)
    /\ releaseAll' = FALSE
    /\ UNCHANGED <<admission, controls, trusted, ordinary, shutdown, workerVars>>

NoRelease == MayTake /\ ~releaseAll

TakeControl ==
    /\ NoRelease /\ controls # <<>>
    /\ work' = Head(controls)
    /\ controls' = Tail(controls)
    /\ UNCHANGED <<admission, releaseAll, trusted, ordinary, shutdown, workerVars>>

(* The Close that close_admission queues is taken back at once.            *)
TakeLeaseExpired ==
    /\ NoRelease /\ controls = <<>> /\ LeaseLapsed
    /\ work' = Simple("Close", gate.epoch)
    /\ admission' = [admission EXCEPT !.open = FALSE]
    /\ ordinary' = <<>>
    /\ UNCHANGED <<controls, releaseAll, trusted, shutdown, workerVars>>

\* Mutant: local commands come before the lease and the control queue.
TrustedBeforeLease == NoRelease

MayTakeTrusted == NoRelease /\ controls = <<>> /\ ~LeaseLapsed

TakeTrusted ==
    /\ MayTakeTrusted /\ trusted # <<>>
    /\ work' = Head(trusted)
    /\ trusted' = Tail(trusted)
    /\ UNCHANGED <<admission, controls, releaseAll, ordinary, shutdown, workerVars>>

(* A button right behind the first realtime batch is taken before the part *)
(* of that batch which starts with the first motion later than its anchor. *)
TakeOrdinary ==
    /\ NoRelease /\ controls = <<>> /\ ~LeaseLapsed /\ trusted = <<>>
    /\ ordinary # <<>>
    /\ LET front == Head(ordinary)
           anchored == IsRealtime(front) /\ Len(ordinary) > 1 /\ IsButton(ordinary[2])
           late == {k \in DOMAIN front.seqs : front.seqs[k] > ordinary[2].anchor}
           rest == SubSeq(ordinary, 3, Len(ordinary))
       IN  \/ /\ anchored /\ 1 \notin late
              /\ \E k \in late :
                    /\ \A j \in late : k <= j
                    /\ work' = [front EXCEPT !.seqs = SubSeq(@, 1, k - 1)]
                    /\ ordinary' = <<ordinary[2], [front EXCEPT !.seqs = SubSeq(@, k, Len(@))]>> \o rest
           \/ /\ anchored /\ 1 \in late
              /\ work' = ordinary[2]
              /\ ordinary' = <<front>> \o rest
           \/ /\ anchored => late = {}
              /\ work' = front
              /\ ordinary' = Tail(ordinary)
    /\ UNCHANGED <<admission, controls, releaseAll, trusted, shutdown, workerVars>>

-----------------------------------------------------------------------------
(* run_worker: carrying the item out.  Any injection may fail.             *)

HeldRemote == {c \in Controls : remote[c] # 0}

\* Mutant: a release is confirmed although an injection of it failed.
ConfirmedAnyway(held, released) == {}

(* What a ledger keeps when only some of its releases could be injected:   *)
(* all of it, for the next attempt.                                        *)
StillHeld(held, released) == IF released = held THEN {} ELSE held

(* release_held on the remote ledger, on the local one, or on both, with   *)
(* down held at the backend.  A ledger whose batch tokens are spent        *)
(* releases nothing, as if every injection failed.                         *)
ReleaseLedgers(remoteToo, localToo, down, mishap) ==
    \E r \in SUBSET HeldRemote, l \in SUBSET local :
        /\ remoteToo \/ r = {}
        /\ localToo \/ l = {}
        /\ remote' = [c \in Controls |-> IF remoteToo /\ c \notin StillHeld(HeldRemote, r)
                                        THEN 0 ELSE remote[c]]
        /\ local' = IF localToo THEN StillHeld(local, l) ELSE local
        /\ backend' = down \ (r \cup l)
        /\ mishaps' = mishaps \cup mishap
                      \cup (IF \/ remoteToo /\ r # HeldRemote
                               \/ localToo /\ l # local THEN {"Inject"} ELSE {})

Done == work' = Idle
QueuesUnchanged == UNCHANGED queueVars

ExecuteShutdown ==
    /\ work.type = "Shutdown"
    /\ ReleaseLedgers(TRUE, TRUE, backend, {})
    /\ gate' = NoGate
    /\ work' = Exited
    /\ QueuesUnchanged

ExecuteReleaseAllSources ==
    /\ work.type = "ReleaseAllSources"
    /\ ReleaseLedgers(TRUE, TRUE, backend, {})
    /\ gate' = NoGate
    /\ Done /\ QueuesUnchanged

ExecuteBegin ==
    /\ work.type = "Begin"
    /\ ReleaseLedgers(gate.epoch \notin {0, work.epoch}, FALSE, backend, {})
    /\ gate' = [NoGate EXCEPT !.epoch = work.epoch]
    /\ Done /\ QueuesUnchanged

(* Close and LeaseExpired.                                                 *)
ExecuteClose ==
    /\ work.type = "Close"
    /\ ReleaseLedgers(gate.epoch = work.epoch, FALSE, backend, {})
    /\ gate' = IF gate.epoch = work.epoch THEN NoGate ELSE gate
    /\ Done /\ QueuesUnchanged

(* A press or release is injected first and then recorded, which fails     *)
(* when the ledger's generations are spent.  down and mishap say what the  *)
(* failed attempt leaves behind.                                           *)
After(kind, c, set) ==
    CASE kind = "Press" -> set \cup {c}
      [] kind = "Release" -> set \ {c}
      [] OTHER -> set

FailedAttempts(kind, c, ledger) ==
    {[down |-> backend, mishap |-> {"Inject"}]}
    \cup (IF kind = "Press" /\ c \notin ledger
          THEN {[down |-> backend \cup {c}, mishap |-> {"Ledger"}]} ELSE {})

ExecuteTrusted ==
    /\ work.type = "TrustedLocal"
    /\ \/ /\ backend' = After(work.kind, work.control, backend)
          /\ local' = After(work.kind, work.control, local)
          /\ UNCHANGED <<remote, mishaps>>
       \/ \E f \in FailedAttempts(work.kind, work.control, local) :
            ReleaseLedgers(TRUE, TRUE, f.down, f.mishap)
    /\ Done /\ UNCHANGED <<queueVars, gate>>

\* Mutant: the worker gives its session up, admission never learns of it.
FailQuietly(f) ==
    /\ ReleaseLedgers(TRUE, TRUE, f.down, f.mishap)
    /\ gate' = NoGate
    /\ UNCHANGED <<admission, ordinary>>

(* fail_worker_session, and the release of the local ledger after it.      *)
FailSession(f) ==
    /\ ReleaseLedgers(TRUE, TRUE, f.down, f.mishap)
    /\ gate' = NoGate
    /\ IF admission.open /\ admission.epoch = gate.epoch
       THEN admission' = [admission EXCEPT !.open = FALSE] /\ ordinary' = <<>>
       ELSE UNCHANGED <<admission, ordinary>>

InSession == gate.epoch # 0 /\ gate.epoch = work.epoch

ExecuteRealtime ==
    /\ work.type = "Realtime"
    /\ IF InSession /\ Last(work.seqs) >= gate.rt
       THEN \/ /\ gate' = [gate EXCEPT !.rt = Last(work.seqs) + 1]
               /\ UNCHANGED <<admission, ordinary, remote, local, backend, mishaps>>
            \/ FailSession([down |-> backend, mishap |-> {"Inject"}])
       ELSE UNCHANGED <<admission, ordinary, workerVars>>
    /\ Done /\ UNCHANGED <<controls, releaseAll, trusted, shutdown>>

GateAccepts == InSession /\ (gate.rel = 0 \/ work.seqs[1] = gate.rel)

ExecuteReliable ==
    /\ work.type = "Reliable"
    /\ \/ /\ gate.epoch = 0
          /\ UNCHANGED <<admission, ordinary, workerVars>>
       \/ /\ gate.epoch # 0 /\ ~GateAccepts
          /\ FailSession([down |-> backend, mishap |-> {"Gate"}])
       \/ /\ GateAccepts
          /\ gate' = [gate EXCEPT !.rel = work.seqs[1] + 1]
          /\ backend' = After(work.kind, work.control, backend)
          /\ remote' = IF work.control = None THEN remote
                       ELSE [remote EXCEPT ![work.control] =
                                IF work.kind = "Release" THEN 0 ELSE IF @ = 0 THEN gate.epoch ELSE @]
          /\ UNCHANGED <<admission, ordinary, local, mishaps>>
       \/ /\ GateAccepts
          /\ \E f \in FailedAttempts(work.kind, work.control, HeldRemote) : FailSession(f)
    /\ Done /\ UNCHANGED <<controls, releaseAll, trusted, shutdown>>

-----------------------------------------------------------------------------
ActorInit ==
    /\ admission = NoSession
    /\ controls = <<>> /\ releaseAll = FALSE /\ trusted = <<>> /\ ordinary = <<>>
    /\ shutdown = FALSE
    /\ work = Idle
    /\ gate = NoGate
    /\ remote = [c \in Controls |-> 0]
    /\ local = {} /\ backend = {} /\ mishaps = {}

Producers ==
    \/ \E o \in Owners, e \in Epochs :
        \/ BeginSession(o, e)
        \/ \E class \in Classes, s \in Seqs : SubmitRealtime(o, e, class, s)
        \/ \E s \in Seqs :
            \/ SubmitReliable(o, e, "Other", s, None, 0)
            \/ \E kind \in {"Press", "Release"} :
                \/ \E c \in Keys : SubmitReliable(o, e, kind, s, c, 0)
                \/ \E c \in Buttons, a \in Seqs : SubmitReliable(o, e, kind, s, c, a)
        \/ SubmitTerminal(o, e)
        \/ RequestReleaseThrough(o, e)
    \/ RequestReleaseAll
    \/ RequestReleaseAllSources
    \/ \E c \in Controls, kind \in {"Press", "Release"} : InjectTrustedLocal(kind, c)
    \/ InjectTrustedLocal("Other", None)
    \/ Shutdown
    \/ LeaseElapses

Take == TakeShutdown \/ TakeReleaseAllSources \/ TakeControl \/ TakeLeaseExpired
        \/ TakeTrusted \/ TakeOrdinary

Execute == ExecuteShutdown \/ ExecuteReleaseAllSources \/ ExecuteBegin \/ ExecuteClose
           \/ ExecuteTrusted \/ ExecuteRealtime \/ ExecuteReliable

Worker == Take \/ Execute

ActorNext == Producers \/ Worker

ActorSpec == ActorInit /\ [][ActorNext]_actorVars

(* The worker is a thread of its own that waits only for work: it is never *)
(* blocked for ever, whatever the producers do.                            *)
FairActorSpec == ActorSpec /\ WF_actorVars(Worker)

-----------------------------------------------------------------------------
(* Properties.                                                             *)

WorkTypes == {"Idle", "Exited", "Shutdown", "ReleaseAllSources", "Begin", "Close",
              "TrustedLocal", "Realtime", "Reliable"}

(* Every field keeps to its range and every queue to its capacity.         *)
ActorTypeOK ==
    /\ admission \in [owner : Owners \cup {None}, epoch : 0..EpochMax, open : BOOLEAN,
                      rt : 0..(SeqMax + 1), rel : 0..(SeqMax + 1), due : BOOLEAN]
    /\ \A i \in DOMAIN controls : controls[i].type \in {"Begin", "Close"}
    /\ Len(controls) + (IF admission.open THEN 1 ELSE 0) <= ControlCapacity + 1
    /\ \A i \in DOMAIN trusted : trusted[i].type = "TrustedLocal"
    /\ \A i \in DOMAIN ordinary : ordinary[i].type \in {"Realtime", "Reliable"}
    /\ ReliableLen <= ReliableCapacity /\ Len(trusted) <= ReliableCapacity
    /\ releaseAll \in BOOLEAN /\ shutdown \in BOOLEAN
    /\ work.type \in WorkTypes
    /\ gate \in [epoch : 0..EpochMax, rt : 0..(SeqMax + 1), rel : 0..(SeqMax + 1)]
    /\ remote \in [Controls -> 0..EpochMax]
    /\ local \subseteq Controls /\ backend \subseteq Controls
    /\ mishaps \subseteq {"Inject", "Ledger", "Gate"}

ClosedSessionPurged ==
    ordinary # <<>> =>
        /\ admission.open /\ ~shutdown
        /\ \A i \in DOMAIN ordinary : ordinary[i].epoch = admission.epoch
AdmittedPassesGate ==
    /\ work.type = "Reliable" => GateAccepts
    /\ work.type = "Realtime" => InSession /\ work.seqs[1] >= gate.rt

(* Admission and the worker, which keep their books apart, agree: a frame  *)
(* waits only for the session that is open, so that none is injected after *)
(* a terminal release; and what admission accepted the worker's gate,      *)
(* which checks owner, epoch and sequence again, never refuses.            *)
AdmissionMatchesGate == ClosedSessionPurged /\ AdmittedPassesGate

HeldBySession == \A c \in HeldRemote : remote[c] = gate.epoch
NothingSurvives == work = Exited => backend = {}

(* Nothing is down on this machine that no ledger would release; and       *)
(* unless an injection failed, what is held remotely was pressed by the    *)
(* session the worker is in: nothing survives the end of a session or      *)
(* passes to the next one, and nothing at all survives the worker.         *)
HeldIsAccounted ==
    /\ "Ledger" \notin mishaps => backend \subseteq HeldRemote \cup local
    /\ mishaps = {} => HeldBySession /\ NothingSurvives

Over(e) == admission.epoch > e \/ (admission.epoch = e /\ ~admission.open)


(* A lease that lapses ends the session or is renewed; local commands that *)
(* never stop coming cannot put it off.                                    *)
LeaseEnforced ==
    admission.open /\ admission.due ~> ~(admission.open /\ admission.due) \/ shutdown

(* What the injection plan says of motion later than a click (violated:    *)
(* only a button right behind the first batch is taken before it, so a     *)
(* batch of another class between them lets the motion through).           *)
FutureMotionWaits ==
    [][ \A i \in DOMAIN ordinary :
          /\ IsButton(ordinary[i])
          /\ work'.type = "Realtime" /\ work # work' /\ work'.kind = "Relative"
          => \A j \in DOMAIN work'.seqs : work'.seqs[j] <= ordinary[i].anchor ]_actorVars
=============================================================================
