-------------------------- MODULE MobileOwnership --------------------------
(***************************************************************************)
(* The mobile gateway (apps/rshare-daemon/src/mobile_gateway.rs): browser  *)
(* controllers ("clients") press and release keys and mouse buttons        *)
(* ("controls") of the local machine.  Several clients may hold one        *)
(* control, which goes up with its last owner.  A request reserves its     *)
(* effect on the shared ledgers, submits one event to the injection        *)
(* actor's trusted queue, waits for the answer without any lock, and then  *)
(* applies or takes back what it reserved.  The lease reaper releases what *)
(* a silent client holds by taking over its operation; shutdown does so    *)
(* for every client.                                                       *)
(*                                                                         *)
(* An operation token is unique in the code; here each client has its own, *)
(* and reuses one that no task and no queued event has.  A token is only   *)
(* ever compared for equality, with that of the client's session.          *)
(***************************************************************************)
EXTENDS Naturals, Sequences, FiniteSets

CONSTANTS
    Clients,
    Controls,
    Batch,          \* the order in which a page releases all it may hold
    TokensOf,       \* the operation tokens of each client, positive numbers
    MaxSeq,         \* for each client, bounds the sequence numbers it sends
    MaxSessions,    \* MobileGatewayLimits.max_client_sessions
    MaxHeld,        \* MAX_MOBILE_HELD_KEYS
    QueueCap        \* reliable_capacity of the injection actor

ASSUME MobileAssumption ==
    /\ TokensOf \in [Clients -> SUBSET (Nat \ {0})]
    /\ \A c, d \in Clients : TokensOf[c] \cap TokensOf[d] # {} => c = d
    /\ IsFiniteSet(Controls) /\ Batch \in Seq(Controls) /\ Batch # <<>>
    /\ MaxSeq \in [Clients -> Nat]
    /\ {MaxSessions, MaxHeld, QueueCap} \subseteq Nat \ {0}

VARIABLES
    known,      \* the clients that have a MobileClientSession
    sess,       \* it: last_sequence, in_flight, held, and the age of last_seen
    owners,     \* key_owners and mouse_button_owners
    reserved,   \* the tokens in reservations
    ops,        \* the tasks: what each operation still has to do
    reaping,    \* the clients whose release tasks the reaper waits for
    queue,      \* trusted_local: events submitted to the injection worker
    down,       \* what the operating system holds, and the trusted ledger
    mode,       \* serving, stopping (releasing everything) or stopped
    toStop,     \* the clients that shutdown has not released yet
    excused,    \* history: controls that are down, or queued to be, after a
                \* press was refused and taken back or a last release failed
    crossed     \* history: likewise, after an owner left a control to another
                \* whose release was under way and could be too early

ledgers == <<known, sess, owners, reserved>>
world == <<queue, down>>
control == <<reaping, mode, toStop>>
history == <<excused, crossed>>
vars == <<ledgers, ops, world, control, history>>

Tokens == UNION {TokensOf[c] : c \in Clients}

Press(k) == [control |-> k, pressed |-> TRUE]
Release(k) == [control |-> k, pressed |-> FALSE]
Requests == [control : Controls, pressed : BOOLEAN]

(* last_seen is recent, one held_input_lease old, or two: the latter only  *)
(* counts, and so only happens here, once the client holds nothing.        *)
Ages == {"recent", "lapsed", "idle"}

NewSession == [last |-> 0, inFlight |-> 0, held |-> {}, age |-> "recent"]
Sessions == [last : Nat, inFlight : Tokens \cup {0}, held : SUBSET Controls, age : Ages]

(* An operation: whose it is, whether it is a lease release (which ignores *)
(* the errors of its requests), where it stands, what is left to process,  *)
(* and of the request in progress: whether its reservation introduced the  *)
(* held control and the owner, and whether its injection was accepted.     *)
Stages == {"reserve", "submit", "await", "finish", "end"}
Ops == [client : Clients, lease : BOOLEAN, at : Stages, todo : Seq(Requests),
        newHeld : BOOLEAN, newOwner : BOOLEAN, accepted : BOOLEAN]
NoOp == [at |-> "none"]
Live(t) == ops[t].at # "none"

(* With nothing left to process it only has to end.                        *)
Start(c, lease, todo) ==
    [client |-> c, lease |-> lease, at |-> IF todo = <<>> THEN "end" ELSE "reserve",
     todo |-> todo, newHeld |-> FALSE, newOwner |-> FALSE, accepted |-> FALSE]

(* The next token of client c: one that no task runs with and no queued    *)
(* event is to be answered to.                                             *)
InUse(t) == Live(t) \/ \E i \in DOMAIN queue : queue[i].token = t
Fresh(c) == {t \in TokensOf[c] : ~InUse(t) /\ \A u \in TokensOf[c] : u < t => InUse(u)}

MobileTypeOK ==
    /\ known \subseteq Clients
    /\ sess \in [Clients -> Sessions]
    /\ \A c \in Clients \ known : sess[c] = NewSession
    /\ \A c \in Clients : Cardinality(sess[c].held) <= MaxHeld /\ sess[c].last <= MaxSeq[c]
    /\ owners \in [Controls -> SUBSET Clients]
    /\ reserved \subseteq Tokens
    /\ ops \in [Tokens -> Ops \cup {NoOp}]
    /\ reaping \subseteq Clients
    /\ queue \in Seq([token : Tokens \cup {0}, request : Requests]) /\ Len(queue) <= QueueCap
    /\ down \subseteq Controls
    /\ mode \in {"serving", "stopping", "stopped"} /\ toStop \subseteq Clients
    /\ excused \subseteq Controls /\ crossed \subseteq Controls

-----------------------------------------------------------------------------
(* Sessions.  session_at drops the idle sessions nobody refers to before   *)
(* it looks up or creates the client's.                                    *)

Idle(c) ==
    /\ sess[c].age = "idle" /\ sess[c].held = {}
    /\ reaping = {} /\ \A t \in Tokens : Live(t) => ops[t].client # c

Kept == {c \in known : ~Idle(c)}
KeptSess == [c \in Clients |-> IF c \in Kept THEN sess[c] ELSE NewSession]
MaySession(c) == c \in Kept \/ Cardinality(Kept) < MaxSessions

(* A request of client c arrives: process_mobile_inject_envelope or        *)
(* process_mobile_release_batch, to the end of begin_mobile_operation.     *)
Arrive(c, seq, todo) ==
    /\ mode = "serving" /\ MaySession(c)
    /\ known' = Kept \cup {c}
    /\ IF KeptSess[c].inFlight = 0 /\ seq > KeptSess[c].last
       THEN \E t \in Fresh(c) :
              /\ sess' = [KeptSess EXCEPT ![c].last = seq, ![c].age = "recent", ![c].inFlight = t]
              /\ ops' = [ops EXCEPT ![t] = Start(c, FALSE, todo)]
       ELSE sess' = KeptSess /\ UNCHANGED ops
    /\ UNCHANGED <<owners, reserved, world, control, history>>

Todos == {<<r>> : r \in Requests} \cup {[i \in DOMAIN Batch |-> Release(Batch[i])]}

(* The page polls the local controls, which refreshes the client.          *)
Refresh(c) ==
    /\ mode = "serving" /\ MaySession(c)
    /\ known' = Kept \cup {c}
    /\ sess' = [KeptSess EXCEPT ![c].age = "recent"]
    /\ UNCHANGED <<owners, reserved, ops, world, control, history>>

Grow(c) ==
    /\ c \in known
    /\ sess[c].age = "recent" \/ (sess[c].age = "lapsed" /\ sess[c].held = {})
    /\ sess' = [sess EXCEPT ![c].age = IF @ = "recent" THEN "lapsed" ELSE "idle"]
    /\ UNCHANGED <<known, owners, reserved, ops, world, control, history>>

-----------------------------------------------------------------------------
(* The steps of an operation's task.  Each takes both locks.               *)

Owned(t) == LET o == ops[t] IN sess[o.client].inFlight = t
Reserved(t) == Owned(t) /\ t \in reserved

(* mobile_release_is_noop: not an owner, or not the last one.              *)
NoopRelease(c, r) == ~r.pressed /\ owners[r.control] # {c}

Queued == {queue[i].request.control : i \in DOMAIN queue}

(* The last owner's release is under way when another owner leaves: noop   *)
(* though it is, it may be the one that had to be submitted.               *)
ReleaseUnderWay(d, k) ==
    \E u \in Tokens : /\ ops[u].at \in {"await", "finish"} /\ ops[u].client = d
                       /\ Head(ops[u].todo) = Release(k) /\ Reserved(u)
Crosses(c, r) ==
    /\ ~r.pressed /\ c \in owners[r.control] /\ r.control \in down \cup Queued
    /\ \A d \in owners[r.control] \ {c} : ReleaseUnderWay(d, r.control)

HasRoomFor(c, r) ==
    r.pressed /\ r.control \notin sess[c].held => Cardinality(sess[c].held) < MaxHeld

(* apply_mobile_held_transition and apply_mobile_ownership_transition.     *)
\* Mutant: a release stays in the session's ledger.
HoldOnly(c, r) == [sess EXCEPT ![c].held = IF r.pressed THEN @ \cup {r.control} ELSE @]
Hold(c, r) == [sess EXCEPT ![c].held = IF r.pressed THEN @ \cup {r.control} ELSE @ \ {r.control}]
Own(c, r) == [owners EXCEPT ![r.control] = IF r.pressed THEN @ \cup {c} ELSE @ \ {c}]

(* The request in progress is over: on to the next, or to the end.         *)
Advance(t) ==
    [ops EXCEPT ![t] = Start(ops[t].client, ops[t].lease, Tail(ops[t].todo))]
(* An error ends a client's operation; a lease release goes on.            *)
Fail(t) ==
    IF ops[t].lease THEN Advance(t)
    ELSE [ops EXCEPT ![t] = Start(ops[t].client, FALSE, <<>>)]

Reserve(t) ==
    /\ ops[t].at = "reserve"
    /\ LET c == ops[t].client
           r == Head(ops[t].todo)
       IN \/ /\ ~Owned(t) \/ ~HasRoomFor(c, r)
             /\ ops' = Fail(t)
             /\ UNCHANGED <<ledgers, crossed>>
          \/ /\ Owned(t) /\ HasRoomFor(c, r) /\ NoopRelease(c, r)
             /\ sess' = Hold(c, r) /\ owners' = Own(c, r)
             /\ crossed' = IF Crosses(c, r) THEN crossed \cup {r.control} ELSE crossed
             /\ ops' = Advance(t)
             /\ UNCHANGED <<known, reserved>>
          \/ /\ Owned(t) /\ HasRoomFor(c, r) /\ ~NoopRelease(c, r)
             /\ reserved' = reserved \cup {t}
             /\ IF r.pressed THEN sess' = Hold(c, r) /\ owners' = Own(c, r)
                             ELSE UNCHANGED <<sess, owners>>
             /\ ops' = [ops EXCEPT ![t].at = "submit",
                                   ![t].newHeld = r.pressed /\ r.control \notin sess[c].held,
                                   ![t].newOwner = r.pressed /\ c \notin owners[r.control]]
             /\ UNCHANGED <<known, crossed>>
    /\ UNCHANGED <<world, control, excused>>

(* The guard of submit_reserved_mobile_injection, and the first poll of    *)
(* the injection, which enqueues it or finds the queue full.               *)
\* Mutant: an operation that was taken over submits all the same.
MaySubmitAnyway(t) == TRUE
MaySubmit(t) == Reserved(t)

QueueTakes == Len(queue) < QueueCap

Submit(t) ==
    /\ ops[t].at = "submit"
    /\ \/ /\ ~MaySubmit(t)
          /\ ops' = Fail(t)
          /\ UNCHANGED queue
       \/ /\ MaySubmit(t) /\ QueueTakes
          /\ queue' = Append(queue, [token |-> t, request |-> Head(ops[t].todo)])
          /\ ops' = [ops EXCEPT ![t].at = "await"]
       \/ /\ MaySubmit(t) /\ ~QueueTakes
          /\ ops' = [ops EXCEPT ![t].at = "finish", ![t].accepted = FALSE]
          /\ UNCHANGED queue
    /\ UNCHANGED <<ledgers, down, control, history>>

(* finish_mobile_request.  A refused press takes back what its reservation *)
(* introduced; an operation that was taken over changes nothing.           *)
\* Mutant: a refused press stays in the owners' ledger.
UndoHeldOnly(t, r) ==
    /\ sess' = IF ops[t].newHeld THEN Hold(ops[t].client, Release(r.control)) ELSE sess
    /\ UNCHANGED owners
Undo(t, r) ==
    LET c == ops[t].client IN
    /\ sess' = IF ops[t].newHeld THEN Hold(c, Release(r.control)) ELSE sess
    /\ owners' = IF ops[t].newOwner THEN Own(c, Release(r.control)) ELSE owners
MayFinish(t) == Reserved(t)

Finish(t) ==
    /\ ops[t].at = "finish"
    /\ ops' = Advance(t)
    /\ LET r == Head(ops[t].todo) IN
       IF ~MayFinish(t) THEN UNCHANGED ledgers
       ELSE /\ reserved' = reserved \ {t}
            /\ IF ops[t].accepted
               THEN sess' = Hold(ops[t].client, r) /\ owners' = Own(ops[t].client, r)
               ELSE Undo(t, r)
            /\ UNCHANGED known
    /\ excused' = excused \cup
          {k \in down \cup Queued : /\ k = Head(ops[t].todo).control
                                   /\ ~ops[t].accepted
                                   /\ (ops[t].newOwner \/ mode = "stopping")}
    /\ UNCHANGED <<world, control, crossed>>

(* end_mobile_operation; the reaper or the shutdown then joins the task.   *)
ClearFlight(t) ==
    LET c == ops[t].client IN IF Owned(t) THEN [sess EXCEPT ![c].inFlight = 0] ELSE sess

End(t) ==
    /\ ops[t].at = "end"
    /\ reserved' = reserved \ {t}
    /\ sess' = ClearFlight(t)
    /\ ops' = [ops EXCEPT ![t] = NoOp]
    /\ reaping' = IF ops[t].lease THEN reaping \ {ops[t].client} ELSE reaping
    /\ toStop' = IF ops[t].lease /\ mode = "stopping" THEN toStop \ {ops[t].client} ELSE toStop
    /\ UNCHANGED <<known, owners, mode, world, history>>

-----------------------------------------------------------------------------
(* The reaper's tick: a release task for every client whose lease has run  *)
(* out while it holds something.  The tick ends when all have ended.       *)

Expired(c) == c \in known /\ sess[c].age # "recent" /\ sess[c].held # {}

ReapTick ==
    /\ mode = "serving" /\ reaping = {}
    /\ reaping' = {c \in Clients : Expired(c)}
    /\ known' = Kept /\ sess' = KeptSess
    /\ UNCHANGED <<owners, reserved, ops, world, mode, toStop, history>>

(* release_held_inputs, to the loss of the previous reservation.           *)
Orders(S) == {s \in [1..Cardinality(S) -> S] : \A k \in S : \E i \in DOMAIN s : s[i] = k}
LeaseRelease(c, order) == Start(c, TRUE, [i \in DOMAIN order |-> Release(order[i])])

TakeOver(c) ==
    \E t \in Fresh(c), order \in Orders(sess[c].held) :
       /\ sess' = [sess EXCEPT ![c].inFlight = t]
       /\ reserved' = reserved \ {sess[c].inFlight}
       /\ ops' = [ops EXCEPT ![t] = LeaseRelease(c, order)]
       /\ UNCHANGED <<known, owners, world, control, history>>

Releasing(c) == \E t \in Tokens : Live(t) /\ ops[t].client = c /\ ops[t].lease

ReapClient(c) == c \in reaping /\ mode = "serving" /\ ~Releasing(c) /\ TakeOver(c)

-----------------------------------------------------------------------------
(* The worker of the injection actor takes the queue in order.  A failed   *)
(* call makes it release everything it has down, itself as best it can.    *)

Answer(t, ok) ==
    IF t # 0 /\ ops[t].at = "await" THEN [ops EXCEPT ![t].at = "finish", ![t].accepted = ok] ELSE ops

WorkOk ==
    /\ queue # <<>>
    /\ LET e == Head(queue) IN
       /\ down' = IF e.request.pressed THEN down \cup {e.request.control} ELSE down \ {e.request.control}
       /\ ops' = Answer(e.token, TRUE)
    /\ queue' = Tail(queue)
    /\ excused' = excused \cap (down' \cup Queued')
    /\ crossed' = crossed \cap (down' \cup Queued')
    /\ UNCHANGED <<ledgers, control>>

WorkFail ==
    /\ queue # <<>>
    /\ down' \in SUBSET down
    /\ ops' = Answer(Head(queue).token, FALSE)
    /\ queue' = Tail(queue)
    /\ excused' = excused \cap (down' \cup Queued')
    /\ crossed' = crossed \cap (down' \cup Queued')
    /\ UNCHANGED <<ledgers, control>>

-----------------------------------------------------------------------------
(* Shutdown: every task is aborted where it stands, and then each client's *)
(* controls are released, one client after the other.                      *)

\* Mutant: what the reaper was about to release is left to it.
AllButReaped == known \ reaping
ToStop == known
Shutdown ==
    /\ mode = "serving"
    /\ mode' = "stopping"
    /\ toStop' = ToStop
    /\ ops' = [t \in Tokens |-> NoOp]
    /\ queue' = [i \in DOMAIN queue |-> [queue[i] EXCEPT !.token = 0]]  \* nobody waits
    /\ reaping' = {}
    /\ UNCHANGED <<ledgers, down, history>>

StopClient(c) ==
    /\ mode = "stopping" /\ c \in toStop
    /\ \A t \in Tokens : ~Live(t)
    /\ TakeOver(c)

Stopped ==
    /\ mode = "stopping" /\ toStop = {}
    /\ mode' = "stopped"
    /\ UNCHANGED <<ledgers, ops, world, reaping, toStop, history>>

-----------------------------------------------------------------------------
Init ==
    /\ known = {} /\ sess = [c \in Clients |-> NewSession]
    /\ owners = [k \in Controls |-> {}] /\ reserved = {}
    /\ ops = [t \in Tokens |-> NoOp]
    /\ reaping = {} /\ queue = <<>> /\ down = {}
    /\ mode = "serving" /\ toStop = {} /\ excused = {} /\ crossed = {}

Task(t) == Reserve(t) \/ Submit(t) \/ Finish(t) \/ End(t)
ClientStep(c) ==
    \/ \E seq \in 1..MaxSeq[c], todo \in Todos : Arrive(c, seq, todo)
    \/ Refresh(c)
    \/ Grow(c)

Next ==
    \/ \E c \in Clients : ClientStep(c) \/ ReapClient(c) \/ StopClient(c)
    \/ \E t \in Tokens : Task(t)
    \/ ReapTick \/ WorkOk \/ WorkFail \/ Shutdown \/ Stopped

Spec == Init /\ [][Next]_vars

(* The runtime keeps scheduling its tasks, the reaper's timer keeps        *)
(* ticking, the worker keeps working; and a client's lease that is tried   *)
(* again and again eventually finds room in the queue, and a backend that  *)
(* releases the control.                                                   *)
SubmitForLease(c) == \E t \in Tokens : Live(t) /\ ops[t].lease /\ ops[t].client = c /\ QueueTakes /\ Submit(t)
WorkForLease(c) ==
    /\ queue # <<>>
    /\ LET t == Head(queue).token IN t # 0 /\ ops[t].at = "await" /\ ops[t].lease /\ ops[t].client = c
    /\ WorkOk

Fairness ==
    /\ \A t \in Tokens : WF_vars(Task(t))
    /\ \A c \in Clients : WF_vars(ReapClient(c)) /\ WF_vars(StopClient(c)) /\ SF_vars(SubmitForLease(c)) /\ SF_vars(WorkForLease(c))
    /\ WF_vars(ReapTick) /\ WF_vars(WorkOk \/ WorkFail) /\ WF_vars(Stopped)

FairSpec == Spec /\ Fairness

-----------------------------------------------------------------------------
(* Properties.                                                             *)

(* No stuck control: what is down has an owner, who can release it and     *)
(* whose lease runs out - through shared ownership, refused presses,       *)
(* take-overs and answers that come too late.  Two things are excepted:    *)
(* what the gateway itself gave up on, and what crossed (below).           *)
DownIsOwned == \A k \in down : owners[k] # {} \/ k \in excused \cup crossed

LedgersAgree == \A c \in Clients, k \in Controls : k \in sess[c].held <=> c \in owners[k]
InFlightIsLive ==
    mode = "serving" => \A c \in Clients : sess[c].inFlight # 0 =>
                            Live(sess[c].inFlight) /\ ops[sess[c].inFlight].client = c

(* Every variable has its type, and a session agrees with what it stands   *)
(* for.  The two ledgers, changed in four places under two locks, agree on *)
(* who holds what: the reaper looks at the sessions, a release at the      *)
(* owners.  And a client is refused while an operation is in flight, so    *)
(* that operation's task still runs, or the client would be locked out.    *)
SessionsAgree == MobileTypeOK /\ LedgersAgree /\ InFlightIsLive

(* When the gateway has shut down nothing a client pressed is down or will *)
(* be, though tasks were aborted in the middle, their events still queued. *)
StoppedClear ==
    mode = "stopped" =>
        down \cup Queued \subseteq excused \cup crossed

(* A client that stays silent loses what it holds, while the gateway runs. *)
SilentReleased ==
    \A c \in Clients : Expired(c) ~>
        (sess[c].held = {} \/ sess[c].age = "recent" \/ mode # "serving")

(* What the test key_and_mouse_release_reach_backend_only_for_the_last_    *)
(* owner says: the release of one client does not take a control from      *)
(* another that has pressed it and has no request in progress.             *)
ReleasedByLastOwner ==
    [][\A k \in down \ down', t \in Tokens :
          queue # <<>> /\ Head(queue) = [token |-> t, request |-> Release(k)] /\ Live(t) =>
             \A c \in owners[k] \ {ops[t].client} : sess[c].inFlight # 0]_vars

(* What the same test says of the last owner's own release, that it        *)
(* reaches the backend, and lease_reaper_keeps_shared_key_pressed_until_   *)
(* last_owner_expires of its lease.  A release that finds another owner is *)
(* a noop although that owner's own release was submitted before, perhaps  *)
(* ahead of the later owner's press: the control then stays down with      *)
(* nobody left to release it.                                              *)
DownStaysOwned == \A k \in down : owners[k] # {} \/ k \in excused
=============================================================================
