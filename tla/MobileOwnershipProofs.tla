----------------------- MODULE MobileOwnershipProofs -----------------------
(***************************************************************************)
(* Theorems about MobileOwnership, for any clients, controls, tokens and   *)
(* bounds: the two ledgers agree (SessionsAgree), what is down has an      *)
(* owner (DownIsOwned) and the shutdown leaves nothing down that the       *)
(* gateway did not give up on (StoppedClear).                              *)
(*                                                                         *)
(* The inductive invariant has four parts.  Base: types, ledgers that      *)
(* agree, tasks that belong to their clients, and every request in         *)
(* progress that will inject has its client among the owners.  QueueInv:   *)
(* a queued event has one task that waits for it.  OwnersInv: of a control *)
(* with a single owner whose release is under way, that release is the     *)
(* last event of the queue, so nothing is left when the owner goes.        *)
(* StopInv: while the gateway stops, the one task that runs is a lease     *)
(* that still has before it whatever its client holds.                     *)
(*                                                                         *)
(* Every action is first shown to be one of a few kinds of steps (Visits,  *)
(* Begins, Abandons, Leaves, ...), and each part of the invariant is then  *)
(* carried over those kinds.                                               *)
(***************************************************************************)
EXTENDS MobileOwnership, FiniteSetTheorems, SequenceTheorems, TLAPS

-----------------------------------------------------------------------------
(* The inductive invariant.                                                *)

(* An operation is its client's, has a request exactly until it ends, and  *)
(* undoes only a press; a lease only releases.                             *)
OpOK(t) ==
    LET o == ops[t] IN
    /\ t \in TokensOf[o.client]
    /\ o.at = "end" <=> o.todo = <<>>
    /\ o.newHeld = o.newOwner
    /\ o.newOwner => o.todo # <<>> /\ Head(o.todo).pressed
    /\ o.lease => \A i \in DOMAIN o.todo : ~o.todo[i].pressed

OpsInv ==
    /\ \A t \in Tokens : Live(t) => OpOK(t)
    /\ \A c \in Clients : sess[c].inFlight \in TokensOf[c] \cup {0}

(* A queued event answers the request its operation waits with, once.      *)
QueueInv ==
    \A i \in DOMAIN queue : queue[i].token # 0 =>
       /\ ops[queue[i].token].at = "await"
       /\ queue[i].request = Head(ops[queue[i].token].todo)
       /\ \A j \in DOMAIN queue : queue[j].token = queue[i].token => j = i

(* The release of a control by its only owner.                             *)
Injects(t) == ops[t].at \in {"submit", "await", "finish"} /\ Reserved(t)
Subject(t) == Head(ops[t].todo).control
Releases(t, k) == Injects(t) /\ Head(ops[t].todo) = Release(k)
Waived == excused \cup crossed
Active == down \cup Queued

InjectorOwns == \A t \in Tokens : Injects(t) => ops[t].client \in owners[Subject(t)]

OneReleases ==
    \A t, u \in Tokens, k \in Controls : Releases(t, k) /\ Releases(u, k) => t = u

LastIsLast ==
    \A t \in Tokens, k \in Controls \ Waived :
       Releases(t, k) /\ owners[k] = {ops[t].client} =>
          /\ ops[t].at = "await" =>
                \A i \in DOMAIN queue : queue[i].request.control = k =>
                   \E j \in i..Len(queue) : queue[j].token = t
          /\ ops[t].at = "finish" /\ ops[t].accepted => k \notin Active

NoneActive == \A k \in Controls \ Waived : owners[k] = {} => k \notin Active

OwnersInv == OneReleases /\ LastIsLast /\ NoneActive

(* While the gateway stops, a task is a lease that nothing takes over, of  *)
(* the client that is being released.                                      *)
StopTasks ==
    \A t \in Tokens : Live(t) =>
       /\ ops[t].lease /\ Owned(t) /\ ops[t].client \in toStop
       /\ ops[t].at \in {"submit", "await", "finish"} => t \in reserved
       /\ ops[t].at = "submit" => owners[Subject(t)] \subseteq {ops[t].client}
       /\ \A u \in Tokens : Live(u) => u = t

Remains(c, k) == c \in owners[k] /\ k \in Active \ Waived

StopRest ==
    /\ \A c \in Clients \ toStop, k \in Controls : ~Remains(c, k)
    /\ \A t \in Tokens, c \in Clients, k \in Controls :
          Live(t) /\ ops[t].client = c /\ Remains(c, k) =>
             \E i \in DOMAIN ops[t].todo : ops[t].todo[i].control = k

StopInv ==
    /\ mode # "serving" => StopTasks /\ StopRest
    /\ mode = "stopped" => toStop = {}

-----------------------------------------------------------------------------
(* Types.                                                                  *)

Queue == Seq([token : Tokens \cup {0}, request : Requests])

Types ==
    /\ known \subseteq Clients
    /\ sess \in [Clients -> Sessions]
    /\ owners \in [Controls -> SUBSET Clients]
    /\ reserved \subseteq Tokens
    /\ ops \in [Tokens -> Ops \cup {NoOp}]
    /\ queue \in Queue
    /\ down \subseteq Controls /\ toStop \subseteq Clients
    /\ excused \subseteq Controls /\ crossed \subseteq Controls

LEMMA TokenFacts ==
    /\ Tokens \subseteq Nat \ {0}
    /\ \A c \in Clients : TokensOf[c] \subseteq Tokens
    /\ \A c, d \in Clients : TokensOf[c] \cap TokensOf[d] # {} => c = d
BY MobileAssumption DEF Tokens

(* An operation that starts.                                               *)
LEMMA StartFacts ==
    ASSUME NEW c \in Clients, NEW l \in BOOLEAN, NEW todo \in Seq(Requests)
    PROVE  LET o == Start(c, l, todo) IN
           /\ o \in Ops
           /\ o.client = c /\ o.lease = l /\ o.todo = todo
           /\ o.at = IF todo = <<>> THEN "end" ELSE "reserve"
           /\ ~o.newHeld /\ ~o.newOwner
BY DEF Start, Ops, Stages

(* A live operation's fields.                                              *)
LEMMA LiveFacts ==
    ASSUME Types, NEW t \in Tokens, Live(t)
    PROVE  /\ ops[t] \in Ops
           /\ ops[t].client \in Clients /\ ops[t].lease \in BOOLEAN
           /\ ops[t].at \in Stages /\ ops[t].todo \in Seq(Requests)
           /\ ops[t].newHeld \in BOOLEAN /\ ops[t].newOwner \in BOOLEAN
           /\ ops[t].accepted \in BOOLEAN
<1>1. ops[t] \in Ops \cup {NoOp}
  BY DEF Types
<1>2. ops[t] \in Ops
  BY <1>1 DEF Live, NoOp
<1> QED
  BY <1>2 DEF Ops

LEMMA SessionFacts ==
    ASSUME Types, NEW c \in Clients
    PROVE  /\ sess[c] \in Sessions
           /\ sess[c].last \in Nat /\ sess[c].inFlight \in Tokens \cup {0}
           /\ sess[c].held \subseteq Controls /\ sess[c].age \in Ages
BY DEF Types, Sessions

LEMMA SmallSets ==
    ASSUME Types, NEW c \in Clients
    PROVE  IsFiniteSet(sess[c].held) /\ Cardinality(sess[c].held) \in Nat
<1>1. IsFiniteSet(Controls) /\ sess[c].held \subseteq Controls
  BY MobileAssumption, SessionFacts
<1> QED
  BY <1>1, FS_Subset, FS_CardinalityType

(* What Hold and Own change.                                               *)
LEMMA HoldFacts ==
    ASSUME Types, NEW c \in Clients, NEW r \in Requests
    PROVE  /\ Hold(c, r) \in [Clients -> Sessions]
           /\ \A d \in Clients \ {c} : Hold(c, r)[d] = sess[d]
           /\ Hold(c, r)[c].last = sess[c].last /\ Hold(c, r)[c].inFlight = sess[c].inFlight
           /\ Hold(c, r)[c].age = sess[c].age
           /\ Hold(c, r)[c].held = IF r.pressed THEN sess[c].held \cup {r.control}
                                                ELSE sess[c].held \ {r.control}
<1>1. r.control \in Controls
  BY DEF Requests
<1>2. sess \in [Clients -> Sessions] /\ sess[c] \in Sessions
  BY DEF Types
<1> QED
  BY <1>1, <1>2 DEF Hold, Sessions

LEMMA OwnFacts ==
    ASSUME Types, NEW c \in Clients, NEW r \in Requests
    PROVE  /\ Own(c, r) \in [Controls -> SUBSET Clients]
           /\ \A k \in Controls \ {r.control} : Own(c, r)[k] = owners[k]
           /\ r.control \in Controls
           /\ Own(c, r)[r.control] = IF r.pressed THEN owners[r.control] \cup {c}
                                                  ELSE owners[r.control] \ {c}
<1>1. r.control \in Controls
  BY DEF Requests
<1>2. owners \in [Controls -> SUBSET Clients]
  BY DEF Types
<1> QED
  BY <1>1, <1>2 DEF Own

(* The request an operation is at.                                         *)
LEMMA HeadFacts ==
    ASSUME Types, OpsInv, NEW t \in Tokens, Live(t), ops[t].at # "end"
    PROVE  /\ ops[t].todo # <<>>
           /\ Head(ops[t].todo) \in Requests /\ Subject(t) \in Controls
           /\ Head(ops[t].todo) = ops[t].todo[1] /\ 1 \in DOMAIN ops[t].todo
           /\ Tail(ops[t].todo) \in Seq(Requests)
           /\ ops[t].lease => ~Head(ops[t].todo).pressed
<1>1. ops[t].todo \in Seq(Requests)
  BY LiveFacts
<1>2. ops[t].todo # <<>>
  BY DEF OpsInv, OpOK
<1>3. /\ Head(ops[t].todo) \in Requests /\ Tail(ops[t].todo) \in Seq(Requests)
      /\ Head(ops[t].todo) = ops[t].todo[1] /\ 1 \in DOMAIN ops[t].todo
  BY <1>1, <1>2
<1>4. ops[t].lease => ~ops[t].todo[1].pressed
  BY <1>3 DEF OpsInv, OpOK
<1> QED
  BY <1>2, <1>3, <1>4 DEF Subject, Requests

-----------------------------------------------------------------------------
(* What a step may do to the sessions and the tasks.                       *)

SessionsOK ==
    \A c \in Clients :
       /\ c \notin known => sess[c] = NewSession
       /\ Cardinality(sess[c].held) <= MaxHeld /\ sess[c].last <= MaxSeq[c]

Registered ==
    /\ reaping \subseteq known /\ toStop \subseteq known
    /\ mode = "serving" => toStop = {}

Quiet(c) == \A t \in Tokens : Live(t) => ops[t].client # c

\* A session keeps what is held, and its operation unless it was dropped.
Keeps(c) ==
    /\ sess'[c].held = sess[c].held
    /\ \/ sess'[c].inFlight = sess[c].inFlight
       \/ Quiet(c) /\ sess'[c].inFlight = 0

\* Only sessions change, of their ages and sequences.
Visits ==
    /\ known' \subseteq Clients /\ sess' \in [Clients -> Sessions]
    /\ SessionsOK' /\ Registered'
    /\ \A c \in Clients : Keeps(c)
    /\ UNCHANGED <<owners, reserved, ops, queue, down, mode, toStop, excused, crossed>>

\* Operation t of client c starts: a request, or a lease in c's place.
Covers(todo, held) ==
    /\ \A i \in DOMAIN todo : ~todo[i].pressed
    /\ \A k \in held : \E i \in DOMAIN todo : todo[i].control = k

Begins(c, t, lease, todo) ==
    /\ t \in TokensOf[c] /\ ~InUse(t)
    /\ todo \in Seq(Requests) /\ ops' = [ops EXCEPT ![t] = Start(c, lease, todo)]
    /\ IF lease THEN Covers(todo, sess[c].held) ELSE mode = "serving"
    /\ mode # "serving" => c \in toStop /\ \A u \in Tokens : ~Live(u)
    /\ mode \in {"serving", "stopping"}
    /\ known' \subseteq Clients /\ sess' \in [Clients -> Sessions]
    /\ SessionsOK' /\ Registered'
    /\ sess'[c].inFlight = t /\ sess'[c].held = sess[c].held
    /\ \A d \in Clients \ {c} : Keeps(d)
    /\ reserved' \subseteq reserved
    /\ UNCHANGED <<owners, queue, down, reaping, mode, toStop, excused, crossed>>

LEMMA NewSessionFacts ==
    /\ NewSession \in Sessions /\ NewSession.held = {} /\ NewSession.inFlight = 0
    /\ NewSession.last = 0 /\ NewSession.age = "recent"
BY DEF NewSession, Sessions, Ages

LEMMA KeptFacts ==
    ASSUME Types, SessionsOK, NEW c \in Clients
    PROVE  /\ Kept \subseteq Clients /\ KeptSess \in [Clients -> Sessions]
           /\ KeptSess[c].held = sess[c].held
           /\ KeptSess[c].inFlight = sess[c].inFlight \/ (Quiet(c) /\ KeptSess[c].inFlight = 0)
           /\ c \notin Kept => KeptSess[c] = NewSession
           /\ Cardinality(KeptSess[c].held) <= MaxHeld /\ KeptSess[c].last <= MaxSeq[c]
<1>1. Kept \subseteq Clients /\ KeptSess \in [Clients -> Sessions]
  BY NewSessionFacts DEF Types, Kept, KeptSess
<1>2. KeptSess[c] = IF c \in Kept THEN sess[c] ELSE NewSession
  BY DEF KeptSess
<1>3. Cardinality(sess[c].held) <= MaxHeld /\ sess[c].last <= MaxSeq[c]
  BY DEF SessionsOK
<1>4. CASE c \in Kept
  BY <1>1, <1>2, <1>3, <1>4
<1>5. CASE c \notin Kept
  <2>1. sess[c].held = {} /\ (Quiet(c) \/ sess[c].inFlight = 0)
    <3>1. CASE c \in known
      BY <3>1, <1>5 DEF Kept, Idle, Quiet
    <3>2. CASE c \notin known
      BY <3>2, NewSessionFacts DEF SessionsOK
    <3> QED BY <3>1, <3>2
  <2>2. KeptSess[c].held = {} /\ KeptSess[c].inFlight = 0 /\ KeptSess[c].last = 0
    BY <1>2, <1>5, NewSessionFacts
  <2>3. 0 <= MaxSeq[c]
    BY MobileAssumption
  <2> QED
    BY <1>1, <1>2, <1>3, <1>5, <2>1, <2>2, <2>3
<1> QED
  BY <1>4, <1>5

LEMMA KeptReaping ==
    ASSUME Registered PROVE reaping \subseteq Kept
BY DEF Registered, Kept, Idle

LEMMA RefreshStep ==
    ASSUME Types, SessionsOK, Registered, NEW c \in Clients, Refresh(c)
    PROVE  Visits
<1>1. sess' = [KeptSess EXCEPT ![c].age = "recent"] /\ known' = Kept \cup {c}
  BY DEF Refresh
<1>2. KeptSess \in [Clients -> Sessions] /\ Kept \subseteq Clients
  BY KeptFacts
<1>3. /\ sess' \in [Clients -> Sessions]
      /\ \A d \in Clients \ {c} : sess'[d] = KeptSess[d]
      /\ sess'[c].held = KeptSess[c].held /\ sess'[c].inFlight = KeptSess[c].inFlight
      /\ sess'[c].last = KeptSess[c].last
  BY <1>1, <1>2 DEF Sessions, Ages
<1>4. SessionsOK'
  <2> SUFFICES ASSUME NEW d \in Clients
      PROVE /\ d \notin known' => sess'[d] = NewSession
            /\ Cardinality(sess'[d].held) <= MaxHeld /\ sess'[d].last <= MaxSeq[d]
    BY DEF SessionsOK
  <2> QED BY <1>1, <1>3, KeptFacts
<1>5. \A d \in Clients : Keeps(d)
  BY <1>3, KeptFacts DEF Keeps
<1> QED
  BY <1>1, <1>2, <1>3, <1>4, <1>5, KeptReaping DEF Refresh, Visits, Registered, world, control, history

LEMMA GrowStep ==
    ASSUME Types, SessionsOK, Registered, NEW c \in Clients, Grow(c)
    PROVE  Visits
<1>1. c \in known /\ known' = known
  BY DEF Grow
<1>2. /\ sess' \in [Clients -> Sessions]
      /\ \A d \in Clients \ {c} : sess'[d] = sess[d]
      /\ sess'[c].held = sess[c].held /\ sess'[c].inFlight = sess[c].inFlight
      /\ sess'[c].last = sess[c].last
  BY DEF Grow, Types, Sessions, Ages
<1>3. SessionsOK'
  BY <1>1, <1>2 DEF SessionsOK
<1>4. \A d \in Clients : Keeps(d)
  BY <1>2 DEF Keeps
<1> QED
  BY <1>1, <1>2, <1>3, <1>4 DEF Types, Grow, Visits, Registered, world, control, history

LEMMA ReapTickStep ==
    ASSUME Types, SessionsOK, Registered, ReapTick
    PROVE  Visits
<1>1. sess' = KeptSess /\ known' = Kept
  BY DEF ReapTick
<1>2. Kept \subseteq Clients /\ sess' \in [Clients -> Sessions]
  <2>1. CASE Clients = {}
    BY <2>1, NewSessionFacts, <1>1 DEF Types, Kept, KeptSess
  <2>2. CASE Clients # {}
    BY <2>2, <1>1, KeptFacts
  <2> QED BY <2>1, <2>2
<1>3. SessionsOK' /\ \A d \in Clients : Keeps(d)
  BY <1>1, KeptFacts DEF SessionsOK, Keeps
<1>4. Registered'
  <2>1. reaping' = {c \in Clients : Expired(c)}
    BY DEF ReapTick
  <2>2. \A c \in Clients : Expired(c) => c \in Kept
    BY DEF Expired, Kept, Idle
  <2> QED
    BY <1>1, <2>1, <2>2 DEF Registered, ReapTick
<1> QED
  BY <1>1, <1>2, <1>3, <1>4 DEF ReapTick, Visits, world, history

LEMMA ArriveStep ==
    ASSUME Types, SessionsOK, Registered, NEW c \in Clients,
           NEW seq \in 1..MaxSeq[c], NEW todo \in Todos, Arrive(c, seq, todo)
    PROVE  Visits \/ \E t \in Tokens : Begins(c, t, FALSE, todo)
<1>1. known' = Kept \cup {c} /\ mode = "serving"
  BY DEF Arrive
<1>2. KeptSess \in [Clients -> Sessions] /\ Kept \subseteq Clients
  BY KeptFacts
<1>3. MaxSeq[c] \in Nat /\ seq \in Nat
  BY MobileAssumption
<1>4. CASE KeptSess[c].inFlight = 0 /\ seq > KeptSess[c].last
  <2>1. PICK t \in Fresh(c) :
          /\ sess' = [KeptSess EXCEPT ![c].last = seq, ![c].age = "recent", ![c].inFlight = t]
          /\ ops' = [ops EXCEPT ![t] = Start(c, FALSE, todo)]
    BY <1>4 DEF Arrive
  <2>2. t \in TokensOf[c] /\ t \in Tokens /\ ~InUse(t)
    BY TokenFacts DEF Fresh
  <2>3. /\ sess' \in [Clients -> Sessions]
        /\ \A d \in Clients \ {c} : sess'[d] = KeptSess[d]
        /\ sess'[c].held = KeptSess[c].held /\ sess'[c].inFlight = t
        /\ sess'[c].last = seq
    <3>1. KeptSess[c] \in Sessions
      BY <1>2
    <3>2. sess'[c] = [KeptSess[c] EXCEPT !.last = seq, !.age = "recent", !.inFlight = t]
      BY <1>2, <2>1
    <3>3. sess'[c] \in Sessions /\ sess'[c].held = KeptSess[c].held
          /\ sess'[c].inFlight = t /\ sess'[c].last = seq
      BY <3>1, <3>2, <1>3, <2>2 DEF Sessions, Ages
    <3> QED BY <1>2, <2>1, <3>3
  <2>4. SessionsOK'
    <3> SUFFICES ASSUME NEW d \in Clients
        PROVE /\ d \notin known' => sess'[d] = NewSession
              /\ Cardinality(sess'[d].held) <= MaxHeld /\ sess'[d].last <= MaxSeq[d]
      BY DEF SessionsOK
    <3> QED BY <1>1, <1>3, <2>3, KeptFacts
  <2>5. \A d \in Clients \ {c} : Keeps(d)
    BY <2>3, KeptFacts DEF Keeps
  <2>6. sess'[c].held = sess[c].held
    BY <2>3, KeptFacts
  <2>7. todo \in Seq(Requests)
    <3>1. CASE todo \in {<<r>> : r \in Requests}
      <4>1. PICK r \in Requests : todo = <<r>>
        BY <3>1
      <4> QED BY <4>1
    <3>2. CASE todo = [i \in DOMAIN Batch |-> Release(Batch[i])]
      <4>1. PICK n \in Nat : Batch \in [1..n -> Controls]
        BY MobileAssumption
      <4>2. DOMAIN Batch = 1..n
        BY <4>1
      <4>3. \A i \in 1..n : Release(Batch[i]) \in Requests
        BY <4>1 DEF Requests, Release
      <4>4. todo \in [1..n -> Requests]
        BY <3>2, <4>2, <4>3
      <4> QED BY <4>1, <4>4
    <3> QED BY <3>1, <3>2 DEF Todos
  <2>8. /\ UNCHANGED <<owners, reserved, queue, down, reaping, mode, toStop, excused, crossed>>
        /\ Registered'
    BY <1>1, KeptReaping DEF Arrive, world, control, history, Registered
  <2>9. Begins(c, t, FALSE, todo)
    BY <1>1, <1>2, <2>1, <2>2, <2>3, <2>4, <2>5, <2>6, <2>7, <2>8 DEF Begins
  <2> QED BY <2>2, <2>9
<1>5. CASE ~(KeptSess[c].inFlight = 0 /\ seq > KeptSess[c].last)
  <2>1. sess' = KeptSess /\ ops' = ops
    BY <1>5 DEF Arrive
  <2>2. SessionsOK' /\ \A d \in Clients : Keeps(d)
    BY <1>1, <2>1, KeptFacts DEF SessionsOK, Keeps
  <2> QED
    BY <1>1, <1>2, <2>1, <2>2, KeptReaping DEF Arrive, Visits, Registered, world, control, history
<1> QED
  BY <1>4, <1>5

LEMMA TakeOverStep ==
    ASSUME Types, SessionsOK, Registered, NEW c \in known, TakeOver(c),
           mode \in {"serving", "stopping"},
           mode # "serving" => c \in toStop /\ \A u \in Tokens : ~Live(u)
    PROVE  \E t \in Tokens, todo \in Seq(Requests) : Begins(c, t, TRUE, todo)
<1>0. c \in Clients
  BY DEF Types
<1>1. PICK t \in Fresh(c) : \E order \in Orders(sess[c].held) :
          /\ sess' = [sess EXCEPT ![c].inFlight = t]
          /\ reserved' = reserved \ {sess[c].inFlight}
          /\ ops' = [ops EXCEPT ![t] = LeaseRelease(c, order)]
          /\ UNCHANGED <<known, owners, world, control, history>>
  BY DEF TakeOver
<1>2. PICK order \in Orders(sess[c].held) :
          /\ sess' = [sess EXCEPT ![c].inFlight = t]
          /\ reserved' = reserved \ {sess[c].inFlight}
          /\ ops' = [ops EXCEPT ![t] = LeaseRelease(c, order)]
          /\ UNCHANGED <<known, owners, world, control, history>>
  BY <1>1
<1> DEFINE todo == [i \in DOMAIN order |-> Release(order[i])]
           size == Cardinality(sess[c].held)
<1>3. t \in TokensOf[c] /\ t \in Tokens /\ ~InUse(t)
  BY <1>0, TokenFacts DEF Fresh
<1>4. /\ size \in Nat /\ order \in [1..size -> sess[c].held]
      /\ \A k \in sess[c].held : \E i \in DOMAIN order : order[i] = k
  BY <1>0, SmallSets DEF Orders
<1>5. sess[c].held \subseteq Controls
  BY <1>0, SessionFacts
<1>6. todo \in Seq(Requests)
  <2>1. todo \in [1..size -> Requests]
    BY <1>4, <1>5 DEF Requests, Release
  <2> QED BY <1>4, <2>1
<1>7. Covers(todo, sess[c].held)
  <2>1. DOMAIN todo = DOMAIN order /\ \A i \in DOMAIN order : todo[i] = Release(order[i])
    OBVIOUS
  <2>2. \A i \in DOMAIN order : ~todo[i].pressed /\ todo[i].control = order[i]
    BY <2>1 DEF Release
  <2> QED BY <1>4, <2>1, <2>2 DEF Covers
<1>8. ops' = [ops EXCEPT ![t] = Start(c, TRUE, todo)]
  BY <1>2 DEF LeaseRelease
<1>9. /\ sess' \in [Clients -> Sessions]
      /\ \A d \in Clients \ {c} : sess'[d] = sess[d]
      /\ sess'[c].held = sess[c].held /\ sess'[c].inFlight = t
      /\ sess'[c].last = sess[c].last
  BY <1>2, <1>3 DEF Types, Sessions
<1>10. \A d \in Clients \ {c} : Keeps(d)
  BY <1>9 DEF Keeps
<1>11. SessionsOK' /\ Registered'
  BY <1>2, <1>9 DEF SessionsOK, Registered, control
<1>12. UNCHANGED <<owners, queue, down, reaping, mode, toStop, excused, crossed>>
  BY <1>2 DEF world, control, history
<1>13. known' \subseteq Clients /\ reserved' \subseteq reserved
  BY <1>2 DEF Types
<1>14. Begins(c, t, TRUE, todo)
  BY <1>0, <1>3, <1>6, <1>7, <1>8, <1>9, <1>10, <1>11, <1>12, <1>13 DEF Begins
<1> QED
  BY <1>3, <1>6, <1>14

-----------------------------------------------------------------------------
(* What a task's step does to its operation: it goes on to the next        *)
(* request or to its end, or takes the request in progress a step further. *)

MovesOn(t) ==
    /\ ops' \in [Tokens -> Ops \cup {NoOp}]
    /\ \A u \in Tokens \ {t} : ops'[u] = ops[u]
    /\ ops'[t] \in Ops
    /\ ops'[t].client = ops[t].client /\ ops'[t].lease = ops[t].lease
    /\ ops'[t].at \in {"end", "reserve"} /\ OpOK(t)'
    /\ ops[t].lease => ops'[t].todo = Tail(ops[t].todo)

GoesTo(t, at) ==
    /\ ops' \in [Tokens -> Ops \cup {NoOp}]
    /\ \A u \in Tokens \ {t} : ops'[u] = ops[u]
    /\ ops'[t] \in Ops
    /\ ops'[t].client = ops[t].client /\ ops'[t].lease = ops[t].lease
    /\ ops'[t].todo = ops[t].todo
    /\ ops'[t].at = at /\ OpOK(t)'

LEMMA TailFacts ==
    ASSUME NEW s \in Seq(Requests), s # <<>>
    PROVE  /\ Tail(s) \in Seq(Requests)
           /\ \A i \in DOMAIN Tail(s) : i + 1 \in DOMAIN s /\ Tail(s)[i] = s[i + 1]
           /\ \A i \in DOMAIN s : i # 1 => i - 1 \in DOMAIN Tail(s) /\ Tail(s)[i - 1] = s[i]
           /\ Head(s) = s[1] /\ 1 \in DOMAIN s
<1>1. Tail(s) \in Seq(Requests) /\ Len(Tail(s)) = Len(s) - 1
      /\ \A i \in 1..Len(Tail(s)) : Tail(s)[i] = s[i + 1]
  OBVIOUS
<1>2. DOMAIN s = 1..Len(s) /\ DOMAIN Tail(s) = 1..Len(Tail(s)) /\ Len(s) \in Nat \ {0}
  BY <1>1
<1> QED
  BY <1>1, <1>2

LEMMA StartOK ==
    ASSUME NEW c \in Clients, NEW t \in TokensOf[c], NEW l \in BOOLEAN,
           NEW todo \in Seq(Requests), ops'[t] = Start(c, l, todo),
           l => \A i \in DOMAIN todo : ~todo[i].pressed
    PROVE  OpOK(t)'
<1>1. /\ ops'[t].client = c /\ ops'[t].lease = l /\ ops'[t].todo = todo
      /\ ops'[t].at = IF todo = <<>> THEN "end" ELSE "reserve"
      /\ ops'[t].newHeld = FALSE /\ ops'[t].newOwner = FALSE
  BY DEF Start
<1> QED
  BY <1>1 DEF OpOK

LEMMA MoveFacts ==
    ASSUME Types, OpsInv, NEW t \in Tokens, Live(t), ops[t].at # "end",
           ops' = Advance(t) \/ ops' = Fail(t)
    PROVE  MovesOn(t)
<1>1. /\ ops[t].client \in Clients /\ ops[t].lease \in BOOLEAN
      /\ ops[t].todo \in Seq(Requests) /\ ops[t].todo # <<>>
  BY LiveFacts, HeadFacts
<1>a. Tail(ops[t].todo) \in Seq(Requests) /\ <<>> \in Seq(Requests)
  BY <1>1, TailFacts
<1>b. ops' = Advance(t) \/ (~ops[t].lease /\ ops' = [ops EXCEPT ![t] = Start(ops[t].client, FALSE, <<>>)])
  BY DEF Fail
<1>c. ~ops[t].lease => ops[t].lease = FALSE
  BY <1>1
<1>2. PICK todo \in Seq(Requests) :
         /\ todo = Tail(ops[t].todo) \/ (~ops[t].lease /\ todo = <<>>)
         /\ ops' = [ops EXCEPT ![t] = Start(ops[t].client, ops[t].lease, todo)]
  BY <1>a, <1>b, <1>c DEF Advance
<1>3. ops \in [Tokens -> Ops \cup {NoOp}]
  BY DEF Types
<1>4. LET o == Start(ops[t].client, ops[t].lease, todo) IN
      /\ o \in Ops /\ o.client = ops[t].client /\ o.lease = ops[t].lease
      /\ o.todo = todo /\ o.at \in {"end", "reserve"}
  BY <1>1, StartFacts
<1>5. ops'[t] = Start(ops[t].client, ops[t].lease, todo)
  BY <1>2, <1>3
<1>6. t \in TokensOf[ops[t].client]
      /\ (ops[t].lease => \A i \in DOMAIN ops[t].todo : ~ops[t].todo[i].pressed)
  BY DEF OpsInv, OpOK
<1>7. ops[t].lease => \A i \in DOMAIN todo : ~todo[i].pressed
  <2>1. SUFFICES ASSUME ops[t].lease, NEW i \in DOMAIN todo PROVE ~todo[i].pressed
    OBVIOUS
  <2>2. todo = Tail(ops[t].todo)
    BY <1>2, <2>1
  <2>3. i + 1 \in DOMAIN ops[t].todo /\ todo[i] = ops[t].todo[i + 1]
    BY <1>1, <2>1, <2>2, TailFacts
  <2> QED BY <1>6, <2>1, <2>3
<1>8. OpOK(t)'
  BY <1>1, <1>5, <1>6, <1>7, StartOK
<1> QED
  BY <1>2, <1>3, <1>4, <1>5, <1>8 DEF MovesOn

LEMMA GoFacts ==
    ASSUME Types, OpsInv, NEW t \in Tokens, Live(t), ops[t].at # "end",
           NEW n \in Ops, n.at \in {"submit", "await", "finish"},
           n.client = ops[t].client, n.lease = ops[t].lease, n.todo = ops[t].todo,
           n.newHeld = n.newOwner, n.newOwner => Head(ops[t].todo).pressed,
           ops' = [ops EXCEPT ![t] = n]
    PROVE  GoesTo(t, n.at) /\ ops'[t] = n
<1>1. ops[t].todo # <<>>
  BY HeadFacts
<1>2. ops \in [Tokens -> Ops \cup {NoOp}]
  BY DEF Types
<1>3. ops'[t] = n /\ ops' \in [Tokens -> Ops \cup {NoOp}]
      /\ \A u \in Tokens \ {t} : ops'[u] = ops[u]
  BY <1>2
<1>4. OpOK(t)'
  BY <1>1, <1>3, SMTT(60), ZenonT(60) DEF OpOK, OpsInv
<1> QED
  BY <1>3, <1>4 DEF GoesTo

-----------------------------------------------------------------------------
(* The steps of a task, one by one.                                        *)

Request(t) == Head(ops[t].todo)
Client(t) == ops[t].client

\* The request is passed over: no room for a press, or no longer its turn.
Abandons(t) ==
    /\ ops[t].at \in {"reserve", "submit", "finish"} /\ MovesOn(t)
    /\ IF ops[t].at = "reserve" THEN ~Owned(t) \/ Request(t).pressed ELSE ~Reserved(t)
    /\ excused \subseteq excused' /\ excused' \subseteq Controls
    /\ UNCHANGED <<known, sess, owners, reserved, queue, down, reaping, mode, toStop, crossed>>

\* A release by one of several owners, or by none.
Leaves(t) ==
    /\ ops[t].at = "reserve" /\ MovesOn(t) /\ Owned(t)
    /\ NoopRelease(Client(t), Request(t))
    /\ sess' = Hold(Client(t), Request(t)) /\ owners' = Own(Client(t), Request(t))
    /\ crossed' = IF Crosses(Client(t), Request(t)) THEN crossed \cup {Subject(t)} ELSE crossed
    /\ UNCHANGED <<known, reserved, queue, down, reaping, mode, toStop, excused>>

Claims(t) ==
    /\ ops[t].at = "reserve" /\ GoesTo(t, "submit") /\ Owned(t)
    /\ HasRoomFor(Client(t), Request(t)) /\ ~NoopRelease(Client(t), Request(t))
    /\ reserved' = reserved \cup {t}
    /\ IF Request(t).pressed
       THEN sess' = Hold(Client(t), Request(t)) /\ owners' = Own(Client(t), Request(t))
       ELSE UNCHANGED <<sess, owners>>
    /\ UNCHANGED <<known, queue, down, reaping, mode, toStop, excused, crossed>>

Enqueues(t) ==
    /\ ops[t].at = "submit" /\ GoesTo(t, "await") /\ Reserved(t)
    /\ Len(queue) < QueueCap
    /\ queue' = Append(queue, [token |-> t, request |-> Request(t)])
    /\ UNCHANGED <<known, sess, owners, reserved, down, reaping, mode, toStop, excused, crossed>>

Overflows(t) ==
    /\ ops[t].at = "submit" /\ GoesTo(t, "finish") /\ Reserved(t) /\ ~ops'[t].accepted
    /\ UNCHANGED <<known, sess, owners, reserved, queue, down, reaping, mode, toStop,
                   excused, crossed>>

Completes(t) ==
    /\ ops[t].at = "finish" /\ MovesOn(t) /\ Reserved(t) /\ ops[t].accepted
    /\ sess' = Hold(Client(t), Request(t)) /\ owners' = Own(Client(t), Request(t))
    /\ reserved' = reserved \ {t}
    /\ UNCHANGED <<known, queue, down, reaping, mode, toStop, excused, crossed>>

\* A refused press is taken back; it, or a last release, is given up on.
Refuses(t) ==
    /\ ops[t].at = "finish" /\ MovesOn(t) /\ Reserved(t) /\ ~ops[t].accepted
    /\ IF ops[t].newOwner
       THEN /\ Request(t).pressed
            /\ sess' = Hold(Client(t), Release(Subject(t)))
            /\ owners' = Own(Client(t), Release(Subject(t)))
       ELSE UNCHANGED <<sess, owners>>
    /\ reserved' = reserved \ {t}
    /\ excused' = excused \cup
          {k \in Active : k = Subject(t) /\ (ops[t].newOwner \/ mode = "stopping")}
    /\ UNCHANGED <<known, queue, down, reaping, mode, toStop, crossed>>

Ends(t) ==
    /\ ops[t].at = "end" /\ ops' = [ops EXCEPT ![t] = NoOp]
    /\ reserved' = reserved \ {t} /\ sess' = ClearFlight(t)
    /\ reaping' \subseteq reaping
    /\ toStop' = IF ops[t].lease /\ mode = "stopping" THEN toStop \ {Client(t)} ELSE toStop
    /\ UNCHANGED <<known, owners, queue, down, mode, excused, crossed>>

LEMMA ReserveStep ==
    ASSUME Types, OpsInv, LedgersAgree, NEW t \in Tokens, Reserve(t)
    PROVE  Abandons(t) \/ Leaves(t) \/ Claims(t)
<1> DEFINE c == ops[t].client
           r == Head(ops[t].todo)
<1>1. ops[t].at = "reserve" /\ Live(t)
  BY DEF Reserve, Live
<1>2. UNCHANGED <<queue, down, reaping, mode, toStop, excused>>
  BY DEF Reserve, world, control
<1>3. r \in Requests /\ r.pressed \in BOOLEAN
  BY <1>1, HeadFacts DEF Requests
<1>4. excused \subseteq Controls
  BY DEF Types
<1>5. CASE /\ ~Owned(t) \/ ~HasRoomFor(c, r)
           /\ ops' = Fail(t)
           /\ UNCHANGED <<ledgers, crossed>>
  <2>1. MovesOn(t)
    BY <1>1, <1>5, MoveFacts
  <2>2. ~Owned(t) \/ r.pressed
    BY <1>5 DEF HasRoomFor
  <2> QED
    BY <1>1, <1>2, <1>4, <1>5, <2>1, <2>2 DEF Abandons, Request, ledgers
<1>6. CASE /\ Owned(t) /\ HasRoomFor(c, r) /\ NoopRelease(c, r)
           /\ sess' = Hold(c, r) /\ owners' = Own(c, r)
           /\ crossed' = IF Crosses(c, r) THEN crossed \cup {r.control} ELSE crossed
           /\ ops' = Advance(t)
           /\ UNCHANGED <<known, reserved>>
  <2>1. MovesOn(t)
    BY <1>1, <1>6, MoveFacts
  <2> QED
    BY <1>1, <1>2, <1>6, <2>1 DEF Leaves, Request, Client, Subject
<1>7. CASE /\ Owned(t) /\ HasRoomFor(c, r) /\ ~NoopRelease(c, r)
           /\ reserved' = reserved \cup {t}
           /\ IF r.pressed THEN sess' = Hold(c, r) /\ owners' = Own(c, r)
                           ELSE UNCHANGED <<sess, owners>>
           /\ ops' = [ops EXCEPT ![t].at = "submit",
                                 ![t].newHeld = r.pressed /\ r.control \notin sess[c].held,
                                 ![t].newOwner = r.pressed /\ c \notin owners[r.control]]
           /\ UNCHANGED <<known, crossed>>
  <2>1. ops[t] \in Ops /\ c \in Clients /\ r.control \in Controls
    BY <1>1, <1>3, LiveFacts DEF Requests
  <2>2. r.control \notin sess[c].held <=> c \notin owners[r.control]
    BY <2>1 DEF LedgersAgree
  <2> DEFINE fresh == r.pressed /\ c \notin owners[r.control]
             n == [ops[t] EXCEPT !.at = "submit", !.newHeld = fresh, !.newOwner = fresh]
  <2>3. ops' = [ops EXCEPT ![t] = n]
    BY <1>7, <2>2
  <2>4. /\ n \in Ops /\ n.at = "submit" /\ n.client = c /\ n.lease = ops[t].lease
        /\ n.todo = ops[t].todo /\ n.newHeld = n.newOwner /\ (n.newOwner => r.pressed)
    BY <2>1, <1>3 DEF Ops, Stages
  <2>5. GoesTo(t, "submit")
    BY <1>1, <2>3, <2>4, GoFacts, ZenonT(60), SMTT(60)
  <2> QED
    BY <1>1, <1>2, <1>7, <2>5 DEF Claims, Request, Client
<1> QED
  BY <1>5, <1>6, <1>7 DEF Reserve

LEMMA SubmitStep ==
    ASSUME Types, OpsInv, NEW t \in Tokens, Submit(t)
    PROVE  Abandons(t) \/ Enqueues(t) \/ Overflows(t)
<1>1. ops[t].at = "submit" /\ Live(t)
  BY DEF Submit, Live
<1>2. UNCHANGED <<known, sess, owners, reserved, down, reaping, mode, toStop, excused, crossed>>
  BY DEF Submit, ledgers, control, history
<1>3. /\ ops[t] \in Ops /\ excused \subseteq Controls
      /\ ops[t].newHeld = ops[t].newOwner
      /\ ops[t].newOwner => Head(ops[t].todo).pressed
  BY <1>1, LiveFacts DEF Types, OpsInv, OpOK
<1>4. CASE ~MaySubmit(t) /\ ops' = Fail(t) /\ UNCHANGED queue
  <2>1. MovesOn(t)
    BY <1>1, <1>4, MoveFacts
  <2> QED
    BY <1>1, <1>2, <1>3, <1>4, <2>1 DEF Abandons, MaySubmit
<1>5. CASE /\ MaySubmit(t) /\ QueueTakes
           /\ queue' = Append(queue, [token |-> t, request |-> Head(ops[t].todo)])
           /\ ops' = [ops EXCEPT ![t].at = "await"]
  <2> DEFINE n == [ops[t] EXCEPT !.at = "await"]
  <2>1. /\ n \in Ops /\ n.at = "await" /\ n.client = ops[t].client
        /\ n.lease = ops[t].lease /\ n.todo = ops[t].todo
        /\ n.newHeld = ops[t].newHeld /\ n.newOwner = ops[t].newOwner
    BY <1>3 DEF Ops, Stages
  <2>2. ops' = [ops EXCEPT ![t] = n]
    BY <1>5
  <2>3. GoesTo(t, "await")
    BY <1>1, <1>3, <2>1, <2>2, GoFacts, ZenonT(60), SMTT(60)
  <2> QED
    BY <1>1, <1>2, <1>5, <2>3 DEF Enqueues, Request, MaySubmit, QueueTakes
<1>6. CASE /\ MaySubmit(t) /\ ~QueueTakes
           /\ ops' = [ops EXCEPT ![t].at = "finish", ![t].accepted = FALSE]
           /\ UNCHANGED queue
  <2> DEFINE n == [ops[t] EXCEPT !.at = "finish", !.accepted = FALSE]
  <2>1. /\ n \in Ops /\ n.at = "finish" /\ n.client = ops[t].client
        /\ n.lease = ops[t].lease /\ n.todo = ops[t].todo
        /\ n.newHeld = ops[t].newHeld /\ n.newOwner = ops[t].newOwner /\ ~n.accepted
    BY <1>3 DEF Ops, Stages
  <2>2. ops' = [ops EXCEPT ![t] = n]
    BY <1>6
  <2>3. GoesTo(t, "finish") /\ ~ops'[t].accepted
    BY <1>1, <1>3, <2>1, <2>2, GoFacts, ZenonT(60), SMTT(60)
  <2> QED
    BY <1>1, <1>2, <1>6, <2>3 DEF Overflows, MaySubmit
<1> QED
  BY <1>4, <1>5, <1>6 DEF Submit

LEMMA FinishStep ==
    ASSUME Types, OpsInv, NEW t \in Tokens, Finish(t)
    PROVE  Abandons(t) \/ Completes(t) \/ Refuses(t)
<1> DEFINE r == Head(ops[t].todo)
           waived == {k \in down \cup Queued : /\ k = r.control /\ ~ops[t].accepted
                                              /\ (ops[t].newOwner \/ mode = "stopping")}
<1>1. ops[t].at = "finish" /\ Live(t)
  BY DEF Finish, Live
<1>2. UNCHANGED <<queue, down, reaping, mode, toStop, crossed>>
  BY DEF Finish, world, control
<1>3. MovesOn(t)
  BY <1>1, MoveFacts DEF Finish
<1>4. excused' = excused \cup waived
  BY DEF Finish
<1>5. excused \subseteq Controls /\ r.control \in Controls
      /\ (ops[t].newHeld = ops[t].newOwner) /\ (ops[t].newOwner => r.pressed)
  BY <1>1, HeadFacts DEF Types, OpsInv, OpOK, Subject
<1>6. CASE ~MayFinish(t)
  <2>1. UNCHANGED ledgers
    BY <1>6 DEF Finish
  <2>2. excused \subseteq excused' /\ excused' \subseteq Controls
    BY <1>4, <1>5
  <2> QED
    BY <1>1, <1>2, <1>3, <1>6, <2>1, <2>2 DEF Abandons, MayFinish, ledgers
<1>7. CASE MayFinish(t) /\ ops[t].accepted
  <2>1. /\ reserved' = reserved \ {t} /\ UNCHANGED known
        /\ sess' = Hold(ops[t].client, r) /\ owners' = Own(ops[t].client, r)
    BY <1>7 DEF Finish
  <2>2. excused' = excused
    BY <1>4, <1>7
  <2> QED
    BY <1>1, <1>2, <1>3, <1>7, <2>1, <2>2 DEF Completes, MayFinish, Request, Client
<1>8. CASE MayFinish(t) /\ ~ops[t].accepted
  <2>1. reserved' = reserved \ {t} /\ UNCHANGED known /\ Undo(t, r)
    BY <1>8 DEF Finish
  <2>2. IF ops[t].newOwner
        THEN /\ sess' = Hold(ops[t].client, Release(r.control))
             /\ owners' = Own(ops[t].client, Release(r.control))
        ELSE UNCHANGED <<sess, owners>>
    BY <1>5, <2>1 DEF Undo
  <2>3. excused' = excused \cup
          {k \in Active : k = r.control /\ (ops[t].newOwner \/ mode = "stopping")}
    BY <1>4, <1>8 DEF Active
  <2> QED
    BY <1>1, <1>2, <1>3, <1>5, <1>8, <2>1, <2>2, <2>3
       DEF Refuses, MayFinish, Request, Client, Subject
<1> QED
  BY <1>6, <1>7, <1>8

LEMMA EndStep ==
    ASSUME Types, NEW t \in Tokens, End(t)
    PROVE  Ends(t)
BY DEF End, Ends, Client, world, history

-----------------------------------------------------------------------------
(* The worker's step, and the steps of the whole.                          *)

Works ==
    LET e == Head(queue) IN
    /\ queue # <<>> /\ queue' = Tail(queue)
    /\ \/ /\ ops' = Answer(e.token, TRUE)
          /\ down' = IF e.request.pressed THEN down \cup {e.request.control}
                                          ELSE down \ {e.request.control}
       \/ /\ ops' = Answer(e.token, FALSE)
          /\ down' \subseteq down
    /\ excused' = excused \cap Active' /\ crossed' = crossed \cap Active'
    /\ UNCHANGED <<known, sess, owners, reserved, reaping, mode, toStop>>

TaskStep(t) ==
    \/ Abandons(t) \/ Leaves(t) \/ Claims(t) \/ Enqueues(t) \/ Overflows(t)
    \/ Completes(t) \/ Refuses(t) \/ Ends(t)

Base ==
    /\ Types /\ SessionsOK /\ Registered /\ OpsInv /\ LedgersAgree /\ InFlightIsLive
    /\ InjectorOwns
    /\ mode \in {"serving", "stopping", "stopped"} /\ Len(queue) <= QueueCap

LEMMA Steps ==
    ASSUME Base, Next
    PROVE  \/ Visits
           \/ \E c \in Clients, t \in Tokens, lease \in BOOLEAN, todo \in Seq(Requests) :
                 Begins(c, t, lease, todo)
           \/ \E t \in Tokens : TaskStep(t)
           \/ Works \/ Shutdown \/ Stopped
<1> USE DEF Base
<1>1. ASSUME NEW c \in Clients, NEW seq \in 1..MaxSeq[c], NEW todo \in Todos, Arrive(c, seq, todo)
      PROVE  Visits \/ \E t \in Tokens : Begins(c, t, FALSE, todo)
  BY <1>1, ArriveStep
<1>2. ASSUME NEW c \in Clients, Refresh(c) PROVE Visits
  BY <1>2, RefreshStep
<1>3. ASSUME NEW c \in Clients, Grow(c) PROVE Visits
  BY <1>3, GrowStep
<1>4. ASSUME NEW c \in Clients, ReapClient(c)
      PROVE  \E t \in Tokens, todo \in Seq(Requests) : Begins(c, t, TRUE, todo)
  BY <1>4, TakeOverStep DEF ReapClient, Registered
<1>5. ASSUME NEW c \in Clients, StopClient(c)
      PROVE  \E t \in Tokens, todo \in Seq(Requests) : Begins(c, t, TRUE, todo)
  BY <1>5, TakeOverStep DEF StopClient, Registered
<1>6. ASSUME NEW t \in Tokens, Task(t) PROVE TaskStep(t)
  BY <1>6, ReserveStep, SubmitStep, FinishStep, EndStep DEF Task, TaskStep
<1>7. ReapTick => Visits
  BY ReapTickStep
<1>8. WorkOk \/ WorkFail => Works
  BY DEF WorkOk, WorkFail, Works, Active, ledgers, control
<1>9. ASSUME NEW c \in Clients, NEW t \in Tokens, NEW lease \in BOOLEAN, NEW todo,
             Begins(c, t, lease, todo)
      PROVE  todo \in Seq(Requests)
  BY <1>9 DEF Begins
<1>10. ASSUME NEW c \in Clients, ClientStep(c)
       PROVE  Visits \/ \E t \in Tokens, todo \in Seq(Requests) : Begins(c, t, FALSE, todo)
  <2>1. CASE Refresh(c) \/ Grow(c)
    BY <1>2, <1>3, <2>1
  <2>2. CASE \E seq \in 1..MaxSeq[c], todo \in Todos : Arrive(c, seq, todo)
    <3>1. PICK seq \in 1..MaxSeq[c] : \E todo \in Todos : Arrive(c, seq, todo)
      BY <2>2
    <3>2. PICK todo \in Todos : Arrive(c, seq, todo)
      BY <3>1
    <3>3. Visits \/ \E t \in Tokens : Begins(c, t, FALSE, todo)
      BY <1>1, <3>2
    <3> QED BY <1>9, <3>3
  <2> QED BY <1>10, <2>1, <2>2 DEF ClientStep
<1> QED
  BY <1>4, <1>5, <1>6, <1>7, <1>8, <1>10 DEF Next

-----------------------------------------------------------------------------
(* Types, and the sessions, ledgers and tasks that agree.                  *)

LEMMA VisitsBase ==
    ASSUME Base, Visits
    PROVE  Base' /\ \A u \in Tokens : Injects(u)' => Injects(u)
<1>1. UNCHANGED <<owners, reserved, ops, queue, down, mode, toStop, excused, crossed>>
      /\ known' \subseteq Clients /\ sess' \in [Clients -> Sessions]
      /\ SessionsOK' /\ Registered' /\ \A c \in Clients : Keeps(c)
  BY DEF Visits
<1>2. Types'
  BY <1>1 DEF Base, Types
<1>3. \A t \in Tokens : (Live(t)' <=> Live(t)) /\ (OpOK(t)' <=> OpOK(t))
  BY <1>1 DEF Live, OpOK
<1>4. OpsInv'
  BY <1>1, <1>3 DEF Base, OpsInv, Keeps
<1>5. LedgersAgree'
  BY <1>1 DEF Base, LedgersAgree, Keeps
<1>6. InFlightIsLive'
  <2> SUFFICES ASSUME mode' = "serving", NEW c \in Clients, sess'[c].inFlight # 0
      PROVE ops'[sess'[c].inFlight].at # "none" /\ ops'[sess'[c].inFlight].client = c
    BY DEF InFlightIsLive, Live
  <2>1. sess'[c].inFlight = sess[c].inFlight
    BY <1>1 DEF Keeps
  <2> QED
    BY <1>1, <2>1 DEF Base, InFlightIsLive, Live
<1>7. ASSUME NEW t \in Tokens, Injects(t)' PROVE Injects(t)
  <2>1. Live(t) /\ Client(t) \in Clients /\ t # 0 /\ Keeps(Client(t))
    BY <1>1, <1>7, LiveFacts, TokenFacts DEF Injects, Live, Client, Base
  <2> QED
    BY <1>1, <1>7, <2>1 DEF Injects, Reserved, Owned, Keeps, Quiet, Client
<1>8. InjectorOwns'
  BY <1>1, <1>7 DEF Base, InjectorOwns, Subject
<1> QED
  BY <1>1, <1>2, <1>4, <1>5, <1>6, <1>7, <1>8 DEF Base

LEMMA BeginsFacts ==
    ASSUME Base, NEW c \in Clients, NEW t \in Tokens, NEW lease \in BOOLEAN,
           NEW todo \in Seq(Requests), Begins(c, t, lease, todo)
    PROVE  /\ ~Live(t) /\ Live(t)'
           /\ ops' \in [Tokens -> Ops \cup {NoOp}]
           /\ \A u \in Tokens \ {t} : ops'[u] = ops[u]
           /\ ops'[t].client = c /\ ops'[t].lease = lease /\ ops'[t].todo = todo
           /\ ops'[t].at \in {"end", "reserve"}
           /\ OpOK(t)'
<1>1. t \in TokensOf[c] /\ ~Live(t) /\ ops' = [ops EXCEPT ![t] = Start(c, lease, todo)]
  BY DEF Begins, InUse
<1>2. ops \in [Tokens -> Ops \cup {NoOp}]
  BY DEF Base, Types
<1>3. LET o == Start(c, lease, todo) IN
      /\ o \in Ops /\ o.client = c /\ o.lease = lease /\ o.todo = todo
      /\ o.at \in {"end", "reserve"}
  BY StartFacts
<1>4. ops'[t] = Start(c, lease, todo)
  BY <1>1, <1>2
<1>5. OpOK(t)'
  <2>1. lease => \A i \in DOMAIN todo : ~todo[i].pressed
    BY DEF Begins, Covers
  <2> QED BY <1>1, <1>4, <2>1, StartOK
<1> QED
  BY <1>1, <1>2, <1>3, <1>4, <1>5 DEF Live

LEMMA BeginsBase ==
    ASSUME Base, NEW c \in Clients, NEW t \in Tokens, NEW lease \in BOOLEAN,
           NEW todo \in Seq(Requests), Begins(c, t, lease, todo)
    PROVE  Base' /\ \A u \in Tokens : Injects(u)' => Injects(u) /\ ops'[u] = ops[u]
<1>1. /\ UNCHANGED <<owners, queue, down, mode, toStop, excused, crossed>>
      /\ known' \subseteq Clients /\ sess' \in [Clients -> Sessions]
      /\ SessionsOK' /\ Registered' /\ \A d \in Clients \ {c} : Keeps(d)
      /\ sess'[c].inFlight = t /\ sess'[c].held = sess[c].held
      /\ reserved' \subseteq reserved /\ t \in TokensOf[c]
  BY DEF Begins
<1>2. /\ ~Live(t) /\ Live(t)' /\ OpOK(t)'
      /\ ops' \in [Tokens -> Ops \cup {NoOp}]
      /\ \A u \in Tokens \ {t} : ops'[u] = ops[u]
      /\ ops'[t].client = c
  BY BeginsFacts
<1>3. Types'
  BY <1>1, <1>2 DEF Base, Types
<1>4. \A u \in Tokens \ {t} : (Live(u)' <=> Live(u)) /\ (OpOK(u)' <=> OpOK(u))
  BY <1>2 DEF Live, OpOK
<1>5. OpsInv'
  BY <1>1, <1>2, <1>4 DEF Base, OpsInv, Keeps
<1>6. LedgersAgree'
  BY <1>1 DEF Base, LedgersAgree, Keeps
<1>7. InFlightIsLive'
  <2> SUFFICES ASSUME mode' = "serving", NEW d \in Clients, sess'[d].inFlight # 0
      PROVE ops'[sess'[d].inFlight].at # "none" /\ ops'[sess'[d].inFlight].client = d
    BY DEF InFlightIsLive, Live
  <2>1. CASE d = c
    BY <1>1, <1>2, <2>1 DEF Live
  <2>2. CASE d # c
    <3>1. sess'[d].inFlight = sess[d].inFlight
      BY <1>1, <2>2 DEF Keeps
    <3>2. sess[d].inFlight \in Tokens /\ Live(sess[d].inFlight) /\ ops[sess[d].inFlight].client = d
      BY <1>1, <3>1, SessionFacts DEF Base, InFlightIsLive
    <3>3. sess[d].inFlight # t
      BY <1>2, <3>2
    <3> QED
      BY <1>2, <3>1, <3>2, <3>3 DEF Live
  <2> QED BY <2>1, <2>2
<1>8. ASSUME NEW u \in Tokens, Injects(u)' PROVE u # t /\ Injects(u)
  <2>1. u # t
    BY <1>8, BeginsFacts DEF Injects
  <2>2. ops'[u] = ops[u] /\ Live(u) /\ ops[u].client \in Clients /\ u # 0
    BY <1>2, <1>8, <2>1, LiveFacts, TokenFacts DEF Injects, Live, Base
  <2>3. sess'[ops[u].client].inFlight = u /\ u \in reserved /\ ops[u].at \in {"submit", "await", "finish"}
    BY <1>1, <1>8, <2>2 DEF Injects, Reserved, Owned
  <2>4. Keeps(ops[u].client)
    BY <1>1, <2>1, <2>2, <2>3
  <2> QED
    BY <2>1, <2>2, <2>3, <2>4 DEF Injects, Reserved, Owned, Keeps
<1>9. InjectorOwns'
  BY <1>1, <1>2, <1>8 DEF Base, InjectorOwns, Subject
<1> QED
  BY <1>1, <1>2, <1>3, <1>5, <1>6, <1>7, <1>8, <1>9 DEF Base

\* What MovesOn and GoesTo have in common.
OpSteps(t) ==
    /\ ops' \in [Tokens -> Ops \cup {NoOp}]
    /\ \A u \in Tokens \ {t} : ops'[u] = ops[u]
    /\ ops'[t] \in Ops
    /\ ops'[t].client = ops[t].client /\ ops'[t].lease = ops[t].lease
    /\ OpOK(t)'

LEMMA OpStepFacts ==
    ASSUME NEW t, MovesOn(t) \/ \E at : GoesTo(t, at)
    PROVE  OpSteps(t)
BY DEF MovesOn, GoesTo, OpSteps

LEMMA LiveOp ==
    ASSUME NEW o \in Ops
    PROVE  o.at # "none"
BY DEF Ops, Stages

(* A client with an operation in flight is known, and it has only one.     *)
LEMMA OwnedFacts ==
    ASSUME Base, NEW t \in Tokens, Live(t), Owned(t)
    PROVE  /\ Client(t) \in Clients /\ Client(t) \in known
           /\ \A u \in Tokens : Owned(u) /\ Client(u) = Client(t) => u = t
<1>1. Client(t) \in Clients /\ t # 0 /\ sess[Client(t)].inFlight = t
  BY LiveFacts, TokenFacts DEF Base, Client, Owned
<1>2. Client(t) \in known
  BY <1>1, NewSessionFacts DEF Base, SessionsOK
<1> QED
  BY <1>1, <1>2 DEF Owned, Client

(* Both ledgers change together.                                           *)
LEMMA HoldOwn ==
    ASSUME Base, NEW c \in known, NEW r \in Requests,
           sess' = Hold(c, r), owners' = Own(c, r), known' = known,
           HasRoomFor(c, r) \/ r.control \in sess[c].held
    PROVE  SessionsOK' /\ LedgersAgree'
<1>0. c \in Clients /\ Types
  BY DEF Base, Types
<1>1. /\ \A d \in Clients \ {c} : sess'[d] = sess[d]
      /\ sess'[c].last = sess[c].last
      /\ sess'[c].held = IF r.pressed THEN sess[c].held \cup {r.control}
                                      ELSE sess[c].held \ {r.control}
  BY <1>0, HoldFacts
<1>2. /\ \A k \in Controls \ {r.control} : owners'[k] = owners[k]
      /\ r.control \in Controls
      /\ owners'[r.control] = IF r.pressed THEN owners[r.control] \cup {c}
                                           ELSE owners[r.control] \ {c}
  BY <1>0, OwnFacts
<1>3. LedgersAgree'
  <2> SUFFICES ASSUME NEW d \in Clients, NEW k \in Controls
      PROVE k \in sess'[d].held <=> d \in owners'[k]
    BY DEF LedgersAgree
  <2>1. k \in sess[d].held <=> d \in owners[k]
    BY DEF Base, LedgersAgree
  <2>2. CASE d = c /\ k = r.control
    BY <1>1, <1>2, <2>1, <2>2
  <2>3. CASE d # c \/ k # r.control
    BY <1>1, <1>2, <2>1, <2>3
  <2> QED BY <2>2, <2>3
<1>4. Cardinality(sess'[c].held) <= MaxHeld
  <2>1. IsFiniteSet(sess[c].held) /\ Cardinality(sess[c].held) \in Nat
        /\ Cardinality(sess[c].held) <= MaxHeld /\ MaxHeld \in Nat
    BY <1>0, SmallSets, MobileAssumption DEF Base, SessionsOK
  <2>2. CASE r.control \in sess[c].held
    <3>1. CASE r.pressed
      BY <1>1, <2>1, <2>2, <3>1
    <3>2. CASE ~r.pressed
      <4>1. Cardinality(sess[c].held \ {r.control}) = Cardinality(sess[c].held) - 1
        BY <2>1, <2>2, FS_RemoveElement
      <4>2. sess'[c].held = sess[c].held \ {r.control}
        BY <1>1, <3>2
      <4>3. MaxHeld \in Nat
        BY <2>1
      <4> QED BY <2>1, <4>1, <4>2, <4>3
    <3> QED BY <3>1, <3>2
  <2>3. CASE r.control \notin sess[c].held
    <3>1. CASE r.pressed
      <4>1. Cardinality(sess[c].held) < MaxHeld
        BY <2>3, <3>1 DEF HasRoomFor
      <4>2. Cardinality(sess'[c].held) = Cardinality(sess[c].held) + 1
        BY <1>1, <2>1, <2>3, <3>1, FS_AddElement
      <4> QED BY <2>1, <4>1, <4>2
    <3>2. CASE ~r.pressed
      <4>1. sess'[c].held = sess[c].held
        BY <1>1, <2>3, <3>2
      <4> QED BY <2>1, <4>1
    <3> QED BY <3>1, <3>2
  <2> QED BY <2>2, <2>3
<1>5. SessionsOK'
  BY <1>1, <1>4 DEF Base, SessionsOK
<1> QED
  BY <1>3, <1>5

LEMMA TaskBase ==
    ASSUME Base, NEW t \in Tokens, Live(t), OpSteps(t),
           sess' \in [Clients -> Sessions],
           \A c \in Clients : sess'[c].inFlight = sess[c].inFlight,
           owners' \in [Controls -> SUBSET Clients],
           reserved' \subseteq reserved \cup {t},
           queue' \in Queue, Len(queue') <= QueueCap,
           excused' \subseteq Controls, crossed' \subseteq Controls,
           UNCHANGED <<known, down, reaping, mode, toStop>>,
           SessionsOK', LedgersAgree',
           \A k \in Controls : owners[k] \ owners'[k] \subseteq {Client(t)},
           owners' # owners => Owned(t),
           Injects(t)' => Client(t) \in owners'[Head(ops'[t].todo).control]
    PROVE  /\ Base'
           /\ \A u \in Tokens \ {t} : ops'[u] = ops[u] /\ (Injects(u)' => Injects(u))
<1>1. /\ ops' \in [Tokens -> Ops \cup {NoOp}]
      /\ \A u \in Tokens \ {t} : ops'[u] = ops[u]
      /\ ops'[t] \in Ops /\ ops'[t].client = ops[t].client /\ OpOK(t)'
  BY DEF OpSteps
<1>2. Types'
  BY <1>1 DEF Base, Types
<1>3. Registered'
  BY DEF Base, Registered
<1>4. ops'[t].at # "none"
  BY <1>1, LiveOp
<1>5. OpsInv'
  <2>1. \A u \in Tokens \ {t} : (Live(u)' <=> Live(u)) /\ (OpOK(u)' <=> OpOK(u))
    BY <1>1 DEF Live, OpOK
  <2>2. \A c \in Clients : sess'[c].inFlight \in TokensOf[c] \cup {0}
    BY DEF Base, OpsInv
  <2> QED BY <1>1, <2>1, <2>2 DEF Base, OpsInv
<1>6. InFlightIsLive'
  <2> SUFFICES ASSUME mode' = "serving", NEW c \in Clients, sess'[c].inFlight # 0
      PROVE ops'[sess'[c].inFlight].at # "none" /\ ops'[sess'[c].inFlight].client = c
    BY DEF InFlightIsLive, Live
  <2>1. /\ sess[c].inFlight \in Tokens /\ ops[sess[c].inFlight].at # "none"
        /\ ops[sess[c].inFlight].client = c
    BY SessionFacts DEF Base, InFlightIsLive, Live
  <2> QED BY <1>1, <1>4, <2>1
<1>7. ASSUME NEW u \in Tokens \ {t}, Injects(u)' PROVE Injects(u)
  <2>1. ops'[u] = ops[u] /\ Live(u) /\ ops[u].client \in Clients
    BY <1>1, <1>7, LiveFacts DEF Injects, Live, Base
  <2> QED
    BY <1>7, <2>1 DEF Injects, Reserved, Owned
<1>8. InjectorOwns'
  <2> SUFFICES ASSUME NEW u \in Tokens, Injects(u)'
      PROVE ops'[u].client \in owners'[Head(ops'[u].todo).control]
    BY DEF InjectorOwns, Subject
  <2>1. CASE u = t
    BY <1>1, <2>1 DEF Client
  <2>2. CASE u # t
    <3>1. ops'[u] = ops[u] /\ Injects(u) /\ Live(u) /\ Owned(u) /\ ops[u].at # "end"
      BY <1>1, <1>7, <2>2 DEF Injects, Live, Reserved
    <3>2. Subject(u) \in Controls /\ ops[u].client \in owners[Subject(u)]
      BY <3>1, HeadFacts DEF Base, InjectorOwns
    <3>3. owners' = owners \/ Client(u) # Client(t)
      BY <2>2, <3>1, OwnedFacts
    <3> QED BY <3>1, <3>2, <3>3 DEF Subject, Client
  <2> QED BY <2>1, <2>2
<1> QED
  BY <1>1, <1>2, <1>3, <1>5, <1>6, <1>7, <1>8 DEF Base

(* The end of an operation lets its client's next one begin.               *)
LEMMA EndsBase ==
    ASSUME Base, NEW t \in Tokens, Ends(t)
    PROVE  /\ Base'
           /\ \A u \in Tokens \ {t} : ops'[u] = ops[u] /\ (Injects(u)' => Injects(u))
           /\ ~Injects(t)'
<1> DEFINE c == Client(t)
<1>1. Live(t) /\ c \in Clients /\ c = ops[t].client /\ t \in Nat \ {0}
  BY LiveFacts, TokenFacts DEF Ends, Live, Client, Base
<1>2. /\ ops' = [ops EXCEPT ![t] = NoOp] /\ reserved' = reserved \ {t}
      /\ sess' = ClearFlight(t) /\ reaping' \subseteq reaping
      /\ toStop' \subseteq toStop /\ (mode = "serving" => toStop' = toStop)
      /\ UNCHANGED <<known, owners, queue, down, mode, excused, crossed>>
  BY DEF Ends
<1>3. /\ ops' \in [Tokens -> Ops \cup {NoOp}] /\ ops'[t].at = "none"
      /\ \A u \in Tokens \ {t} : ops'[u] = ops[u]
  BY <1>2 DEF Base, Types, NoOp
<1>4. /\ sess' \in [Clients -> Sessions]
      /\ \A d \in Clients :
            /\ sess'[d].held = sess[d].held /\ sess'[d].last = sess[d].last
            /\ sess'[d].inFlight = (IF d = c /\ Owned(t) THEN 0 ELSE sess[d].inFlight)
            /\ sess'[d] = sess[d] \/ (d = c /\ Owned(t))
  <2>1. sess \in [Clients -> Sessions] /\ sess[c] \in Sessions
    BY <1>1 DEF Base, Types
  <2>2. CASE Owned(t)
    <3>1. sess' = [sess EXCEPT ![c].inFlight = 0]
      BY <1>1, <1>2, <2>2 DEF ClearFlight
    <3>2. /\ sess' \in [Clients -> Sessions]
          /\ \A d \in Clients \ {c} : sess'[d] = sess[d]
          /\ sess'[c].held = sess[c].held /\ sess'[c].last = sess[c].last
          /\ sess'[c].inFlight = 0
      BY <1>1, <2>1, <3>1 DEF Sessions
    <3> QED BY <2>2, <3>2
  <2>3. CASE ~Owned(t)
    BY <1>2, <2>1, <2>3 DEF ClearFlight
  <2> QED BY <2>2, <2>3
<1>5. SessionsOK'
  <2>1. Owned(t) => c \in known
    BY <1>1, OwnedFacts
  <2> QED BY <1>2, <1>4, <2>1 DEF Base, SessionsOK
<1>6. Types' /\ Registered' /\ LedgersAgree'
  BY <1>2, <1>3, <1>4 DEF Base, Types, Registered, LedgersAgree
<1>7. OpsInv'
  <2>1. \A u \in Tokens : Live(u)' => Live(u) /\ OpOK(u)'
    <3> SUFFICES ASSUME NEW u \in Tokens, Live(u)' PROVE Live(u) /\ OpOK(u)'
      OBVIOUS
    <3>1. ops'[u] = ops[u] /\ Live(u)
      BY <1>3 DEF Live
    <3>2. OpOK(u)
      BY <3>1 DEF Base, OpsInv
    <3> QED BY <3>1, <3>2 DEF OpOK
  <2> QED BY <1>4, <2>1 DEF Base, OpsInv
<1>8. InFlightIsLive'
  <2> SUFFICES ASSUME mode' = "serving", NEW d \in Clients, sess'[d].inFlight # 0
      PROVE ops'[sess'[d].inFlight].at # "none" /\ ops'[sess'[d].inFlight].client = d
    BY DEF InFlightIsLive, Live
  <2>1. sess'[d].inFlight = sess[d].inFlight /\ ~(d = c /\ Owned(t))
    BY <1>4
  <2>2. /\ sess[d].inFlight \in Tokens /\ ops[sess[d].inFlight].at # "none"
        /\ ops[sess[d].inFlight].client = d
    BY <1>2, <2>1, SessionFacts DEF Base, InFlightIsLive, Live
  <2>3. sess[d].inFlight # t
    BY <1>1, <2>1, <2>2 DEF Owned
  <2> QED BY <1>3, <2>1, <2>2, <2>3
<1>9. ASSUME NEW u \in Tokens, Injects(u)'
      PROVE  Injects(u) /\ ops'[u] = ops[u] /\ u # t
  <2>1. u # t /\ ops'[u] = ops[u] /\ Live(u) /\ ops[u].client \in Clients /\ u # 0
    BY <1>3, <1>9, LiveFacts, TokenFacts DEF Injects, Live, Base
  <2>2. sess'[ops[u].client].inFlight = u /\ u \in reserved
    BY <1>2, <1>9, <2>1 DEF Injects, Reserved, Owned
  <2>3. sess[ops[u].client].inFlight = u
    BY <1>4, <2>1, <2>2
  <2> QED BY <1>9, <2>1, <2>2, <2>3 DEF Injects, Reserved, Owned
<1>10. InjectorOwns'
  BY <1>2, <1>9 DEF Base, InjectorOwns, Subject
<1> QED
  BY <1>2, <1>3, <1>5, <1>6, <1>7, <1>8, <1>9, <1>10 DEF Base

(* Every step of a task keeps the base, and only t may begin to inject.    *)
LEMMA TaskStepBase ==
    ASSUME Base, NEW t \in Tokens, TaskStep(t)
    PROVE  /\ Base'
           /\ \A u \in Tokens \ {t} : ops'[u] = ops[u] /\ (Injects(u)' => Injects(u))
<1> DEFINE c == Client(t)
           r == Request(t)
<1>1. Live(t) /\ c \in Clients /\ c = ops[t].client
  BY LiveFacts DEF TaskStep, Abandons, Leaves, Claims, Enqueues, Overflows, Completes,
                   Refuses, Ends, Live, Client, Base
<1>2. ops[t].at # "end" => r \in Requests /\ r.control = Subject(t) /\ Subject(t) \in Controls
  BY <1>1, HeadFacts DEF Base, Request, Subject
<1>3. /\ sess \in [Clients -> Sessions] /\ owners \in [Controls -> SUBSET Clients]
      /\ excused \subseteq Controls /\ crossed \subseteq Controls /\ queue \in Queue
      /\ reserved \subseteq Tokens /\ Len(queue) <= QueueCap
      /\ SessionsOK /\ LedgersAgree
  BY DEF Base, Types
<1>4. ASSUME NEW q \in Requests, Owned(t), HasRoomFor(c, q) \/ q.control \in sess[c].held,
             sess' = Hold(c, q), owners' = Own(c, q), known' = known
      PROVE  /\ sess' \in [Clients -> Sessions]
             /\ \A d \in Clients : sess'[d].inFlight = sess[d].inFlight
             /\ owners' \in [Controls -> SUBSET Clients]
             /\ \A k \in Controls : owners[k] \ owners'[k] \subseteq {c}
             /\ SessionsOK' /\ LedgersAgree'
  <2>1. c \in known
    BY <1>1, <1>4, OwnedFacts
  <2>2. SessionsOK' /\ LedgersAgree'
    BY <1>4, <2>1, HoldOwn
  <2>3. /\ sess' \in [Clients -> Sessions]
        /\ \A d \in Clients : sess'[d].inFlight = sess[d].inFlight
    BY <1>1, <1>4, HoldFacts, ZenonT(60), SMTT(60) DEF Base
  <2>4. /\ owners' \in [Controls -> SUBSET Clients]
        /\ \A k \in Controls : owners[k] \ owners'[k] \subseteq {c}
    BY <1>1, <1>4, OwnFacts, ZenonT(60), SMTT(60) DEF Base
  <2> QED BY <2>2, <2>3, <2>4
<1>5. UNCHANGED <<sess, owners, known>> => SessionsOK' /\ LedgersAgree'
  BY <1>3 DEF SessionsOK, LedgersAgree
<1>6. CASE Abandons(t)
  <2>1. OpSteps(t) /\ ops'[t].at \in {"end", "reserve"}
    BY <1>6, OpStepFacts DEF Abandons, MovesOn
  <2>2. /\ UNCHANGED <<known, sess, owners, reserved, queue, down, reaping, mode, toStop, crossed>>
        /\ excused' \subseteq Controls
    BY <1>6 DEF Abandons
  <2>3. ~Injects(t)'
    BY <2>1 DEF Injects
  <2> QED
    BY <1>1, <1>3, <1>5, <2>1, <2>2, <2>3, TaskBase
<1>7. CASE Leaves(t)
  <2>1. OpSteps(t) /\ ops'[t].at \in {"end", "reserve"} /\ ops[t].at # "end" /\ Owned(t)
    BY <1>7, OpStepFacts DEF Leaves, MovesOn
  <2>2. /\ UNCHANGED <<known, reserved, queue, down, reaping, mode, toStop, excused>>
        /\ sess' = Hold(c, r) /\ owners' = Own(c, r)
        /\ crossed' = crossed \/ crossed' = crossed \cup {Subject(t)}
    BY <1>7 DEF Leaves
  <2>3. ~r.pressed
    BY <1>7 DEF Leaves, NoopRelease
  <2>4. ~Injects(t)' /\ HasRoomFor(c, r) /\ r \in Requests /\ crossed' \subseteq Controls
    BY <1>2, <1>3, <2>1, <2>2, <2>3 DEF Injects, HasRoomFor
  <2> QED
    BY <1>1, <1>3, <1>4, <2>1, <2>2, <2>4, TaskBase
<1>8. CASE Claims(t)
  <2>1. /\ OpSteps(t) /\ ops'[t].todo = ops[t].todo /\ ops[t].at # "end" /\ Owned(t)
    BY <1>8, OpStepFacts DEF Claims, GoesTo
  <2>2. /\ UNCHANGED <<known, queue, down, reaping, mode, toStop, excused, crossed>>
        /\ reserved' = reserved \cup {t}
        /\ HasRoomFor(c, r) /\ ~NoopRelease(c, r)
        /\ IF r.pressed THEN sess' = Hold(c, r) /\ owners' = Own(c, r)
                        ELSE UNCHANGED <<sess, owners>>
    BY <1>8 DEF Claims
  <2>3. r \in Requests /\ Head(ops'[t].todo).control = Subject(t) /\ Subject(t) = r.control
        /\ Subject(t) \in Controls
    BY <1>2, <2>1 DEF Subject
  <2>4. CASE r.pressed
    <3>0. Own(c, r)[r.control] = owners[r.control] \cup {c}
      BY <1>1, <2>3, <2>4, OwnFacts, ZenonT(60), SMTT(60) DEF Base
    <3>1. c \in owners'[r.control]
      BY <2>2, <2>4, <3>0
    <3> QED
      BY <1>1, <1>3, <1>4, <2>1, <2>2, <2>3, <2>4, <3>1, TaskBase
  <2>5. CASE ~r.pressed
    <3>1. owners[r.control] = {c}
      BY <2>2, <2>5 DEF NoopRelease
    <3> QED
      BY <1>1, <1>3, <1>5, <2>1, <2>2, <2>3, <2>5, <3>1, TaskBase
  <2> QED BY <2>4, <2>5
<1>9. CASE Enqueues(t) \/ Overflows(t)
  <2>1. OpSteps(t) /\ ops'[t].todo = ops[t].todo /\ ops[t].at # "end" /\ Injects(t)
    BY <1>9, OpStepFacts DEF Enqueues, Overflows, GoesTo, Injects
  <2>2. UNCHANGED <<known, sess, owners, reserved, down, reaping, mode, toStop, excused, crossed>>
    BY <1>9 DEF Enqueues, Overflows
  <2>3. c \in owners[Subject(t)] /\ Head(ops'[t].todo).control = Subject(t)
    BY <2>1 DEF Base, InjectorOwns, Client, Subject
  <2>4. queue' \in Queue /\ Len(queue') <= QueueCap
    <3>1. QueueCap \in Nat
      BY MobileAssumption
    <3>2. CASE Overflows(t)
      BY <1>3, <3>2 DEF Overflows
    <3>3. CASE Enqueues(t)
      <4>1. [token |-> t, request |-> r] \in [token : Tokens \cup {0}, request : Requests]
        BY <1>2, <2>1
      <4>2. queue' = Append(queue, [token |-> t, request |-> r]) /\ Len(queue) < QueueCap
        BY <3>3 DEF Enqueues
      <4> QED BY <1>3, <3>1, <4>1, <4>2 DEF Queue
    <3> QED BY <1>9, <3>2, <3>3
  <2> QED
    BY <1>1, <1>3, <1>5, <2>1, <2>2, <2>3, <2>4, TaskBase
<1>10. CASE Completes(t)
  <2>1. /\ OpSteps(t) /\ ops'[t].at \in {"end", "reserve"} /\ ops[t].at # "end"
        /\ Owned(t) /\ Injects(t)
    BY <1>10, OpStepFacts DEF Completes, MovesOn, Injects, Reserved
  <2>2. /\ UNCHANGED <<known, queue, down, reaping, mode, toStop, excused, crossed>>
        /\ sess' = Hold(c, r) /\ owners' = Own(c, r) /\ reserved' = reserved \ {t}
    BY <1>10 DEF Completes
  <2>3. r.control \in sess[c].held
    BY <1>1, <1>2, <1>3, <2>1 DEF Base, InjectorOwns, LedgersAgree, Client
  <2>4. ~Injects(t)' /\ r \in Requests
    BY <1>2, <2>1 DEF Injects
  <2> QED
    BY <1>1, <1>3, <1>4, <2>1, <2>2, <2>3, <2>4, TaskBase
<1>11. CASE Refuses(t)
  <2>1. /\ OpSteps(t) /\ ops'[t].at \in {"end", "reserve"} /\ ops[t].at # "end"
        /\ Owned(t)
    BY <1>11, OpStepFacts DEF Refuses, MovesOn, Reserved
  <2> DEFINE q == Release(Subject(t))
  <2>2. /\ UNCHANGED <<known, queue, down, reaping, mode, toStop, crossed>>
        /\ IF ops[t].newOwner THEN sess' = Hold(c, q) /\ owners' = Own(c, q)
                              ELSE UNCHANGED <<sess, owners>>
        /\ reserved' = reserved \ {t}
        /\ excused' \subseteq excused \cup {Subject(t)}
    BY <1>11 DEF Refuses
  <2>3. q \in Requests /\ HasRoomFor(c, q)
    BY <1>2, <2>1 DEF Release, Requests, HasRoomFor
  <2>4. ~Injects(t)' /\ excused' \subseteq Controls
    BY <1>2, <1>3, <2>1, <2>2 DEF Injects
  <2>5. CASE ops[t].newOwner
    BY <1>1, <1>3, <1>4, <2>1, <2>2, <2>3, <2>4, <2>5, TaskBase
  <2>6. CASE ~ops[t].newOwner
    BY <1>1, <1>3, <1>5, <2>1, <2>2, <2>3, <2>4, <2>6, TaskBase
  <2> QED BY <2>5, <2>6
<1>12. CASE Ends(t)
  BY <1>12, EndsBase
<1> QED
  BY <1>6, <1>7, <1>8, <1>9, <1>10, <1>11, <1>12 DEF TaskStep

LEMMA SeqFacts ==
    ASSUME NEW S, NEW q \in Seq(S)
    PROVE  /\ Len(q) \in Nat /\ DOMAIN q = 1..Len(q) /\ q \in [1..Len(q) -> S]
           /\ q # <<>> => /\ Head(q) \in S /\ Head(q) = q[1] /\ Len(q) \in Nat \ {0}
                         /\ Tail(q) \in Seq(S) /\ Len(Tail(q)) = Len(q) - 1
                         /\ \A i \in 1..Len(q) - 1 : Tail(q)[i] = q[i + 1]
OBVIOUS

LEMMA FunSeq ==
    ASSUME NEW S, NEW n \in Nat, NEW q \in [1..n -> S]
    PROVE  q \in Seq(S) /\ Len(q) = n
OBVIOUS

(* The worker only answers the operation it worked for.                    *)
LEMMA WorksFacts ==
    ASSUME Base, Works
    PROVE  /\ Head(queue) \in [token : Tokens \cup {0}, request : Requests]
           /\ queue' \in Queue /\ Len(queue') = Len(queue) - 1 /\ Len(queue) \in Nat \ {0}
           /\ down' \subseteq Controls
           /\ ops' \in [Tokens -> Ops \cup {NoOp}]
           /\ \A u \in Tokens \ {Head(queue).token} : ops'[u] = ops[u]
           /\ \A u \in Tokens : ops[u].at # "await" => ops'[u] = ops[u]
           /\ \A u \in Tokens : Live(u) =>
                 /\ Live(u)'
                 /\ ops'[u].client = ops[u].client /\ ops'[u].lease = ops[u].lease
                 /\ ops'[u].todo = ops[u].todo
                 /\ ops'[u].newHeld = ops[u].newHeld /\ ops'[u].newOwner = ops[u].newOwner
                 /\ ops'[u] = ops[u] \/ (ops[u].at = "await" /\ ops'[u].at = "finish")
<1> DEFINE t == Head(queue).token
<1>1. queue \in Queue /\ queue # <<>> /\ queue' = Tail(queue) /\ ops \in [Tokens -> Ops \cup {NoOp}]
  BY DEF Base, Types, Works
<1>2. /\ Head(queue) \in [token : Tokens \cup {0}, request : Requests]
      /\ queue' \in Queue /\ Len(queue') = Len(queue) - 1 /\ Len(queue) \in Nat \ {0}
  BY <1>1, SeqFacts DEF Queue
<1>3. Head(queue).request.control \in Controls
  BY <1>2 DEF Requests
<1>4. down' \subseteq Controls
  BY <1>3 DEF Base, Types, Works
<1>5. CASE ops' = ops
  BY <1>1, <1>2, <1>4, <1>5 DEF Live
<1>6. CASE ops' # ops
  <2>1. PICK ok \in BOOLEAN : ops' = Answer(t, ok)
    BY DEF Works
  <2>2. t \in Tokens /\ ops[t].at = "await" /\ ops' = [ops EXCEPT ![t].at = "finish", ![t].accepted = ok]
    BY <1>2, <1>6, <2>1 DEF Answer
  <2>3. ops[t] \in Ops
    BY <2>2, LiveFacts DEF Live, Base
  <2> DEFINE n == [ops[t] EXCEPT !.at = "finish", !.accepted = ok]
  <2>4. /\ n \in Ops /\ n.at = "finish" /\ n.client = ops[t].client /\ n.lease = ops[t].lease
        /\ n.todo = ops[t].todo /\ n.newHeld = ops[t].newHeld /\ n.newOwner = ops[t].newOwner
    BY <2>3 DEF Ops, Stages
  <2>5. ops' = [ops EXCEPT ![t] = n]
    BY <1>1, <2>2
  <2>6. ops' \in [Tokens -> Ops \cup {NoOp}] /\ ops'[t] = n /\ \A u \in Tokens \ {t} : ops'[u] = ops[u]
    BY <1>1, <2>2, <2>4, <2>5, ZenonT(60), SMTT(60)
  <2> QED
    BY <1>2, <1>4, <2>2, <2>4, <2>6 DEF Live
<1> QED
  BY <1>5, <1>6

LEMMA WorksBase ==
    ASSUME Base, Works
    PROVE  Base' /\ \A u \in Tokens : Injects(u)' => Injects(u)
<1>1. /\ UNCHANGED <<known, sess, owners, reserved, reaping, mode, toStop>>
      /\ excused' \subseteq excused /\ crossed' \subseteq crossed
  BY DEF Works
<1>2. ASSUME NEW u \in Tokens, Live(u)'
      PROVE  /\ Live(u)
             /\ ops'[u].client = ops[u].client /\ ops'[u].lease = ops[u].lease
             /\ ops'[u].todo = ops[u].todo
             /\ ops'[u].newHeld = ops[u].newHeld /\ ops'[u].newOwner = ops[u].newOwner
             /\ ops'[u] = ops[u] \/ (ops[u].at = "await" /\ ops'[u].at = "finish")
  <2>1. Live(u)
    BY <1>2, WorksFacts DEF Live
  <2> QED BY <2>1, WorksFacts
<1>3. Types'
  BY <1>1, WorksFacts DEF Base, Types
<1>4. SessionsOK' /\ Registered' /\ LedgersAgree'
  BY <1>1 DEF Base, SessionsOK, Registered, LedgersAgree
<1>5. OpsInv'
  <2>1. ASSUME NEW u \in Tokens, Live(u)' PROVE OpOK(u)'
    <3>1. OpOK(u) /\ Live(u)
      BY <1>2, <2>1 DEF Base, OpsInv
    <3> QED BY <1>2, <2>1, <3>1 DEF OpOK
  <2> QED BY <1>1, <2>1 DEF Base, OpsInv
<1>6. InFlightIsLive'
  <2> SUFFICES ASSUME mode' = "serving", NEW c \in Clients, sess'[c].inFlight # 0
      PROVE ops'[sess'[c].inFlight].at # "none" /\ ops'[sess'[c].inFlight].client = c
    BY DEF InFlightIsLive, Live
  <2>1. /\ sess'[c].inFlight = sess[c].inFlight /\ sess[c].inFlight \in Tokens
        /\ Live(sess[c].inFlight) /\ ops[sess[c].inFlight].client = c
    BY <1>1, SessionFacts DEF Base, InFlightIsLive
  <2> QED BY <2>1, WorksFacts DEF Live
<1>7. ASSUME NEW u \in Tokens, Injects(u)'
      PROVE  Injects(u) /\ ops'[u].client = ops[u].client /\ ops'[u].todo = ops[u].todo
  <2>1. Live(u)'
    BY <1>7 DEF Injects, Live
  <2> QED
    BY <1>1, <1>2, <1>7, <2>1 DEF Injects, Reserved, Owned
<1>8. InjectorOwns'
  BY <1>1, <1>7 DEF Base, InjectorOwns, Subject
<1>9. Len(queue') <= QueueCap
  BY WorksFacts, MobileAssumption DEF Base
<1> QED
  BY <1>1, <1>3, <1>4, <1>5, <1>6, <1>7, <1>8, <1>9 DEF Base

LEMMA ShutdownFacts ==
    ASSUME Base, Shutdown
    PROVE  /\ queue' \in Queue /\ Len(queue') = Len(queue) /\ DOMAIN queue' = DOMAIN queue
           /\ \A i \in DOMAIN queue : queue'[i].token = 0 /\ queue'[i].request = queue[i].request
           /\ \A u \in Tokens : ~Live(u)'
           /\ Queued' = Queued
<1>1. queue \in Queue /\ queue' = [i \in DOMAIN queue |-> [queue[i] EXCEPT !.token = 0]]
  BY DEF Base, Types, Shutdown
<1> DEFINE n == Len(queue)
<1>2. n \in Nat /\ queue \in [1..n -> [token : Tokens \cup {0}, request : Requests]]
  BY <1>1, SeqFacts DEF Queue
<1>3. DOMAIN queue = 1..n
  BY <1>2
<1>4. \A i \in 1..n : /\ queue'[i] \in [token : Tokens \cup {0}, request : Requests]
                      /\ queue'[i].token = 0 /\ queue'[i].request = queue[i].request
  BY <1>1, <1>2, <1>3
<1>5. queue' \in [1..n -> [token : Tokens \cup {0}, request : Requests]]
  BY <1>1, <1>3, <1>4
<1>6. queue' \in Queue /\ Len(queue') = n /\ Len(queue) = n /\ DOMAIN queue' = 1..n
  BY <1>2, <1>5, FunSeq DEF Queue
<1>7. Queued' = Queued
  BY <1>3, <1>4, <1>6 DEF Queued
<1>8. \A u \in Tokens : ~Live(u)'
  BY DEF Shutdown, Live, NoOp
<1> QED
  BY <1>3, <1>4, <1>6, <1>7, <1>8

LEMMA ShutdownBase ==
    ASSUME Base, Shutdown
    PROVE  Base' /\ \A u \in Tokens : ~Injects(u)'
<1>1. /\ UNCHANGED <<known, sess, owners, reserved, down, excused, crossed>>
      /\ mode' = "stopping" /\ reaping' = {} /\ toStop' = known
      /\ ops' = [t \in Tokens |-> NoOp]
  BY DEF Shutdown, ToStop, ledgers, history
<1>2. Types' /\ Registered' /\ Len(queue') <= QueueCap
  BY <1>1, ShutdownFacts DEF Base, Types, Registered
<1>3. SessionsOK' /\ LedgersAgree' /\ InFlightIsLive'
  BY <1>1 DEF Base, SessionsOK, LedgersAgree, InFlightIsLive
<1>4. OpsInv'
  BY <1>1, ShutdownFacts DEF Base, OpsInv
<1>5. \A u \in Tokens : ~Injects(u)'
  BY <1>1 DEF Injects, NoOp
<1> QED
  BY <1>1, <1>2, <1>3, <1>4, <1>5 DEF Base, InjectorOwns

LEMMA SameOps ==
    ASSUME Base, UNCHANGED <<ledgers, ops, world, reaping, toStop, history>>,
           mode' = mode \/ Stopped
    PROVE  Base' /\ \A u \in Tokens : (Injects(u)' <=> Injects(u)) /\ (Live(u)' <=> Live(u))
<1>1. /\ UNCHANGED <<known, sess, owners, reserved, ops, queue, down, reaping, toStop, excused, crossed>>
      /\ mode' = mode \/ (mode' = "stopped" /\ mode = "stopping")
  BY DEF ledgers, world, history, Stopped
<1>2. Types' /\ SessionsOK' /\ Registered' /\ LedgersAgree' /\ InFlightIsLive'
  BY <1>1 DEF Base, Types, SessionsOK, Registered, LedgersAgree, InFlightIsLive, Live
<1>3. OpsInv'
  BY <1>1 DEF Base, OpsInv, Live, OpOK
<1>4. \A u \in Tokens : (Injects(u)' <=> Injects(u)) /\ (Live(u)' <=> Live(u))
  BY <1>1 DEF Injects, Reserved, Owned, Live
<1>5. InjectorOwns'
  BY <1>1, <1>4 DEF Base, InjectorOwns, Subject
<1> QED
  BY <1>1, <1>2, <1>3, <1>4, <1>5 DEF Base

LEMMA InitBase == Init => Base
<1> SUFFICES ASSUME Init PROVE Base
  OBVIOUS
<1>1. Types
  BY NewSessionFacts DEF Init, Types, Queue
<1>2. SessionsOK
  <2>1. Cardinality({}) = 0
    BY FS_EmptySet
  <2>2. MaxHeld \in Nat /\ \A c \in Clients : 0 <= MaxSeq[c]
    BY MobileAssumption
  <2>3. \A c \in Clients : sess[c] = NewSession
    BY DEF Init
  <2>4. \A c \in Clients : sess[c].held = {} /\ sess[c].last = 0
    BY <2>3, NewSessionFacts
  <2>5. 0 <= MaxHeld
    BY <2>2
  <2> QED BY <2>1, <2>2, <2>3, <2>4, <2>5 DEF SessionsOK
<1>3. \A t \in Tokens : ~Live(t) /\ ~Injects(t)
  BY DEF Init, Live, Injects, NoOp
<1>4. Registered /\ LedgersAgree /\ InFlightIsLive /\ OpsInv /\ InjectorOwns
  BY <1>3, NewSessionFacts DEF Init, Registered, LedgersAgree, InFlightIsLive, OpsInv, InjectorOwns
<1>5. mode \in {"serving", "stopping", "stopped"} /\ Len(queue) <= QueueCap
  BY MobileAssumption DEF Init
<1> QED
  BY <1>1, <1>2, <1>4, <1>5 DEF Base

LEMMA NextBase == Base /\ [Next]_vars => Base'
<1> SUFFICES ASSUME Base, [Next]_vars PROVE Base'
  OBVIOUS
<1>1. CASE UNCHANGED vars
  BY <1>1, SameOps DEF vars, control
<1>2. CASE Next
  <2>1. CASE Stopped
    BY <2>1, SameOps DEF Stopped
  <2> QED
    BY <1>2, <2>1, Steps, VisitsBase, BeginsBase, TaskStepBase, WorksBase, ShutdownBase
<1> QED
  BY <1>1, <1>2

LEMMA BaseAgrees == Base => SessionsAgree
<1> SUFFICES ASSUME Base PROVE SessionsAgree
  OBVIOUS
<1>1. /\ Types /\ SessionsOK /\ Registered /\ LedgersAgree /\ InFlightIsLive
      /\ mode \in {"serving", "stopping", "stopped"} /\ Len(queue) <= QueueCap
  BY DEF Base
<1>2. MobileTypeOK
  BY <1>1 DEF Types, SessionsOK, Registered, MobileTypeOK, Queue
<1> QED
  BY <1>1, <1>2 DEF SessionsAgree

LEMMA BaseInv == Spec => []Base
BY InitBase, NextBase, PTL DEF Spec

(* The two ledgers of process_mobile_inject_envelope and                   *)
(* process_mobile_release_batch, the lease reaper and the shutdown agree   *)
(* on who holds what, and an operation in flight has a task that runs.     *)
THEOREM LedgersAlwaysAgree == Spec => []SessionsAgree
BY BaseInv, BaseAgrees, PTL

-----------------------------------------------------------------------------
(* The queued events and the operations that wait for them.                *)

LEMMA QueueFacts ==
    ASSUME Base
    PROVE  /\ Len(queue) \in Nat /\ DOMAIN queue = 1..Len(queue)
           /\ \A i \in DOMAIN queue : /\ queue[i].token \in Tokens \cup {0}
                                      /\ queue[i].request \in Requests
                                      /\ queue[i].request.control \in Controls
           /\ 0 \notin Tokens
<1>1. queue \in Seq([token : Tokens \cup {0}, request : Requests])
  BY DEF Base, Types, Queue
<1>2. Len(queue) \in Nat /\ DOMAIN queue = 1..Len(queue)
      /\ queue \in [1..Len(queue) -> [token : Tokens \cup {0}, request : Requests]]
  BY <1>1, SeqFacts
<1>3. \A i \in DOMAIN queue : queue[i] \in [token : Tokens \cup {0}, request : Requests]
  BY <1>2
<1> QED
  BY <1>2, <1>3, TokenFacts DEF Requests

LEMMA QueueSame ==
    ASSUME Base, QueueInv, UNCHANGED queue,
           \A u \in Tokens : ops[u].at = "await" => ops'[u] = ops[u]
    PROVE  QueueInv'
BY QueueFacts DEF QueueInv

LEMMA AppendFacts ==
    ASSUME NEW S, NEW q \in Seq(S), NEW e \in S
    PROVE  /\ Append(q, e) \in Seq(S) /\ Len(Append(q, e)) = Len(q) + 1
           /\ DOMAIN Append(q, e) = 1..Len(q) + 1
           /\ \A i \in 1..Len(q) : Append(q, e)[i] = q[i]
           /\ Append(q, e)[Len(q) + 1] = e
OBVIOUS

LEMMA EnqueueFacts ==
    ASSUME Base, NEW t \in Tokens, Enqueues(t)
    PROVE  /\ DOMAIN queue = 1..Len(queue) /\ Len(queue) \in Nat
           /\ DOMAIN queue' = 1..Len(queue) + 1 /\ Len(queue') = Len(queue) + 1
           /\ \A i \in 1..Len(queue) : queue'[i] = queue[i]
           /\ queue'[Len(queue) + 1].token = t
           /\ queue'[Len(queue) + 1].request = Request(t)
           /\ Request(t) \in Requests
<1>1. Live(t) /\ ops[t].at # "end"
  BY DEF Enqueues, Live
<1>2. Request(t) \in Requests
  BY <1>1, HeadFacts DEF Base, Request
<1>3. [token |-> t, request |-> Request(t)] \in [token : Tokens \cup {0}, request : Requests]
  BY <1>2
<1>4. queue \in Seq([token : Tokens \cup {0}, request : Requests])
      /\ queue' = Append(queue, [token |-> t, request |-> Request(t)])
  BY DEF Base, Types, Queue, Enqueues
<1> QED
  BY <1>2, <1>3, <1>4, AppendFacts, QueueFacts

LEMMA WorkQueueFacts ==
    ASSUME Base, Works
    PROVE  /\ DOMAIN queue = 1..Len(queue) /\ Len(queue) \in Nat \ {0}
           /\ DOMAIN queue' = 1..Len(queue) - 1 /\ Len(queue') = Len(queue) - 1
           /\ \A i \in DOMAIN queue' : i + 1 \in DOMAIN queue /\ queue'[i] = queue[i + 1]
           /\ Head(queue) = queue[1] /\ 1 \in DOMAIN queue
           /\ Active' \subseteq Active
<1>1. queue \in Seq([token : Tokens \cup {0}, request : Requests])
      /\ queue' = Tail(queue) /\ queue # <<>>
  BY DEF Base, Types, Queue, Works
<1>2. /\ DOMAIN queue = 1..Len(queue) /\ Len(queue) \in Nat \ {0}
      /\ Len(queue') = Len(queue) - 1 /\ DOMAIN queue' = 1..Len(queue')
      /\ \A i \in 1..Len(queue) - 1 : queue'[i] = queue[i + 1]
      /\ Head(queue) = queue[1]
  BY <1>1, SeqFacts
<1>3. /\ \A i \in DOMAIN queue' : i + 1 \in DOMAIN queue /\ queue'[i] = queue[i + 1]
      /\ 1 \in DOMAIN queue
  BY <1>2
<1>4. down' \subseteq down \cup {queue[1].request.control}
  BY <1>2 DEF Works
<1>5. Active' \subseteq Active
  BY <1>3, <1>4 DEF Active, Queued
<1> QED
  BY <1>2, <1>3, <1>5

LEMMA QueueStep ==
    ASSUME Base, QueueInv, Next
    PROVE  QueueInv'
<1>1. CASE Visits
  BY <1>1, QueueSame DEF Visits
<1>2. ASSUME NEW c \in Clients, NEW t \in Tokens, NEW lease \in BOOLEAN,
             NEW todo \in Seq(Requests), Begins(c, t, lease, todo)
      PROVE  QueueInv'
  BY <1>2, BeginsFacts, QueueSame, ZenonT(60), SMTT(60) DEF Begins, Live
<1>3. ASSUME NEW t \in Tokens, TaskStep(t) PROVE QueueInv'
  <2>1. \A u \in Tokens \ {t} : ops'[u] = ops[u]
    BY <1>3, TaskStepBase
  <2>2. ops[t].at # "await"
    BY <1>3 DEF TaskStep, Abandons, Leaves, Claims, Enqueues, Overflows, Completes, Refuses, Ends
  <2>3. CASE Enqueues(t)
    <3>1. ops'[t].at = "await" /\ Head(ops'[t].todo) = Request(t)
      BY <2>3 DEF Enqueues, GoesTo, Request
    <3>2. \A i \in DOMAIN queue : queue[i].token # t
      BY <2>2, QueueFacts DEF QueueInv
    <3> SUFFICES ASSUME NEW i \in DOMAIN queue', queue'[i].token # 0
        PROVE /\ ops'[queue'[i].token].at = "await"
              /\ queue'[i].request = Head(ops'[queue'[i].token].todo)
              /\ \A j \in DOMAIN queue' : queue'[j].token = queue'[i].token => j = i
      BY DEF QueueInv
    <3>3. CASE i = Len(queue) + 1
      BY <2>3, <3>1, <3>2, <3>3, EnqueueFacts
    <3>4. CASE i # Len(queue) + 1
      <4>1. i \in DOMAIN queue /\ queue'[i] = queue[i]
        BY <2>3, <3>4, EnqueueFacts
      <4>2. queue[i].token \in Tokens \ {t}
        BY <3>2, <4>1, QueueFacts
      <4> QED
        BY <2>1, <2>3, <4>1, <4>2, EnqueueFacts DEF QueueInv
    <3> QED BY <3>3, <3>4
  <2>4. CASE ~Enqueues(t)
    <3>1. queue' = queue
      BY <1>3, <2>4 DEF TaskStep, Abandons, Leaves, Claims, Overflows, Completes, Refuses, Ends
    <3> QED BY <2>1, <2>2, <3>1, QueueSame
  <2> QED BY <2>3, <2>4
<1>4. CASE Works
  <2> SUFFICES ASSUME NEW i \in DOMAIN queue', queue'[i].token # 0
      PROVE /\ ops'[queue'[i].token].at = "await"
            /\ queue'[i].request = Head(ops'[queue'[i].token].todo)
            /\ \A j \in DOMAIN queue' : queue'[j].token = queue'[i].token => j = i
    BY DEF QueueInv
  <2>1. i + 1 \in DOMAIN queue /\ queue'[i] = queue[i + 1] /\ i \in Nat \ {0}
        /\ Head(queue) = queue[1] /\ 1 \in DOMAIN queue
    BY <1>4, WorkQueueFacts
  <2>2. queue[1].token # queue[i + 1].token
    BY <2>1 DEF QueueInv
  <2>3. queue[i + 1].token \in Tokens \ {Head(queue).token}
    BY <2>1, <2>2, QueueFacts
  <2>4. ops'[queue'[i].token] = ops[queue'[i].token]
    BY <1>4, <2>1, <2>3, WorksFacts
  <2>5. \A j \in DOMAIN queue' : queue'[j].token = queue'[i].token => j = i
    <3> SUFFICES ASSUME NEW j \in DOMAIN queue', queue'[j].token = queue'[i].token PROVE j = i
      OBVIOUS
    <3>1. j + 1 \in DOMAIN queue /\ queue'[j] = queue[j + 1] /\ j \in Nat
      BY <1>4, WorkQueueFacts
    <3>2. j + 1 = i + 1
      BY <2>1, <3>1 DEF QueueInv
    <3> QED BY <2>1, <3>1, <3>2
  <2> QED BY <2>1, <2>4, <2>5 DEF QueueInv
<1>5. CASE Shutdown
  BY <1>5, ShutdownFacts DEF QueueInv
<1>6. CASE Stopped
  BY <1>6, QueueSame DEF Stopped, world
<1> QED
  BY <1>1, <1>2, <1>3, <1>4, <1>5, <1>6, Steps

-----------------------------------------------------------------------------
(* The last owner's release comes last.                                    *)

\* What every step that leaves the ledger of the owners alone does.
SameWorld ==
    UNCHANGED <<owners, queue, down>> /\ Waived \subseteq Waived'

LEMMA InjectorFacts ==
    ASSUME Base, NEW t \in Tokens, Injects(t)
    PROVE  /\ Live(t) /\ Owned(t) /\ Client(t) = ops[t].client /\ Client(t) \in Clients
           /\ Request(t) \in Requests /\ Subject(t) = Request(t).control
           /\ Subject(t) \in Controls /\ Client(t) \in owners[Subject(t)]
           /\ \A u \in Tokens : Injects(u) /\ Client(u) = Client(t) => u = t
           /\ \A k : Releases(t, k) => Subject(t) = k /\ ~Request(t).pressed
<1>1. Live(t) /\ Owned(t) /\ ops[t].at # "end" /\ Client(t) = ops[t].client
  BY DEF Injects, Live, Reserved, Client
<1>2. /\ Request(t) \in Requests /\ Subject(t) = Request(t).control
      /\ Subject(t) \in Controls /\ Client(t) \in Clients
  BY <1>1, HeadFacts, LiveFacts DEF Base, Request, Subject
<1>3. Client(t) \in owners[Subject(t)]
  BY <1>1 DEF Base, InjectorOwns
<1>4. \A u \in Tokens : Injects(u) /\ Client(u) = Client(t) => u = t
  BY <1>1, OwnedFacts DEF Injects, Reserved
<1>5. \A k : Releases(t, k) => Subject(t) = k /\ ~Request(t).pressed
  BY DEF Releases, Release, Subject, Request
<1> QED
  BY <1>1, <1>2, <1>3, <1>4, <1>5

LEMMA SameOwners ==
    ASSUME OwnersInv, SameWorld, OneReleases',
           \A u \in Tokens : Injects(u)' =>
              \/ Injects(u) /\ ops'[u] = ops[u]
              \/ ops'[u].at = "submit"
              \/ ops'[u].at = "finish" /\ ~ops'[u].accepted
    PROVE  OwnersInv'
<1>1. Active' = Active /\ Queued' = Queued
  BY DEF SameWorld, Active, Queued
<1>2. NoneActive'
  BY <1>1 DEF OwnersInv, NoneActive, SameWorld
<1>3. LastIsLast'
  <2> SUFFICES ASSUME NEW u \in Tokens, NEW k \in Controls, k \notin Waived',
                      Releases(u, k)', owners'[k] = {ops'[u].client}
      PROVE /\ ops'[u].at = "await" =>
                  \A i \in DOMAIN queue' : queue'[i].request.control = k =>
                     \E j \in i..Len(queue') : queue'[j].token = u
            /\ ops'[u].at = "finish" /\ ops'[u].accepted => k \notin Active'
    BY DEF LastIsLast
  <2>1. CASE Injects(u) /\ ops'[u] = ops[u]
    <3>1. Releases(u, k) /\ owners[k] = {ops[u].client} /\ k \notin Waived
      BY <2>1 DEF Releases, SameWorld
    <3> QED BY <1>1, <2>1, <3>1 DEF OwnersInv, LastIsLast, SameWorld
  <2>2. CASE ops'[u].at = "submit"
    BY <2>2
  <2>3. CASE ops'[u].at = "finish" /\ ~ops'[u].accepted
    BY <2>3
  <2> QED BY <2>1, <2>2, <2>3 DEF Releases
<1> QED
  BY <1>2, <1>3 DEF OwnersInv

LEMMA SameInjectors ==
    ASSUME OwnersInv, SameWorld,
           \A u \in Tokens : Injects(u)' => Injects(u) /\ ops'[u] = ops[u]
    PROVE  OwnersInv'
<1>1. OneReleases'
  BY DEF OwnersInv, OneReleases, Releases
<1> QED
  BY <1>1, SameOwners

LEMMA ClaimsOwners ==
    ASSUME Base, OwnersInv, NEW t \in Tokens, Claims(t)
    PROVE  OwnersInv'
<1> DEFINE c == Client(t)
           r == Request(t)
<1>1. /\ \A u \in Tokens \ {t} : ops'[u] = ops[u] /\ (Injects(u)' => Injects(u))
      /\ ops'[t].at = "submit" /\ Head(ops'[t].todo) = r /\ c = ops[t].client
      /\ ops'[t].client = c
  BY TaskStepBase DEF TaskStep, Claims, GoesTo, Request, Client
<1>2. Live(t) /\ Owned(t) /\ ops[t].at # "end" /\ ~Injects(t)
  BY DEF Claims, Live, Injects
<1>3. r \in Requests /\ r.control \in Controls
  BY <1>2, HeadFacts DEF Base, Request, Requests
<1>4. UNCHANGED <<queue, down, excused, crossed>>
  BY DEF Claims
<1>5. \A u \in Tokens \ {t} : Injects(u) => Client(u) # c /\ ops[u].client = Client(u)
  BY <1>2, OwnedFacts, InjectorFacts
<1>6. CASE ~r.pressed
  <2>1. SameWorld
    BY <1>4, <1>6 DEF Claims, SameWorld, Waived
  <2>2. owners[r.control] = {c}
    BY <1>6 DEF Claims, NoopRelease
  <2>3. OneReleases'
    <3>1. ASSUME NEW u \in Tokens \ {t}, NEW k \in Controls, Releases(u, k)', Releases(t, k)'
          PROVE  FALSE
      <4>1. Releases(u, k) /\ Injects(u) /\ k = r.control
        BY <1>1, <3>1 DEF Releases, Release
      <4>2. Client(u) \in owners[k]
        BY <4>1, InjectorFacts
      <4> QED BY <1>5, <2>2, <4>1, <4>2
    <3>2. ASSUME NEW u \in Tokens \ {t}, NEW v \in Tokens \ {t}, NEW k \in Controls,
                 Releases(u, k)', Releases(v, k)'
          PROVE  u = v
      <4>1. Releases(u, k) /\ Releases(v, k)
        BY <1>1, <3>2 DEF Releases
      <4> QED BY <4>1 DEF OwnersInv, OneReleases
    <3> QED BY <3>1, <3>2 DEF OneReleases
  <2> QED BY <1>1, <2>1, <2>3, SameOwners
<1>7. CASE r.pressed
  <2>1. /\ \A k \in Controls \ {r.control} : owners'[k] = owners[k]
        /\ owners'[r.control] = owners[r.control] \cup {c}
    <3>1. c \in Clients /\ owners' = Own(c, r)
      BY <1>2, <1>7, LiveFacts DEF Claims, Client, Base
    <3> QED BY <1>3, <1>7, <3>1, OwnFacts DEF Base
  <2>2. ASSUME NEW u \in Tokens, NEW k, Releases(u, k)'
        PROVE  u # t /\ Releases(u, k) /\ ops'[u] = ops[u]
    BY <1>1, <1>7, <2>2 DEF Releases, Release
  <2>3. Active' = Active /\ Waived' = Waived
    BY <1>4 DEF Active, Queued, Waived
  <2>4. OneReleases'
    BY <2>2 DEF OwnersInv, OneReleases
  <2>5. NoneActive'
    <3> SUFFICES ASSUME NEW k \in Controls, k \notin Waived', owners'[k] = {}
        PROVE k \notin Active'
      BY DEF NoneActive
    <3>1. owners[k] = {}
      BY <2>1
    <3> QED BY <2>3, <3>1 DEF OwnersInv, NoneActive
  <2>6. LastIsLast'
    <3> SUFFICES ASSUME NEW u \in Tokens, NEW k \in Controls, k \notin Waived',
                        Releases(u, k)', owners'[k] = {ops'[u].client}
        PROVE /\ ops'[u].at = "await" =>
                    \A i \in DOMAIN queue' : queue'[i].request.control = k =>
                       \E j \in i..Len(queue') : queue'[j].token = u
              /\ ops'[u].at = "finish" /\ ops'[u].accepted => k \notin Active'
      BY DEF LastIsLast
    <3>1. u # t /\ Releases(u, k) /\ ops'[u] = ops[u] /\ Injects(u)
      BY <2>2 DEF Releases
    <3>2. k # r.control
      BY <1>5, <2>1, <3>1
    <3>3. owners[k] = {ops[u].client}
      BY <2>1, <3>1, <3>2
    <3> QED
      BY <1>4, <2>3, <3>1, <3>3 DEF OwnersInv, LastIsLast
  <2> QED BY <2>4, <2>5, <2>6 DEF OwnersInv
<1> QED
  BY <1>6, <1>7

LEMMA DropsOwner ==
    ASSUME Base, OwnersInv, NEW t \in Tokens, NEW k \in Controls,
           UNCHANGED <<queue, down>>, Waived \subseteq Waived', ~Injects(t)',
           \A u \in Tokens \ {t} : ops'[u] = ops[u] /\ (Injects(u)' => Injects(u)),
           \A l \in Controls \ {k} : owners'[l] = owners[l],
           k \in Active \ Waived' =>
              /\ owners'[k] # {}
              /\ \A u \in Tokens \ {t} : Releases(u, k) /\ ops[u].at \in {"await", "finish"} =>
                    owners'[k] # {ops[u].client}
    PROVE  OwnersInv'
<1>1. Active' = Active /\ Queued' = Queued
  BY DEF Active, Queued
<1>2. ASSUME NEW u \in Tokens, NEW l, Releases(u, l)'
      PROVE  u # t /\ Releases(u, l) /\ ops'[u] = ops[u]
  BY <1>2 DEF Releases
<1>3. OneReleases'
  BY <1>2 DEF OwnersInv, OneReleases
<1>4. NoneActive'
  BY <1>1 DEF OwnersInv, NoneActive
<1>5. LastIsLast'
  <2> SUFFICES ASSUME NEW u \in Tokens, NEW l \in Controls, l \notin Waived',
                      Releases(u, l)', owners'[l] = {ops'[u].client}
      PROVE /\ ops'[u].at = "await" =>
                  \A i \in DOMAIN queue' : queue'[i].request.control = l =>
                     \E j \in i..Len(queue') : queue'[j].token = u
            /\ ops'[u].at = "finish" /\ ops'[u].accepted => l \notin Active'
    BY DEF LastIsLast
  <2>1. u # t /\ Releases(u, l) /\ ops'[u] = ops[u] /\ l \notin Waived
    BY <1>2
  <2>2. CASE l # k
    <3>1. owners[l] = {ops[u].client}
      BY <2>1, <2>2
    <3> QED BY <1>1, <2>1, <3>1 DEF OwnersInv, LastIsLast
  <2>3. CASE l = k
    <3>1. CASE k \notin Active
      <4>1. \A i \in DOMAIN queue : queue[i].request.control # k
        BY <3>1 DEF Active, Queued
      <4> QED BY <1>1, <2>3, <3>1, <4>1
    <3>2. CASE k \in Active
      BY <2>1, <2>3, <3>2
    <3> QED BY <3>1, <3>2
  <2> QED BY <2>2, <2>3
<1> QED
  BY <1>3, <1>4, <1>5 DEF OwnersInv

LEMMA LeavesOwners ==
    ASSUME Base, OwnersInv, NEW t \in Tokens, Leaves(t)
    PROVE  OwnersInv'
<1> DEFINE c == Client(t)
           r == Request(t)
           k == Subject(t)
<1>1. /\ \A u \in Tokens \ {t} : ops'[u] = ops[u] /\ (Injects(u)' => Injects(u))
      /\ ~Injects(t)' /\ ~Injects(t)
  BY TaskStepBase DEF TaskStep, Leaves, MovesOn, Injects
<1>2. /\ Live(t) /\ Owned(t) /\ ops[t].at # "end" /\ ~r.pressed /\ owners[r.control] # {c}
      /\ owners' = Own(c, r)
      /\ crossed' = IF Crosses(c, r) THEN crossed \cup {k} ELSE crossed
      /\ UNCHANGED <<queue, down, excused>>
  BY DEF Leaves, Live, NoopRelease
<1>3. r \in Requests /\ k \in Controls /\ r.control = k /\ c \in Clients
  BY <1>2, HeadFacts, LiveFacts DEF Base, Request, Subject, Client
<1>4. /\ \A l \in Controls \ {k} : owners'[l] = owners[l]
      /\ owners'[k] = owners[k] \ {c}
  BY <1>2, <1>3, OwnFacts, ZenonT(60), SMTT(60) DEF Base
<1>5. Waived \subseteq Waived'
  BY <1>2 DEF Waived
<1>6. CASE c \notin owners[k]
  <2>1. owners' = owners
    <3>1. owners \in [Controls -> SUBSET Clients] /\ owners' \in [Controls -> SUBSET Clients]
      BY <1>2, <1>3, OwnFacts DEF Base, Types
    <3> QED BY <1>4, <1>6, <3>1
  <2> QED
    BY <1>1, <1>2, <1>5, <2>1, SameInjectors DEF SameWorld
<1>7. CASE c \in owners[k] /\ k \in Active \ Waived'
  <2>1. ~Crosses(c, r)
    BY <1>2, <1>7 DEF Waived
  <2>2. PICK d \in owners[k] \ {c} : ~ReleaseUnderWay(d, k)
    BY <1>2, <1>3, <1>7, <2>1 DEF Crosses, Active
  <2>3. ASSUME NEW u \in Tokens, Releases(u, k), ops[u].at \in {"await", "finish"}
        PROVE  owners'[k] # {ops[u].client}
    BY <1>4, <2>2, <2>3 DEF ReleaseUnderWay, Releases, Injects
  <2> QED
    BY <1>1, <1>2, <1>3, <1>4, <1>5, <2>2, <2>3, DropsOwner
<1>8. CASE k \notin Active \ Waived'
  BY <1>1, <1>2, <1>3, <1>4, <1>5, <1>8, DropsOwner
<1> QED
  BY <1>6, <1>7, <1>8

LEMMA EnqueuesOwners ==
    ASSUME Base, OwnersInv, NEW t \in Tokens, Enqueues(t)
    PROVE  OwnersInv'
<1> DEFINE c == Client(t)
           k == Subject(t)
           n == Len(queue)
<1>1. /\ \A u \in Tokens \ {t} : ops'[u] = ops[u] /\ (Injects(u)' => Injects(u))
      /\ ops'[t].at = "await" /\ ops'[t].todo = ops[t].todo /\ ops'[t].client = ops[t].client
  BY TaskStepBase DEF TaskStep, Enqueues, GoesTo
<1>2. Injects(t) /\ UNCHANGED <<owners, down, excused, crossed>>
  BY DEF Enqueues, Injects
<1>3. /\ k \in Controls /\ c \in owners[k] /\ c = ops[t].client /\ k = Request(t).control
      /\ \A u \in Tokens \ {t} : Injects(u) => ops[u].client # c
  BY <1>2, InjectorFacts
<1>4. ASSUME NEW u \in Tokens, NEW l, Releases(u, l)'
      PROVE  Releases(u, l) /\ ops'[u].client = ops[u].client /\ (u # t => ops'[u] = ops[u])
  BY <1>1, <1>2, <1>4 DEF Releases
<1>5. OneReleases'
  BY <1>4 DEF OwnersInv, OneReleases
<1>6. /\ DOMAIN queue = 1..n /\ DOMAIN queue' = 1..n + 1 /\ Len(queue') = n + 1 /\ n \in Nat
      /\ \A i \in 1..n : queue'[i] = queue[i]
      /\ queue'[n + 1].token = t /\ queue'[n + 1].request.control = k
  BY <1>3, EnqueueFacts
<1>7. Active' \subseteq Active \cup {k} /\ Waived' = Waived
  <2>1. Queued' \subseteq Queued \cup {k}
    <3> SUFFICES ASSUME NEW i \in DOMAIN queue', queue'[i].request.control # k
        PROVE queue'[i].request.control \in Queued
      BY DEF Queued
    <3>1. i \in DOMAIN queue /\ queue'[i] = queue[i]
      BY <1>6
    <3> QED BY <3>1 DEF Queued
  <2> QED BY <1>2, <2>1 DEF Active, Waived
<1>8. NoneActive'
  BY <1>2, <1>3, <1>7 DEF OwnersInv, NoneActive
<1>9. LastIsLast'
  <2> SUFFICES ASSUME NEW u \in Tokens, NEW l \in Controls, l \notin Waived',
                      Releases(u, l)', owners'[l] = {ops'[u].client}
      PROVE /\ ops'[u].at = "await" =>
                  \A i \in DOMAIN queue' : queue'[i].request.control = l =>
                     \E j \in i..Len(queue') : queue'[j].token = u
            /\ ops'[u].at = "finish" /\ ops'[u].accepted => l \notin Active'
    BY DEF LastIsLast
  <2>1. CASE u = t
    BY <1>1, <1>6, <2>1
  <2>2. CASE u # t
    <3>1. Releases(u, l) /\ owners[l] = {ops[u].client} /\ ops'[u] = ops[u] /\ Injects(u)
      BY <1>2, <1>4, <2>2 DEF Releases
    <3>2. l # k
      BY <1>3, <2>2, <3>1
    <3>3. ops[u].at = "finish" /\ ops[u].accepted => l \notin Active
      BY <1>7, <3>1 DEF OwnersInv, LastIsLast
    <3>4. ASSUME ops[u].at = "await", NEW i \in DOMAIN queue', queue'[i].request.control = l
          PROVE  \E j \in i..Len(queue') : queue'[j].token = u
      <4>1. i \in 1..n /\ queue[i].request.control = l
        BY <1>6, <3>2, <3>4
      <4>2. PICK j \in i..n : queue[j].token = u
        BY <1>6, <1>7, <3>1, <3>4, <4>1 DEF OwnersInv, LastIsLast
      <4>3. j \in i..Len(queue') /\ queue'[j] = queue[j]
        BY <1>6, <4>1, <4>2
      <4> QED BY <4>2, <4>3
    <3> QED BY <1>7, <3>1, <3>2, <3>3, <3>4
  <2> QED BY <2>1, <2>2
<1> QED
  BY <1>5, <1>8, <1>9 DEF OwnersInv

LEMMA CompletesOwners ==
    ASSUME Base, OwnersInv, NEW t \in Tokens, Completes(t)
    PROVE  OwnersInv'
<1> DEFINE c == Client(t)
           r == Request(t)
           k == Subject(t)
<1>1. /\ \A u \in Tokens \ {t} : ops'[u] = ops[u] /\ (Injects(u)' => Injects(u))
      /\ ~Injects(t)' /\ Injects(t)
  BY TaskStepBase DEF TaskStep, Completes, MovesOn, Injects
<1>2. /\ ops[t].at = "finish" /\ ops[t].accepted /\ owners' = Own(c, r)
      /\ UNCHANGED <<queue, down, excused, crossed>> /\ Waived' = Waived
  BY DEF Completes, Waived
<1>3. /\ r \in Requests /\ k \in Controls /\ r.control = k /\ c \in Clients
      /\ c \in owners[k] /\ c = ops[t].client
  BY <1>1, InjectorFacts
<1>4. /\ \A l \in Controls \ {k} : owners'[l] = owners[l]
      /\ owners'[k] = IF r.pressed THEN owners[k] \cup {c} ELSE owners[k] \ {c}
  <2> DEFINE O == Own(c, r)
  <2>1. /\ \A l \in Controls \ {r.control} : O[l] = owners[l]
        /\ O[r.control] = IF r.pressed THEN owners[r.control] \cup {c} ELSE owners[r.control] \ {c}
    BY <1>3, OwnFacts DEF Base
  <2>2. owners' = O
    BY <1>2
  <2> HIDE DEF O
  <2> QED BY <1>3, <2>1, <2>2
<1>5. CASE r.pressed
  <2>1. owners' = owners
    <3>1. owners \in [Controls -> SUBSET Clients] /\ owners' \in [Controls -> SUBSET Clients]
      BY <1>2, <1>3, OwnFacts DEF Base, Types
    <3> QED BY <1>3, <1>4, <1>5, <3>1
  <2> QED
    BY <1>1, <1>2, <2>1, SameInjectors DEF SameWorld
<1>6. CASE ~r.pressed
  <2>1. Releases(t, k)
    BY <1>1, <1>3, <1>6 DEF Releases, Release, Request, Requests
  <2>2. owners[k] = {c} => k \notin Active \/ k \in Waived
    BY <1>2, <1>3, <2>1 DEF OwnersInv, LastIsLast
  <2>3. \A u \in Tokens \ {t} : ~Releases(u, k)
    BY <1>3, <2>1 DEF OwnersInv, OneReleases
  <2>4. owners'[k] = {} => owners[k] = {c}
    BY <1>3, <1>4, <1>6
  <2> QED
    BY <1>1, <1>2, <1>3, <1>4, <2>2, <2>3, <2>4, DropsOwner
<1> QED
  BY <1>5, <1>6

LEMMA RefusesOwners ==
    ASSUME Base, OwnersInv, NEW t \in Tokens, Refuses(t)
    PROVE  OwnersInv'
<1> DEFINE c == Client(t)
           k == Subject(t)
<1>1. /\ \A u \in Tokens \ {t} : ops'[u] = ops[u] /\ (Injects(u)' => Injects(u))
      /\ ~Injects(t)' /\ Injects(t)
  BY TaskStepBase DEF TaskStep, Refuses, MovesOn, Injects
<1>2. /\ UNCHANGED <<queue, down, crossed>> /\ Waived \subseteq Waived'
  BY DEF Refuses, Waived
<1>3. k \in Controls /\ c \in Clients /\ Release(k) \in Requests
      /\ Release(k).control = k /\ ~Release(k).pressed
  BY <1>1, InjectorFacts DEF Release, Requests
<1>4. CASE ops[t].newOwner
  <2>1. owners' = Own(c, Release(k)) /\ (k \in Active => k \in Waived')
    BY <1>4 DEF Refuses, Waived
  <2>2. \A l \in Controls \ {k} : owners'[l] = owners[l]
    BY <1>3, <2>1, OwnFacts DEF Base
  <2> QED
    BY <1>1, <1>2, <1>3, <2>1, <2>2, DropsOwner
<1>5. CASE ~ops[t].newOwner
  <2>1. owners' = owners
    BY <1>5 DEF Refuses
  <2> QED
    BY <1>1, <1>2, <2>1, SameInjectors DEF SameWorld
<1> QED
  BY <1>4, <1>5

LEMMA TaskOwners ==
    ASSUME Base, OwnersInv, NEW t \in Tokens, TaskStep(t)
    PROVE  OwnersInv'
<1>1. \A u \in Tokens \ {t} : ops'[u] = ops[u] /\ (Injects(u)' => Injects(u))
  BY TaskStepBase
<1>2. CASE Abandons(t)
  <2>1. ~Injects(t)' /\ SameWorld
    BY <1>2 DEF Abandons, MovesOn, Injects, SameWorld, Waived
  <2> QED BY <1>1, <2>1, SameInjectors
<1>3. CASE Overflows(t)
  <2>1. /\ ops'[t].at = "finish" /\ ~ops'[t].accepted /\ ops'[t].todo = ops[t].todo
        /\ Injects(t) /\ SameWorld
    BY <1>3 DEF Overflows, GoesTo, Injects, SameWorld, Waived
  <2>2. OneReleases'
    <3>1. \A u \in Tokens, k \in Controls : Releases(u, k)' => Releases(u, k)
      BY <1>1, <2>1 DEF Releases
    <3> QED BY <3>1 DEF OwnersInv, OneReleases
  <2> QED BY <1>1, <2>1, <2>2, SameOwners
<1>4. CASE Ends(t)
  <2>1. ~Injects(t)' /\ SameWorld
    BY <1>4, EndsBase DEF Ends, SameWorld, Waived
  <2> QED BY <1>1, <2>1, SameInjectors
<1> QED
  BY <1>2, <1>3, <1>4, LeavesOwners, ClaimsOwners, EnqueuesOwners, CompletesOwners,
     RefusesOwners DEF TaskStep

LEMMA WorksOwners ==
    ASSUME Base, QueueInv, OwnersInv, Works
    PROVE  OwnersInv'
<1> DEFINE e == Head(queue)
<1>1. /\ UNCHANGED owners /\ Active' \subseteq Active
      /\ Waived' = Waived \cap Active'
  BY WorkQueueFacts DEF Works, Waived
<1>2. ASSUME NEW u \in Tokens, NEW k, Releases(u, k)'
      PROVE  /\ Injects(u) /\ Releases(u, k) /\ Live(u) /\ ops'[u].client = ops[u].client
             /\ ops'[u] = ops[u] \/ (ops[u].at = "await" /\ ops'[u].at = "finish")
  <2>1. Injects(u) /\ Live(u)
    BY <1>2, WorksBase DEF Releases, Injects, Live
  <2> QED BY <1>2, <2>1, WorksFacts DEF Releases
<1>3. OneReleases'
  BY <1>2 DEF OwnersInv, OneReleases
<1>4. NoneActive'
  BY <1>1 DEF OwnersInv, NoneActive
<1>5. LastIsLast'
  <2> SUFFICES ASSUME NEW u \in Tokens, NEW k \in Controls, k \notin Waived', k \in Active',
                      Releases(u, k)', owners'[k] = {ops'[u].client}
      PROVE /\ ops'[u].at = "await" =>
                  \A i \in DOMAIN queue' : queue'[i].request.control = k =>
                     \E j \in i..Len(queue') : queue'[j].token = u
            /\ ~(ops'[u].at = "finish" /\ ops'[u].accepted)
    <3>1. ASSUME NEW k \in Controls, k \notin Active'
          PROVE  \A i \in DOMAIN queue' : queue'[i].request.control # k
      BY <3>1 DEF Active, Queued
    <3> QED BY <3>1 DEF LastIsLast
  <2>1. /\ k \in Active \ Waived /\ Releases(u, k) /\ owners[k] = {ops[u].client}
        /\ Live(u)
    BY <1>1, <1>2
  <2>2. CASE ops'[u].at = "await"
    <3>1. ops'[u] = ops[u] /\ ops[u].at = "await"
      BY <1>2, <2>2
    <3>2. ASSUME NEW i \in DOMAIN queue', queue'[i].request.control = k
          PROVE  \E j \in i..Len(queue') : queue'[j].token = u
      <4>1. /\ i + 1 \in DOMAIN queue /\ queue[i + 1].request.control = k
            /\ i \in Nat /\ Len(queue) \in Nat /\ Len(queue') = Len(queue) - 1
            /\ DOMAIN queue' = 1..Len(queue')
        <5>1. /\ i + 1 \in DOMAIN queue /\ queue'[i] = queue[i + 1]
              /\ Len(queue) \in Nat /\ Len(queue') = Len(queue) - 1
              /\ DOMAIN queue' = 1..Len(queue) - 1
          BY WorkQueueFacts
        <5> QED BY <3>2, <5>1, SMTT(60), ZenonT(60)
      <4>2. PICK j \in i + 1..Len(queue) : queue[j].token = u
        BY <2>1, <3>1, <4>1 DEF OwnersInv, LastIsLast
      <4>3. j - 1 \in i..Len(queue') /\ j - 1 \in DOMAIN queue'
        BY <3>2, <4>1, <4>2
      <4>4. queue'[j - 1] = queue[j]
        BY <4>1, <4>2, <4>3, WorkQueueFacts
      <4> QED BY <4>2, <4>3, <4>4
    <3> QED BY <2>2, <3>2
  <2>3. CASE ops'[u].at = "finish" /\ ops'[u].accepted
    <3>1. CASE ops'[u] = ops[u]
      BY <2>1, <2>3, <3>1 DEF OwnersInv, LastIsLast
    <3>2. CASE ops'[u] # ops[u]
      <4>1. ops[u].at = "await" /\ u = e.token /\ u # 0
        BY <1>2, <3>2, WorksFacts, QueueFacts
      <4>2. ops' = Answer(u, TRUE) /\ k \notin down'
        <5>1. e.request = Release(k)
          BY <2>1, <4>1, WorkQueueFacts DEF QueueInv, Releases
        <5>2. ops' = Answer(u, FALSE) => ~ops'[u].accepted
          BY <2>1, <4>1, LiveFacts DEF Answer, Base, Types, Ops
        <5>3. ~e.request.pressed /\ e.request.control = k
          BY <5>1 DEF Release
        <5>4. \/ ops' = Answer(u, TRUE) /\ down' = down \ {k}
              \/ ops' = Answer(u, FALSE)
          BY <4>1, <5>3 DEF Works
        <5> QED BY <2>3, <5>2, <5>4
      <4>3. \A i \in DOMAIN queue' : queue'[i].request.control # k
        <5> SUFFICES ASSUME NEW i \in DOMAIN queue', queue'[i].request.control = k PROVE FALSE
          OBVIOUS
        <5>1. /\ i + 1 \in DOMAIN queue /\ queue[i + 1].request.control = k
              /\ i \in Nat \ {0} /\ queue[1].token = u /\ 1 \in DOMAIN queue
              /\ DOMAIN queue = 1..Len(queue) /\ Len(queue) \in Nat
          BY <4>1, WorkQueueFacts
        <5>2. PICK j \in i + 1..Len(queue) : queue[j].token = u
          BY <2>1, <4>1, <5>1 DEF OwnersInv, LastIsLast
        <5>3. j = 1
          BY <4>1, <5>1, <5>2 DEF QueueInv
        <5> QED BY <5>1, <5>2, <5>3
      <4> QED BY <4>2, <4>3 DEF Active, Queued
    <3> QED BY <3>1, <3>2
  <2> QED BY <2>2, <2>3
<1> QED
  BY <1>3, <1>4, <1>5 DEF OwnersInv

LEMMA OwnersStep ==
    ASSUME Base, QueueInv, OwnersInv, Next
    PROVE  OwnersInv'
<1>1. CASE Visits
  <2>1. SameWorld /\ ops' = ops
    BY <1>1 DEF Visits, SameWorld, Waived
  <2> QED BY <1>1, <2>1, VisitsBase, SameInjectors
<1>2. ASSUME NEW c \in Clients, NEW t \in Tokens, NEW lease \in BOOLEAN,
             NEW todo \in Seq(Requests), Begins(c, t, lease, todo)
      PROVE  OwnersInv'
  <2>1. SameWorld
    BY <1>2 DEF Begins, SameWorld, Waived
  <2> QED BY <1>2, <2>1, BeginsBase, SameInjectors
<1>3. CASE Shutdown
  <2>1. UNCHANGED <<owners, down, excused, crossed>> /\ Queued' = Queued
    BY <1>3, ShutdownFacts DEF Shutdown, ledgers, history
  <2>2. \A u \in Tokens : ~Injects(u)'
    BY <1>3, ShutdownBase
  <2>3. OneReleases' /\ LastIsLast'
    BY <2>2 DEF OneReleases, LastIsLast, Releases
  <2>4. NoneActive'
    BY <2>1 DEF OwnersInv, NoneActive, Active, Waived
  <2> QED BY <2>3, <2>4 DEF OwnersInv
<1>4. CASE Stopped
  <2>1. SameWorld /\ ops' = ops
    BY <1>4 DEF Stopped, ledgers, world, history, SameWorld, Waived
  <2> QED BY <1>4, <2>1, SameOps, SameInjectors DEF Stopped
<1> QED
  BY <1>1, <1>2, <1>3, <1>4, Steps, TaskOwners, WorksOwners

(* What is down or on its way down has an owner.                           *)
OwnersIInv == Base /\ QueueInv /\ OwnersInv

LEMMA OwnedInit == Init => OwnersIInv
<1> SUFFICES ASSUME Init PROVE OwnersIInv
  OBVIOUS
<1>1. QueueInv /\ Active = {}
  BY DEF Init, QueueInv, Active, Queued
<1>2. \A t \in Tokens : ~Injects(t)
  BY DEF Init, Injects, NoOp
<1>3. OwnersInv
  BY <1>1, <1>2 DEF OwnersInv, OneReleases, LastIsLast, NoneActive, Releases
<1> QED
  BY <1>1, <1>3, InitBase DEF OwnersIInv

LEMMA OwnedNext == OwnersIInv /\ [Next]_vars => OwnersIInv'
<1> SUFFICES ASSUME OwnersIInv, [Next]_vars PROVE OwnersIInv'
  OBVIOUS
<1>1. CASE UNCHANGED vars
  <2>1. SameWorld /\ ops' = ops /\ queue' = queue
    BY <1>1 DEF vars, ledgers, world, history, SameWorld, Waived
  <2>2. Base' /\ \A u \in Tokens : Injects(u)' => Injects(u)
    BY <1>1, SameOps DEF OwnersIInv, vars, control
  <2> QED
    BY <2>1, <2>2, QueueSame, SameInjectors DEF OwnersIInv
<1>2. CASE Next
  BY <1>2, NextBase, QueueStep, OwnersStep DEF OwnersIInv
<1> QED
  BY <1>1, <1>2

(* A task that has reserved a release as the last owner comes after every  *)
(* event of that control, through submit_reserved_mobile_injection and the *)
(* worker's answers, so nothing presses it once finish_mobile_request has  *)
(* removed the owner.                                                      *)
THEOREM OwnersAlways == Spec => []OwnersIInv
BY OwnedInit, OwnedNext, PTL DEF Spec

(* No stuck control: what submit_reserved_mobile_injection had pressed has *)
(* an owner, who can release it and whose lease runs out, whatever was     *)
(* refused, taken over or answered late; except where finish_mobile_       *)
(* request gives up on a control itself, and where mobile_release_is_noop  *)
(* let an owner go while the last one's release was under way.             *)
THEOREM DownAlwaysOwned == Spec => []DownIsOwned
<1>1. OwnersIInv => DownIsOwned
  BY DEF OwnersIInv, Base, Types, OwnersInv, NoneActive, Active, Waived, DownIsOwned
<1> QED
  BY <1>1, OwnersAlways, PTL

-----------------------------------------------------------------------------
(* The shutdown releases what is left.                                     *)

LEMMA StopFacts ==
    ASSUME Base, StopInv, mode # "serving", NEW t \in Tokens, Live(t)
    PROVE  /\ mode = "stopping" /\ ops[t].lease /\ Owned(t) /\ Client(t) \in toStop
           /\ ops[t].at \in {"submit", "await", "finish"} => Reserved(t)
           /\ ops[t].at = "submit" => owners[Subject(t)] \subseteq {Client(t)}
           /\ \A u \in Tokens \ {t} : ~Live(u)
           /\ Client(t) \in Clients /\ Client(t) = ops[t].client
           /\ ops[t].at # "end" => ~Request(t).pressed
<1>1. StopTasks
  BY DEF StopInv
<1>2. ops[t].at # "end" => ~Request(t).pressed
  BY <1>1, HeadFacts DEF StopTasks, Base, Request
<1> QED
  BY <1>1, <1>2, LiveFacts DEF StopInv, StopTasks, Reserved, Client, Base

LEMMA StopKeeps ==
    ASSUME Base, StopInv, mode = "stopping", UNCHANGED <<mode, toStop>>,
           NEW t \in Tokens, Live(t), OpSteps(t), NEW c \in Clients, c = Client(t),
           sess'[c].inFlight = sess[c].inFlight,
           ops'[t].at \in {"submit", "await", "finish"} => t \in reserved',
           ops'[t].at = "submit" => owners'[Head(ops'[t].todo).control] \subseteq {c},
           \A d \in Clients \ {c}, k \in Controls : Remains(d, k)' => Remains(d, k),
           \A k \in Controls : Remains(c, k)' =>
              \E i \in DOMAIN ops'[t].todo : ops'[t].todo[i].control = k
    PROVE  StopInv'
<1>1. /\ ops[t].lease /\ Owned(t) /\ c \in toStop /\ c = ops[t].client /\ c \in Clients
      /\ \A u \in Tokens \ {t} : ~Live(u)
  BY StopFacts
<1>2. /\ ops'[t].client = c /\ ops'[t].lease
      /\ \A u \in Tokens \ {t} : ops'[u] = ops[u]
  BY <1>1 DEF OpSteps
<1>3. \A u \in Tokens \ {t} : ~Live(u)'
  BY <1>1, <1>2 DEF Live
<1>4. Owned(t)'
  BY <1>1, <1>2 DEF Owned
<1>5. StopTasks'
  BY <1>1, <1>2, <1>3, <1>4 DEF StopTasks, Subject
<1>6. StopRest'
  <2>1. \A d \in Clients \ toStop', k \in Controls : ~Remains(d, k)'
    BY <1>1 DEF StopInv, StopRest
  <2> QED BY <1>2, <1>3, <2>1 DEF StopRest
<1> QED
  BY <1>5, <1>6 DEF StopInv

\* What is left is in the requests after the one that is over.
LEMMA StopTail ==
    ASSUME Base, StopInv, mode # "serving", NEW t \in Tokens, Live(t), ops[t].at # "end",
           MovesOn(t), NEW k \in Controls, k # Subject(t), Remains(Client(t), k)
    PROVE  \E i \in DOMAIN ops'[t].todo : ops'[t].todo[i].control = k
<1>1. ops'[t].todo = Tail(ops[t].todo) /\ Client(t) = ops[t].client
  BY StopFacts DEF MovesOn
<1>2. PICK i \in DOMAIN ops[t].todo : ops[t].todo[i].control = k
  BY <1>1, StopFacts DEF StopInv, StopRest
<1>3. ops[t].todo \in Seq(Requests) /\ ops[t].todo # <<>>
      /\ Subject(t) = ops[t].todo[1].control
  BY HeadFacts, LiveFacts DEF Base, Subject
<1>4. i - 1 \in DOMAIN Tail(ops[t].todo) /\ Tail(ops[t].todo)[i - 1] = ops[t].todo[i]
  BY <1>2, <1>3, TailFacts
<1> QED
  BY <1>1, <1>2, <1>4

\* The owner's release of the control it is at, whether it leaves it or completes.
LEMMA StopReleases ==
    ASSUME Base, StopInv, mode # "serving", NEW t \in Tokens, Leaves(t) \/ Completes(t)
    PROVE  StopInv'
<1>c. PICK c \in Clients : c = Client(t)
  BY LiveFacts DEF Base, Client, Leaves, Completes, Live
<1> DEFINE r == Request(t)
           k == Subject(t)
<1>1. /\ Live(t) /\ ops[t].at # "end" /\ MovesOn(t) /\ OpSteps(t)
      /\ sess' = Hold(c, r) /\ owners' = Own(c, r)
      /\ UNCHANGED <<queue, down, mode, toStop>> /\ Waived \subseteq Waived'
  BY <1>c, OpStepFacts DEF Leaves, Completes, Live, Waived
<1>2. mode = "stopping" /\ c \in Clients /\ ~r.pressed
  BY <1>1, StopFacts
<1>3. r \in Requests /\ k = r.control /\ k \in Controls
  BY <1>1, HeadFacts DEF Base, Request, Subject
<1>4. sess'[c].inFlight = sess[c].inFlight
  BY <1>1, <1>2, <1>3, HoldFacts DEF Base
<1>5. owners'[k] = owners[k] \ {c} /\ \A l \in Controls \ {k} : owners'[l] = owners[l]
  BY <1>1, <1>2, <1>3, OwnFacts DEF Base
<1>6. Active' = Active
  BY <1>1 DEF Active, Queued
<1>7. \A d \in Clients, l \in Controls : Remains(d, l)' => Remains(d, l) /\ ~(d = c /\ l = k)
  BY <1>1, <1>5, <1>6 DEF Remains
<1>8. ops'[t].at \in {"end", "reserve"}
  BY <1>1 DEF MovesOn
<1>9. \A l \in Controls : Remains(c, l)' =>
         \E i \in DOMAIN ops'[t].todo : ops'[t].todo[i].control = l
  BY <1>c, <1>1, <1>2, <1>7, StopTail
<1> QED
  BY <1>c, <1>1, <1>2, <1>4, <1>7, <1>8, <1>9, StopKeeps

LEMMA StopGoes ==
    ASSUME Base, StopInv, mode # "serving", NEW t \in Tokens,
           Claims(t) \/ Enqueues(t) \/ Overflows(t)
    PROVE  StopInv'
<1>c. PICK c \in Clients : c = Client(t)
  BY LiveFacts DEF Base, Client, Claims, Enqueues, Overflows, Live
<1> DEFINE r == Request(t)
           k == Subject(t)
<1>1. /\ Live(t) /\ ops[t].at # "end" /\ OpSteps(t) /\ ops'[t].todo = ops[t].todo
      /\ UNCHANGED <<down, mode, toStop, excused, crossed>> /\ Waived' = Waived
  BY OpStepFacts DEF Claims, Enqueues, Overflows, Live, Waived, GoesTo
<1>2. mode = "stopping" /\ c \in Clients /\ ~r.pressed /\ c = ops[t].client
  BY <1>c, <1>1, StopFacts
<1>3. r \in Requests /\ k = r.control /\ k \in Controls
  BY <1>1, HeadFacts DEF Base, Request, Subject
<1>4. UNCHANGED <<sess, owners>>
  BY <1>2 DEF Claims, Enqueues, Overflows
<1>5. t \in reserved'
  BY DEF Claims, Enqueues, Overflows, Reserved
<1>6. ops'[t].at = "submit" => owners[k] = {c}
  BY <1>c, <1>2, <1>3 DEF Claims, Enqueues, Overflows, GoesTo, NoopRelease
<1>7. Active' = Active \/ (Active' \subseteq Active \cup {k} /\ owners[k] \subseteq {c})
  <2>1. CASE Enqueues(t)
    <3>1. /\ DOMAIN queue = 1..Len(queue) /\ Len(queue) \in Nat
          /\ DOMAIN queue' = 1..Len(queue) + 1
          /\ \A i \in 1..Len(queue) : queue'[i] = queue[i]
          /\ queue'[Len(queue) + 1].request.control = k
      BY <1>3, <2>1, EnqueueFacts
    <3>2. Queued' \subseteq Queued \cup {k}
      <4> SUFFICES ASSUME NEW i \in DOMAIN queue', queue'[i].request.control # k
          PROVE queue'[i].request.control \in Queued
        BY DEF Queued
      <4>1. i \in DOMAIN queue /\ queue'[i] = queue[i]
        BY <3>1
      <4> QED BY <4>1 DEF Queued
    <3>3. owners[k] \subseteq {c}
      BY <1>c, <1>1, <2>1, StopFacts DEF Enqueues
    <3> QED BY <1>1, <3>2, <3>3 DEF Active
  <2>2. CASE Claims(t) \/ Overflows(t)
    BY <1>1, <2>2 DEF Claims, Overflows, Active, Queued
  <2> QED BY <2>1, <2>2
<1>8. \A d \in Clients, l \in Controls : Remains(d, l)' => Remains(d, l) \/ (d = c /\ l = k)
  BY <1>1, <1>4, <1>7 DEF Remains
<1>9. \A l \in Controls : Remains(c, l)' =>
         \E i \in DOMAIN ops'[t].todo : ops'[t].todo[i].control = l
  <2> SUFFICES ASSUME NEW l \in Controls, Remains(c, l)'
      PROVE \E i \in DOMAIN ops[t].todo : ops[t].todo[i].control = l
    BY <1>1
  <2>1. CASE Remains(c, l)
    BY <1>1, <1>2, <2>1 DEF StopInv, StopRest
  <2>2. CASE l = k
    BY <1>1, <2>2, HeadFacts DEF Base, Subject
  <2> QED BY <1>8, <2>1, <2>2
<1>10. Head(ops'[t].todo).control = k
  BY <1>1 DEF Subject
<1>11. ops'[t].at = "submit" => owners'[Head(ops'[t].todo).control] \subseteq {c}
  BY <1>4, <1>6, <1>10
<1>12. \A d \in Clients \ {c}, l \in Controls : Remains(d, l)' => Remains(d, l)
  BY <1>8
<1> QED
  BY <1>c, <1>1, <1>2, <1>4, <1>5, <1>9, <1>11, <1>12, StopKeeps

LEMMA StopRefuses ==
    ASSUME Base, StopInv, mode # "serving", NEW t \in Tokens, Refuses(t)
    PROVE  StopInv'
<1>c. PICK c \in Clients : c = Client(t)
  BY LiveFacts DEF Base, Client, Refuses, Live
<1> DEFINE k == Subject(t)
<1>1. /\ Live(t) /\ ops[t].at # "end" /\ MovesOn(t) /\ OpSteps(t)
      /\ UNCHANGED <<queue, down, mode, toStop, crossed>>
  BY OpStepFacts DEF Refuses, Live
<1>2. mode = "stopping" /\ c \in Clients /\ ~Request(t).pressed
  BY <1>1, StopFacts
<1>3. ~ops[t].newOwner /\ UNCHANGED <<sess, owners>>
  BY <1>2 DEF Refuses
<1>4. Active' = Active /\ Waived \subseteq Waived' /\ (k \in Active => k \in Waived')
  BY <1>1, <1>2 DEF Active, Queued, Waived, Refuses
<1>5. \A d \in Clients, l \in Controls : Remains(d, l)' => Remains(d, l) /\ l # k
  BY <1>3, <1>4 DEF Remains
<1>6. \A l \in Controls : Remains(c, l)' =>
         \E i \in DOMAIN ops'[t].todo : ops'[t].todo[i].control = l
  BY <1>c, <1>1, <1>2, <1>5, StopTail
<1>7. ops'[t].at \in {"end", "reserve"}
  BY <1>1 DEF MovesOn
<1> QED
  BY <1>c, <1>1, <1>2, <1>3, <1>5, <1>6, <1>7, StopKeeps

LEMMA StopEnds ==
    ASSUME Base, StopInv, mode # "serving", NEW t \in Tokens, Ends(t)
    PROVE  StopInv'
<1>c. PICK c \in Clients : c = Client(t)
  BY LiveFacts DEF Base, Client, Ends, Live
<1>1. Live(t) /\ ops[t].at = "end" /\ ops[t].todo = <<>>
  BY DEF Ends, Live, Base, OpsInv, OpOK
<1>2. /\ mode = "stopping" /\ ops[t].lease /\ c = ops[t].client /\ c \in Clients
      /\ \A u \in Tokens \ {t} : ~Live(u)
  BY <1>c, <1>1, StopFacts
<1>3. /\ mode' = mode /\ toStop' = toStop \ {c}
      /\ UNCHANGED <<owners, queue, down, excused, crossed>>
  BY <1>c, <1>2 DEF Ends
<1>4. \A u \in Tokens : ~Live(u)'
  BY <1>2 DEF Ends, Live, NoOp, Base, Types
<1>5. \A k \in Controls : ~Remains(c, k)
  BY <1>1, <1>2 DEF StopInv, StopRest
<1>6. \A d \in Clients, k \in Controls : Remains(d, k)' <=> Remains(d, k)
  BY <1>3 DEF Remains, Active, Queued, Waived
<1>7. StopRest'
  BY <1>2, <1>3, <1>4, <1>5, <1>6 DEF StopInv, StopRest
<1> QED
  BY <1>2, <1>3, <1>4, <1>7 DEF StopInv, StopTasks

LEMMA StopAbandons ==
    ASSUME Base, StopInv, mode # "serving", NEW t \in Tokens, Abandons(t)
    PROVE  FALSE
<1>1. Live(t) /\ ops[t].at \in {"reserve", "submit", "finish"}
  BY DEF Abandons, Live
<1>2. Owned(t) /\ ~Request(t).pressed /\ (ops[t].at # "reserve" => Reserved(t))
  BY <1>1, StopFacts
<1> QED
  BY <1>1, <1>2 DEF Abandons

LEMMA StopWorks ==
    ASSUME Base, StopInv, mode # "serving", Works
    PROVE  StopInv'
<1>1. /\ UNCHANGED <<sess, owners, reserved, mode, toStop>>
      /\ Waived' = Waived \cap Active' /\ Active' \subseteq Active
  BY WorkQueueFacts DEF Works, Waived
<1>2. ASSUME NEW t \in Tokens, Live(t)'
      PROVE  /\ Live(t) /\ ops'[t].client = ops[t].client /\ ops'[t].lease = ops[t].lease
             /\ ops'[t].todo = ops[t].todo
             /\ ops'[t] = ops[t] \/ (ops[t].at = "await" /\ ops'[t].at = "finish")
  <2>1. Live(t)
    BY <1>2, WorksFacts DEF Live
  <2> QED BY <2>1, WorksFacts
<1>3. \A d \in Clients, k \in Controls : Remains(d, k)' => Remains(d, k)
  BY <1>1 DEF Remains
<1>4. StopTasks'
  <2> SUFFICES ASSUME NEW t \in Tokens, Live(t)'
      PROVE /\ ops'[t].lease /\ Owned(t)' /\ ops'[t].client \in toStop'
            /\ ops'[t].at \in {"submit", "await", "finish"} => t \in reserved'
            /\ ops'[t].at = "submit" => owners'[Subject(t)'] \subseteq {ops'[t].client}
            /\ \A u \in Tokens : Live(u)' => u = t
    BY DEF StopTasks
  <2>1. /\ ops[t].lease /\ Owned(t) /\ ops[t].client \in toStop
        /\ ops[t].at \in {"submit", "await", "finish"} => t \in reserved
        /\ ops[t].at = "submit" => owners[Subject(t)] \subseteq {ops[t].client}
        /\ \A u \in Tokens : Live(u) => u = t
    BY <1>2 DEF StopInv, StopTasks
  <2> QED
    BY <1>1, <1>2, <2>1 DEF Owned, Subject
<1>5. StopRest'
  <2>1. \A t \in Tokens : Live(t)' => ops[t].client \in Clients
    BY <1>2, LiveFacts DEF Base
  <2> QED
    BY <1>1, <1>2, <1>3, <2>1 DEF StopInv, StopRest
<1> QED
  BY <1>1, <1>4, <1>5 DEF StopInv

LEMMA StopStep ==
    ASSUME Base, StopInv, Next
    PROVE  StopInv'
<1>1. CASE Shutdown
  <2>1. /\ UNCHANGED <<known, sess, owners, down, excused, crossed>> /\ mode' = "stopping"
        /\ toStop' = known /\ \A u \in Tokens : ~Live(u)'
    BY <1>1, ShutdownFacts DEF Shutdown, ToStop, ledgers, history
  <2>2. \A c \in Clients \ known, k \in Controls : c \notin owners'[k]
    BY <2>1, NewSessionFacts DEF Base, SessionsOK, LedgersAgree
  <2> QED
    BY <2>1, <2>2 DEF StopInv, StopTasks, StopRest, Remains
<1>2. CASE Visits
  <2>1. /\ UNCHANGED <<owners, reserved, ops, queue, down, mode, toStop, excused, crossed>>
        /\ \A c \in Clients : Keeps(c)
    BY <1>2 DEF Visits
  <2>2. ASSUME NEW t \in Tokens, Live(t), Owned(t) PROVE Owned(t)'
    <3>1. ops[t].client \in Clients
      BY <2>2, LiveFacts DEF Base
    <3> QED BY <2>1, <2>2, <3>1 DEF Owned, Keeps, Quiet
  <2>3. \A t \in Tokens : Live(t)' <=> Live(t)
    BY <2>1 DEF Live
  <2> QED
    BY <2>1, <2>2, <2>3 DEF StopInv, StopTasks, StopRest, Remains, Active, Queued, Waived, Subject
<1>3. ASSUME mode # "serving", NEW c \in Clients, NEW t \in Tokens, NEW lease \in BOOLEAN,
             NEW todo \in Seq(Requests), Begins(c, t, lease, todo)
      PROVE  StopInv'
  <2>1. /\ lease = TRUE /\ Covers(todo, sess[c].held) /\ c \in toStop
        /\ \A u \in Tokens : ~Live(u)
        /\ mode' = "stopping" /\ sess'[c].inFlight = t
        /\ UNCHANGED <<owners, queue, down, toStop, excused, crossed>>
    BY <1>3 DEF Begins
  <2>2. /\ ops'[t].client = c /\ ops'[t].lease = TRUE /\ ops'[t].todo = todo
        /\ ops'[t].at \in {"end", "reserve"}
        /\ \A u \in Tokens \ {t} : ~Live(u)'
    <3>1. \A u \in Tokens \ {t} : ops'[u] = ops[u]
      BY <1>3, BeginsFacts
    <3>2. /\ ops'[t].client = c /\ ops'[t].lease = lease /\ ops'[t].todo = todo
          /\ ops'[t].at \in {"end", "reserve"}
      BY <1>3, BeginsFacts
    <3> QED BY <2>1, <3>1, <3>2 DEF Live
  <2>3. StopTasks'
    BY <2>1, <2>2 DEF StopTasks, Owned
  <2>4. \A d \in Clients, k \in Controls : Remains(d, k)' => Remains(d, k)
    BY <2>1 DEF Remains, Active, Queued, Waived
  <2>5. \A k \in Controls : Remains(c, k) => \E i \in DOMAIN todo : todo[i].control = k
    BY <2>1 DEF Base, LedgersAgree, Covers, Remains
  <2>6. StopRest'
    <3>1. \A d \in Clients \ toStop', k \in Controls : ~Remains(d, k)'
      BY <1>3, <2>1, <2>4 DEF StopInv, StopRest
    <3>2. \A u \in Tokens, d \in Clients, k \in Controls :
             Live(u)' /\ ops'[u].client = d /\ Remains(d, k)' =>
             \E i \in DOMAIN ops'[u].todo : ops'[u].todo[i].control = k
      BY <2>2, <2>4, <2>5
    <3> QED BY <3>1, <3>2 DEF StopRest
  <2> QED BY <2>1, <2>3, <2>6 DEF StopInv
<1>4. ASSUME mode # "serving", NEW t \in Tokens, TaskStep(t) PROVE StopInv'
  BY <1>4, StopAbandons, StopReleases, StopGoes, StopRefuses, StopEnds DEF TaskStep
<1>5. CASE Stopped
  <2>1. /\ UNCHANGED <<sess, owners, reserved, ops, queue, down, toStop, excused, crossed>>
        /\ mode = "stopping" /\ toStop = {}
    BY <1>5 DEF Stopped, ledgers, world, history
  <2> QED
    BY <2>1 DEF StopInv, StopTasks, StopRest, Remains, Active, Queued, Waived, Subject, Live, Owned
<1>6. CASE mode = "serving" /\ ~Shutdown
  <2>1. mode' = "serving"
    BY <1>6, Steps, ZenonT(60), SMTT(60) DEF Visits, Begins, TaskStep, Abandons, Leaves, Claims,
       Enqueues, Overflows,
       Completes, Refuses, Ends, Works, Stopped
  <2> QED BY <2>1 DEF StopInv
<1> QED
  BY <1>1, <1>2, <1>3, <1>4, <1>5, <1>6, Steps, StopWorks

(* The inductive invariant.                                                *)
IInv == OwnersIInv /\ StopInv

LEMMA IInvHolds == Spec => []IInv
<1>1. Init => IInv
  BY OwnedInit DEF Init, StopInv, IInv
<1>2. IInv /\ [Next]_vars => IInv'
  <2> SUFFICES ASSUME IInv, [Next]_vars PROVE IInv'
    OBVIOUS
  <2>1. CASE Next
    BY <2>1, OwnedNext, StopStep DEF IInv, OwnersIInv
  <2>2. CASE UNCHANGED vars
    BY <2>2, OwnedNext DEF IInv, StopInv, StopTasks, StopRest, Remains, Active, Queued, Waived,
       Subject, Live, Owned, vars, ledgers, world, control, history
  <2> QED BY <2>1, <2>2
<1> QED
  BY <1>1, <1>2, PTL DEF Spec

(* When MobileGateway::shutdown has released every client, nothing that    *)
(* was pressed is down or queued to be, though its tasks were aborted in   *)
(* the middle of submit_reserved_mobile_injection and their events still   *)
(* come; with the exceptions that DownIsOwned has.                         *)
THEOREM ShutdownClears == Spec => []StoppedClear
<1>1. IInv => StoppedClear
  <2> SUFFICES ASSUME IInv, mode = "stopped", NEW k \in down \cup Queued
      PROVE k \in excused \cup crossed
    BY DEF StoppedClear
  <2>1. k \in Active /\ k \in Controls
    BY QueueFacts DEF Active, Queued, IInv, OwnersIInv, Base, Types
  <2>2. SUFFICES ASSUME k \notin Waived PROVE FALSE
    BY DEF Waived
  <2>3. owners[k] # {} /\ owners[k] \subseteq Clients
    BY <2>1, <2>2 DEF IInv, OwnersIInv, OwnersInv, NoneActive, Base, Types
  <2> QED
    BY <2>1, <2>2, <2>3 DEF IInv, StopInv, StopRest, Remains
<1> QED
  BY <1>1, IInvHolds, PTL
============================================================================
