---------------------------- MODULE FileTransfer ----------------------------
(***************************************************************************)
(* File transfers between two daemons (crates/rshare-net/src/              *)
(* file_transfer.rs).  The sender offers a list of files; the receiver's   *)
(* user approves it; data goes packet by packet, each acknowledged before  *)
(* the next; the receiver moves the finished staging directory into place, *)
(* records the transfer and only then acknowledges the end.  Either user   *)
(* may cancel at any time, waits time out, the connection may break and    *)
(* come back under another generation, and the receiver may crash.         *)
(*                                                                         *)
(* A transfer is Size data packets, its size in bytes too: chunks and ends *)
(* of files are both "Data".  There is one sending and one receiving       *)
(* daemon, so the limits per peer and of the whole service are one.        *)
(***************************************************************************)
EXTENDS Naturals, Sequences, FiniteSets, Functions

CONSTANTS
    Ids,          \* transfers; an identifier is used once
    Size,         \* data packets of a transfer
    MaxActive,    \* MAX_ACTIVE
    MaxPending,   \* MAX_PENDING_OFFERS_PER_PEER
    MaxPublished, \* MAX_PUBLISHED_BYTES
    InboxCap,     \* capacity of a session's inbox
    MaxGen,       \* bounds the connections
    MaxCrash      \* bounds the receiver's crashes

ASSUME TransferAssumption ==
    /\ IsFiniteSet(Ids)
    /\ {Size, MaxActive, MaxPending, MaxPublished, InboxCap, MaxGen} \subseteq Nat \ {0}
    /\ MaxCrash \in Nat

S == "sender"
R == "receiver"
Hosts == {S, R}
Other(h) == CHOOSE g \in Hosts : g # h

VARIABLES
    cur,       \* the generation each host's registry has for the other, or 0
    gen,       \* the last generation
    events,    \* each host's network events, not handled yet
    out,       \* the sender's sessions
    offers,    \* pending: the generation of an offer waiting for approval
    approving, \* an approved offer between the two locks of approve_incoming
    inc,       \* the receiver's sessions; one that acknowledges is not active
    history,   \* the receiver's ended transfers
    staged,    \* bytes in a transfer's staging directory
    placed,    \* bytes in its destination
    litter,    \* bytes of staging directories that a crash left in the root
    reserved, published,  \* the byte counters of Jobs
    crashes,
    folders    \* the transfers whose destination is a dropped folder

net == <<cur, gen, events>>
table == <<offers, approving, history>>
disk == <<staged, placed, litter>>
counters == <<reserved, published>>
vars == <<net, out, table, inc, disk, counters, crashes, folders>>

Gens == 1..MaxGen
Ended == {"completed", "cancelled", "failed"}
Bodies == {"Offer", "Accepted", "Data", "Received", "Complete", "Completed", "Cancel"}
Packets == [id : Ids, seq : 0..Size + 1, body : Bodies, gen : Gens]
Gone(g) == [gone |-> g]    \* the notice that connection g has ended
Jobs == [at : {"new", "prepare", "write", "next", "place", "record", "ack", "giveup"} \cup Ended,
         seq : 0..Size + 1, cancel : BOOLEAN, gen : 0..MaxGen, inbox : Seq(Packets)]

NewJob == [at |-> "new", seq |-> 0, cancel |-> FALSE, gen |-> 0, inbox |-> <<>>]
Job(at, g) == [NewJob EXCEPT !.at = at, !.gen = g]

Over(end) == [NewJob EXCEPT !.at = end]
Outcome(job) == IF job.cancel THEN "cancelled" ELSE "failed"

Sending(i) == out[i].at \in {"write", "next", "giveup"}
Receiving(i) == inc[i].at \in {"prepare", "write", "next", "place", "record", "giveup"}
Active == {i \in Ids : Receiving(i)}

TransferTypeOK ==
    /\ cur \in [Hosts -> 0..MaxGen] /\ gen \in 0..MaxGen
    /\ \A h \in Hosts : events[h] \in Seq(Packets \cup {Gone(g) : g \in Gens})
    /\ out \in [Ids -> Jobs] /\ inc \in [Ids -> Jobs]
    /\ \A i \in Ids : Len(out[i].inbox) <= InboxCap /\ Len(inc[i].inbox) <= InboxCap
    /\ offers \in [Ids -> 0..MaxGen] /\ approving \in [Ids -> 0..MaxGen]
    /\ history \in [Ids -> Ended \cup {"none"}]
    /\ staged \in [Ids -> 0..Size] /\ placed \in [Ids -> 0..Size]
    /\ {litter, reserved, published} \subseteq Nat /\ crashes \in 0..MaxCrash

-----------------------------------------------------------------------------
(* The connection.  A packet reaches the other host's events while both    *)
(* ends are up, and is lost otherwise.                                     *)

Linked == cur[S] = cur[R] /\ cur[S] # 0
Packet(i, seq, body, g) == [id |-> i, seq |-> seq, body |-> body, gen |-> g]
Put(h, p) == [events EXCEPT ![Other(h)] = IF Linked THEN Append(@, p) ELSE @]

(* Session::write: refused unless the registry still has the generation.   *)
Send(h, job, p) == cur[h] = job.gen /\ events' = Put(h, p)

Connect ==
    /\ cur = [h \in Hosts |-> 0] /\ gen < MaxGen
    /\ gen' = gen + 1
    /\ cur' = [h \in Hosts |-> gen + 1]
    /\ UNCHANGED <<events, out, table, inc, disk, counters, crashes>>

(* Host h sees the connection end: what it had not read is lost, its       *)
(* registry forgets the peer at once, and the daemon is told in turn.      *)
Break(h) ==
    /\ cur[h] # 0
    /\ cur' = [cur EXCEPT ![h] = 0]
    /\ \E kept \in 0..Len(events[h]) :
          events' = [events EXCEPT ![h] = Append(SubSeq(@, 1, kept), Gone(cur[h]))]
    /\ UNCHANGED <<gen, out, table, inc, disk, counters, crashes>>

-----------------------------------------------------------------------------
(* The sending session.  Each step sees a cancellation first.              *)

SenderBody(seq) == CASE seq = 0 -> "Offer" [] seq \in 1..Size -> "Data" [] OTHER -> "Complete"
Expected(job, reply) ==
    /\ reply.seq = job.seq
    /\ reply.body = CASE job.seq = 0 -> "Accepted" [] job.seq \in 1..Size -> "Received" [] OTHER -> "Completed"

Start(i) ==
    /\ out[i].at = "new" /\ cur[S] # 0
    /\ Cardinality({j \in Ids : Sending(j)}) < MaxActive
    /\ out' = [out EXCEPT ![i] = Job("write", cur[S])]
    /\ UNCHANGED <<net, table, inc, disk, counters, crashes>>

SenderWrite(i) ==
    /\ out[i].at = "write"
    /\ \/ /\ ~out[i].cancel
          /\ Send(S, out[i], Packet(i, out[i].seq, SenderBody(out[i].seq), out[i].gen))
          /\ out' = [out EXCEPT ![i].at = "next"]
       \/ /\ out' = [out EXCEPT ![i].at = "giveup", ![i].seq = 0]    \* cancelled, or it cannot read or send
          /\ UNCHANGED events
    /\ UNCHANGED <<cur, gen, table, inc, disk, counters, crashes>>

(* exchange: the reply must be the expected one.  Only an empty inbox can  *)
(* time out.                                                               *)
SenderNext(i) ==
    /\ out[i].at = "next"
    /\ LET job == out[i]
           reply == Head(job.inbox)
           right == job.inbox # <<>> /\ Expected(job, reply)
           last == job.seq = Size + 1
       IN \/ /\ ~job.cancel /\ right
             /\ out' = IF last THEN [out EXCEPT ![i] = Over("completed")]
                       ELSE [out EXCEPT ![i].at = "write", ![i].seq = @ + 1, ![i].inbox = Tail(@)]
          \/ /\ job.cancel \/ ~right
             /\ out' = [out EXCEPT ![i].at = "giveup", ![i].seq = 0, ![i].inbox = <<>>]
    /\ UNCHANGED <<net, table, inc, disk, counters, crashes>>

(* run: the other side is told, if it can be, and the session is over.     *)
SenderGiveUp(i) ==
    /\ out[i].at = "giveup"
    /\ out' = [out EXCEPT ![i] = Over(Outcome(@))]
    /\ \/ Send(S, out[i], Packet(i, 0, "Cancel", out[i].gen))
       \/ UNCHANGED events
    /\ UNCHANGED <<cur, gen, table, inc, disk, counters, crashes>>

SenderCancel(i) ==
    /\ Sending(i) /\ ~out[i].cancel
    /\ out' = [out EXCEPT ![i].cancel = TRUE]
    /\ UNCHANGED <<net, table, inc, disk, counters, crashes>>

-----------------------------------------------------------------------------
(* receive and disconnect: the daemon's loop hands over network events.    *)

Deliver(jobs, active, p) ==
    IF p.id \notin active \/ jobs[p.id].gen # p.gen THEN jobs
    ELSE IF p.body # "Cancel" /\ Len(jobs[p.id].inbox) < InboxCap
         THEN [jobs EXCEPT ![p.id].inbox = Append(@, p)]
         ELSE [jobs EXCEPT ![p.id].cancel = TRUE]

CancelAll(jobs, active, g) ==
    [i \in Ids |-> IF i \in active /\ jobs[i].gen = g THEN [jobs[i] EXCEPT !.cancel = TRUE] ELSE jobs[i]]

IsGone(e) == "gone" \in DOMAIN e

SenderEvent ==
    /\ events[S] # <<>>
    /\ LET e == Head(events[S])
           active == {i \in Ids : Sending(i)}
       IN out' = IF IsGone(e) THEN CancelAll(out, active, e.gone)
                 ELSE IF e.gen # cur[S] THEN out ELSE Deliver(out, active, e)
    /\ events' = [events EXCEPT ![S] = Tail(@)]
    /\ UNCHANGED <<cur, gen, table, inc, disk, counters, crashes>>

(* A rejection may be lost: its channel is bounded and its send limited.   *)
Rejected(i, g, queues) ==
    \/ events' = queues
    \/ cur[R] = g /\ Linked /\ events' = [queues EXCEPT ![S] = Append(@, Packet(i, 0, "Cancel", g))]

Known(i) == Receiving(i) \/ offers[i] # 0 \/ history[i] # "none"
MayQueue(i) == ~Known(i) /\ Cardinality({j \in Ids : offers[j] # 0}) < MaxPending

(* The branches of receive and disconnect at the receiver.                 *)
OfferArrives(p, queues) ==
    /\ UNCHANGED <<approving, history, inc>>
    /\ IF MayQueue(p.id)
       THEN offers' = [offers EXCEPT ![p.id] = p.gen] /\ events' = queues
       ELSE Rejected(p.id, p.gen, queues) /\ UNCHANGED offers

CancelArrives(p, queues) ==
    /\ events' = queues
    /\ IF offers[p.id] = p.gen
       THEN /\ offers' = [offers EXCEPT ![p.id] = 0]
            /\ history' = [history EXCEPT ![p.id] = "cancelled"]
            /\ UNCHANGED <<approving, inc>>
       ELSE inc' = Deliver(inc, Active, p) /\ UNCHANGED table

ConnectionGone(g, queues) ==
    /\ events' = queues
    /\ offers' = [i \in Ids |-> IF offers[i] = g THEN 0 ELSE offers[i]]
    /\ history' = [i \in Ids |-> IF offers[i] = g THEN "cancelled" ELSE history[i]]
    /\ inc' = CancelAll(inc, Active, g)
    /\ UNCHANGED approving

ReceiverEvent ==
    /\ events[R] # <<>>
    /\ LET e == Head(events[R])
           queues == [events EXCEPT ![R] = Tail(@)]
       IN \/ IsGone(e) /\ ConnectionGone(e.gone, queues)
          \/ ~IsGone(e) /\ e.gen # cur[R] /\ events' = queues /\ UNCHANGED <<table, inc>>
          \/ ~IsGone(e) /\ e.gen = cur[R] /\ e.body = "Offer" /\ OfferArrives(e, queues)
          \/ ~IsGone(e) /\ e.gen = cur[R] /\ e.body = "Cancel" /\ CancelArrives(e, queues)
          \/ /\ ~IsGone(e) /\ e.gen = cur[R] /\ e.body \notin {"Offer", "Cancel"}
             /\ events' = queues /\ inc' = Deliver(inc, Active, e) /\ UNCHANGED table
    /\ UNCHANGED <<cur, gen, out, disk, counters, crashes>>

-----------------------------------------------------------------------------
(* The receiver's user and the offers.                                     *)

(* prune_pending: an offer past its time is dropped without a word.        *)
Expire(i) ==
    /\ offers[i] # 0
    /\ offers' = [offers EXCEPT ![i] = 0]
    /\ UNCHANGED <<net, out, approving, history, inc, disk, counters, crashes>>

Decline(i) ==
    /\ offers[i] # 0
    /\ offers' = [offers EXCEPT ![i] = 0]
    /\ history' = [history EXCEPT ![i] = "cancelled"]
    /\ Rejected(i, offers[i], events)
    /\ UNCHANGED <<cur, gen, out, approving, inc, disk, counters, crashes>>

ReceiverCancel(i) ==
    /\ Receiving(i) /\ ~inc[i].cancel
    /\ inc' = [inc EXCEPT ![i].cancel = TRUE]
    /\ UNCHANGED <<net, out, table, disk, counters, crashes>>

Approve(i) ==
    /\ offers[i] # 0
    /\ offers' = [offers EXCEPT ![i] = 0]
    /\ approving' = [approving EXCEPT ![i] = offers[i]]
    /\ UNCHANGED <<net, out, history, inc, disk, counters, crashes>>

(* register: room for a session, and for its bytes in the root.            *)
Fits == published + reserved + Size <= MaxPublished

Register(i) ==
    /\ approving[i] # 0
    /\ approving' = [approving EXCEPT ![i] = 0]
    /\ IF Cardinality(Active) < MaxActive /\ ~Receiving(i) /\ history[i] = "none" /\ Fits
       THEN /\ inc' = [inc EXCEPT ![i] = Job("prepare", approving[i])]
            /\ reserved' = reserved + Size
            /\ UNCHANGED <<history, events>>
       ELSE /\ history' = [history EXCEPT ![i] = "failed"]
            /\ Rejected(i, approving[i], events)
            /\ UNCHANGED <<inc, reserved>>
    /\ UNCHANGED <<cur, gen, out, offers, disk, published, crashes>>

-----------------------------------------------------------------------------
(* The receiving session.  On any error the staging directory is removed   *)
(* before the other side is told and the reservation given back.           *)

Abandon(i) ==
    /\ inc' = [inc EXCEPT ![i].at = "giveup", ![i].seq = 0, ![i].inbox = <<>>]
    /\ staged' = [staged EXCEPT ![i] = 0]

(* The folder is resolved and the staging directory made.                  *)
Prepare(i) ==
    /\ inc[i].at = "prepare"
    /\ \/ ~inc[i].cancel /\ inc' = [inc EXCEPT ![i].at = "write"] /\ UNCHANGED staged
       \/ Abandon(i)
    /\ UNCHANGED <<net, out, table, placed, litter, counters, crashes>>

ReceiverBody(seq) == IF seq = 0 THEN "Accepted" ELSE "Received"

ReceiverWrite(i) ==
    /\ inc[i].at = "write"
    /\ \/ /\ ~inc[i].cancel
          /\ Send(R, inc[i], Packet(i, inc[i].seq, ReceiverBody(inc[i].seq), inc[i].gen))
          /\ inc' = [inc EXCEPT ![i].at = "next", ![i].seq = @ + 1]
          /\ UNCHANGED staged
       \/ Abandon(i) /\ UNCHANGED events
    /\ UNCHANGED <<cur, gen, out, table, placed, litter, counters, crashes>>

(* A data packet is written to its file, the last packet ends the loop;    *)
(* a packet out of order, a failed write or a wrong hash, a time-out.      *)

ReceiverNext(i) ==
    /\ inc[i].at = "next"
    /\ LET job == inc[i]
           p == Head(job.inbox)
           inOrder == ~job.cancel /\ job.inbox # <<>> /\ p.seq = job.seq
       IN \/ /\ inOrder /\ p.body = "Data"
             /\ inc' = [inc EXCEPT ![i].at = "write", ![i].inbox = Tail(@)]
             /\ staged' = [staged EXCEPT ![i] = @ + 1]
          \/ /\ inOrder /\ p.body = "Complete"
             /\ inc' = [inc EXCEPT ![i].at = "place", ![i].inbox = Tail(@)]
             /\ UNCHANGED staged
          \/ Abandon(i)
    /\ UNCHANGED <<net, out, table, placed, litter, counters, crashes>>

(* The last look at a cancellation, then one rename; into a folder, item   *)
(* by item, which keeps what was already moved when one item fails.        *)
\* Mutant: the end is acknowledged although only a part could be moved.
PartPlaced(i) == staged[i] <= 2
LastItem(i) == staged[i] = 1

Place(i) ==
    /\ inc[i].at = "place"
    /\ \/ /\ i \notin folders /\ ~inc[i].cancel /\ placed[i] = 0
          /\ placed' = [placed EXCEPT ![i] = staged[i]]
          /\ staged' = [staged EXCEPT ![i] = 0]
          /\ inc' = [inc EXCEPT ![i].at = "record"]
       \/ /\ i \in folders /\ (placed[i] = 0 => ~inc[i].cancel)
          /\ placed' = [placed EXCEPT ![i] = @ + 1]
          /\ staged' = [staged EXCEPT ![i] = @ - 1]
          /\ inc' = [inc EXCEPT ![i].at = IF LastItem(i) THEN "record" ELSE "place"]
       \/ Abandon(i) /\ UNCHANGED placed
    /\ UNCHANGED <<net, out, table, litter, counters, crashes>>

(* finish(Completed), before the acknowledgement: the bytes reserved are   *)
(* now published.                                                          *)
\* Mutant: a completed transfer keeps its reservation.
PublishOnly == published' = published + Size /\ UNCHANGED reserved
Publish == reserved' = reserved - Size /\ published' = published + Size
Record(i) ==
    /\ inc[i].at = "record"
    /\ inc' = [inc EXCEPT ![i].at = "ack"]
    /\ history' = [history EXCEPT ![i] = "completed"]
    /\ Publish
    /\ UNCHANGED <<net, out, offers, approving, disk, crashes>>

(* The last acknowledgement, whose loss changes nothing here.  Session::run *)
(* then calls finish once more, which finds no active session.             *)
FinishAgain == UNCHANGED counters

Ack(i) ==
    /\ inc[i].at = "ack"
    /\ inc' = [inc EXCEPT ![i] = NewJob]
    /\ \/ Send(R, inc[i], Packet(i, inc[i].seq, "Completed", inc[i].gen))
       \/ UNCHANGED events
    /\ FinishAgain
    /\ UNCHANGED <<cur, gen, out, table, disk, crashes>>

ReceiverGiveUp(i) ==
    /\ inc[i].at = "giveup"
    /\ inc' = [inc EXCEPT ![i] = NewJob]
    /\ history' = [history EXCEPT ![i] = Outcome(inc[i])]
    /\ reserved' = reserved - Size
    /\ \/ Send(R, inc[i], Packet(i, 0, "Cancel", inc[i].gen))
       \/ UNCHANGED events
    /\ UNCHANGED <<cur, gen, out, offers, approving, disk, published, crashes>>

(* The receiver's process dies and starts again: every table is empty, the *)
(* root keeps what it has, staging directories included, and its bytes are *)
(* what the counter starts from.                                           *)
InRoot(f) == SumFunctionOnSet(f, Ids \ folders)
Recount == published' = InRoot(placed) + InRoot(staged) + litter

Crash ==
    /\ crashes < MaxCrash
    /\ crashes' = crashes + 1
    /\ offers' = [i \in Ids |-> 0] /\ approving' = [i \in Ids |-> 0]
    /\ inc' = [i \in Ids |-> NewJob]
    /\ history' = [i \in Ids |-> "none"]
    /\ litter' = litter + InRoot(staged)
    /\ staged' = [i \in Ids |-> 0]
    /\ reserved' = 0
    /\ Recount
    /\ cur' = [cur EXCEPT ![R] = 0]
    /\ events' = [events EXCEPT ![R] = <<>>]
    /\ UNCHANGED <<gen, out, placed>>

-----------------------------------------------------------------------------
Init ==
    /\ cur = [h \in Hosts |-> 0] /\ gen = 0 /\ events = [h \in Hosts |-> <<>>]
    /\ out = [i \in Ids |-> NewJob] /\ inc = [i \in Ids |-> NewJob]
    /\ offers = [i \in Ids |-> 0] /\ approving = [i \in Ids |-> 0]
    /\ history = [i \in Ids |-> "none"]
    /\ staged = [i \in Ids |-> 0] /\ placed = [i \in Ids |-> 0] /\ litter = 0
    /\ reserved = 0 /\ published = 0 /\ crashes = 0
    /\ folders \in SUBSET Ids

SenderStep(i) == SenderWrite(i) \/ SenderNext(i) \/ SenderGiveUp(i)
ReceiverStep(i) ==
    \/ Register(i) \/ Prepare(i) \/ ReceiverWrite(i) \/ ReceiverNext(i)
    \/ Place(i) \/ Record(i) \/ Ack(i) \/ ReceiverGiveUp(i)

Step ==
    \/ Connect \/ (\E h \in Hosts : Break(h)) \/ Crash
    \/ SenderEvent \/ ReceiverEvent
    \/ \E i \in Ids :
         \/ Start(i) \/ SenderStep(i) \/ SenderCancel(i)
         \/ Expire(i) \/ Decline(i) \/ ReceiverCancel(i) \/ Approve(i)
         \/ ReceiverStep(i)

(* Where a transfer goes is its users' choice, once and for all.           *)
Next == Step /\ UNCHANGED folders

Spec == Init /\ [][Next]_vars

-----------------------------------------------------------------------------
(* Properties.                                                             *)

(* What the counter says is reserved is what the active sessions reserved, *)
(* whichever way the others ended: otherwise room is lost for good.        *)
ReservationExact ==
    reserved = Size * Cardinality(Active) /\ Cardinality(Active) <= MaxActive

(* Types and the limits of sessions and inboxes hold, reservations are     *)
(* exact, and the root never holds more than its quota, counting what is   *)
(* staged, what is in place and what crashes left behind.                  *)
QuotaKept ==
    /\ TransferTypeOK
    /\ ReservationExact
    /\ InRoot(placed) + InRoot(staged) + litter <= MaxPublished

(* The sender learns of a completion only when all is in place, across     *)
(* cancellations, lost acknowledgements, reconnections and crashes: the    *)
(* transfer implements FileHandover.                                       *)
Told(i) == CASE out[i].at = "new" -> "new" [] out[i].at \in Ended -> out[i].at [] OTHER -> "open"
Handover == INSTANCE FileHandover WITH
                told <- [i \in Ids |-> Told(i)],
                placed <- {i \in Ids : placed[i] = Size}
ImplementsHandover == Handover!Spec
=============================================================================
