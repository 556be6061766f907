------------------------- MODULE FileTransferProofs -------------------------
(***************************************************************************)
(* Proofs about FileTransfer, for every set of transfers, every size and   *)
(* every limit: that it implements FileHandover, that reservations are     *)
(* given back, and that the root keeps its quota.                          *)
(*                                                                         *)
(* The sender says "completed" on the strength of a packet that may have   *)
(* waited in two queues while sessions were cancelled, the connection was  *)
(* replaced and the receiver restarted.  The invariant therefore says of   *)
(* every packet in a queue or an inbox what its sending established        *)
(* (PacketInv): an acknowledged end means bytes in place, which is never   *)
(* undone.  ReceiverInv says what each stage of the receiving session has  *)
(* staged and placed; OfferInv, that a transfer is offered once, so that   *)
(* no second session starts over what a first one left.                    *)
(*                                                                         *)
(* Each lemma ...Step bounds what a step does to one part of the state,    *)
(* whichever action it is; the invariant follows from these bounds.        *)
(***************************************************************************)
EXTENDS FileTransfer, FiniteSetTheorems, SequenceTheorems, WellFoundedInduction, TLAPS

Notices == {Gone(g) : g \in Gens}
Steps == {"new", "prepare", "write", "next", "place", "record", "ack", "giveup"} \cup Ended

Types ==
    /\ cur \in [Hosts -> 0..MaxGen] /\ gen \in 0..MaxGen
    /\ events \in [Hosts -> Seq(Packets \cup Notices)]
    /\ out \in [Ids -> Jobs] /\ inc \in [Ids -> Jobs]
    /\ offers \in [Ids -> 0..MaxGen] /\ approving \in [Ids -> 0..MaxGen]
    /\ staged \in [Ids -> 0..Size] /\ placed \in [Ids -> 0..Size]
    /\ folders \subseteq Ids

-----------------------------------------------------------------------------
(* The inductive invariant.                                                *)

\* What the receiver's session has in its staging directory and in place.
Holds(i, job, staging, inPlace) ==
    /\ job.at \notin Ended
    /\ job.at \in {"new", "giveup"} => staging = 0
    /\ job.at = "giveup" /\ i \notin folders => inPlace = 0
    /\ job.at = "prepare" => job.seq = 0 /\ staging = 0 /\ inPlace = 0
    /\ job.at = "write" => job.seq = staging /\ inPlace = 0
    /\ job.at = "next" => job.seq = staging + 1 /\ inPlace = 0
    /\ job.at = "place" => /\ staging + inPlace = Size /\ staging # 0
                           /\ i \notin folders => inPlace = 0
    /\ job.at \in {"record", "ack"} => inPlace = Size /\ staging = 0

ReceiverInv == \A i \in Ids : Holds(i, inc[i], staged[i], placed[i])

\* A transfer is offered once.
ToOffer(i) == out[i].at = "new" \/ (out[i].at = "write" /\ out[i].seq = 0)
OfferOf(e, i) == ~IsGone(e) /\ e.body = "Offer" /\ e.id = i
Begun(i) == inc[i].at # "new" \/ placed[i] # 0

OfferInv ==
    \A i \in Ids :
        /\ ToOffer(i) => offers[i] = 0 /\ approving[i] = 0 /\ ~Begun(i)
        /\ \A n \in DOMAIN events[R] : OfferOf(events[R][n], i) =>
              /\ ~ToOffer(i) /\ offers[i] = 0 /\ approving[i] = 0 /\ ~Begun(i)
              /\ \A m \in DOMAIN events[R] : OfferOf(events[R][m], i) => m = n
        /\ offers[i] # 0 => approving[i] = 0 /\ ~Begun(i)
        /\ approving[i] # 0 => ~Begun(i)

\* What a packet says of the sender who sent it, and of the receiver.
FromSender(p) == /\ p.body = "Data" => p.seq \in 1..Size
                 /\ p.body = "Complete" => p.seq = Size + 1
FromReceiver(p, i) == p.body = "Completed" => placed[i] = Size

PacketInv ==
    /\ \A n \in DOMAIN events[R] : ~IsGone(events[R][n]) => FromSender(events[R][n])
    /\ \A n \in DOMAIN events[S] :
          ~IsGone(events[S][n]) => FromReceiver(events[S][n], events[S][n].id)
    /\ \A i \in Ids :
          /\ \A n \in DOMAIN inc[i].inbox : FromSender(inc[i].inbox[n])
          /\ \A n \in DOMAIN out[i].inbox : FromReceiver(out[i].inbox[n], i)

-----------------------------------------------------------------------------
LEMMA Bounds ==
    /\ Size \in Nat /\ MaxActive \in Nat /\ MaxPending \in Nat /\ MaxPublished \in Nat
    /\ InboxCap \in Nat /\ MaxGen \in Nat /\ MaxCrash \in Nat
    /\ Size > 0 /\ MaxActive > 0 /\ MaxGen > 0
  BY TransferAssumption

LEMMA HostFacts ==
    /\ S # R /\ S \in Hosts /\ R \in Hosts /\ Other(S) = R /\ Other(R) = S
    /\ \A h \in Hosts : h = S \/ h = R
  BY DEF Hosts, Other, S, R

LEMMA Kinds ==
    /\ \A e \in Packets : /\ ~IsGone(e) /\ e.id \in Ids /\ e.seq \in 0..Size + 1 /\ e.body \in Bodies
                          /\ e.gen \in Gens
    /\ \A e \in Notices : IsGone(e)
    /\ \A g \in Gens : Gone(g) \in Notices
    /\ \A i \in Ids, n \in 0..Size + 1, b \in Bodies, g \in Gens :
          /\ Packet(i, n, b, g) \in Packets
          /\ Packet(i, n, b, g).id = i /\ Packet(i, n, b, g).seq = n
          /\ Packet(i, n, b, g).body = b /\ Packet(i, n, b, g).gen = g
  <1>1. \A e \in Packets : /\ ~IsGone(e) /\ e.id \in Ids /\ e.seq \in 0..Size + 1 /\ e.body \in Bodies
                           /\ e.gen \in Gens
    BY DEF Packets, IsGone
  <1>2. \A e \in Notices : IsGone(e)
    BY DEF Notices, Gone, IsGone
  <1>3. \A g \in Gens : Gone(g) \in Notices
    BY DEF Notices
  <1> QED
    BY <1>1, <1>2, <1>3 DEF Packet, Packets

LEMMA JobFacts ==
    /\ NewJob \in Jobs
    /\ \A at \in Steps, g \in 0..MaxGen : /\ Job(at, g) \in Jobs /\ Job(at, g).at = at /\ Job(at, g).gen = g
                                          /\ Job(at, g).seq = 0 /\ Job(at, g).inbox = <<>>
    /\ \A end \in Ended : Over(end) \in Jobs /\ Over(end).at = end /\ Over(end).inbox = <<>>
    /\ \A job \in Jobs :
          /\ job.at \in Steps /\ job.seq \in 0..Size + 1 /\ job.gen \in 0..MaxGen
          /\ job.cancel \in BOOLEAN /\ job.inbox \in Seq(Packets) /\ Outcome(job) \in Ended
  <1>1. NewJob \in Jobs
    BY Bounds DEF NewJob, Jobs, Ended
  <1>2. \A job \in Jobs :
          /\ job.at \in Steps /\ job.seq \in 0..Size + 1 /\ job.gen \in 0..MaxGen
          /\ job.cancel \in BOOLEAN /\ job.inbox \in Seq(Packets) /\ Outcome(job) \in Ended
    BY DEF Jobs, Steps, Outcome, Ended
  <1>3. \A at \in Steps, g \in 0..MaxGen : /\ Job(at, g) \in Jobs /\ Job(at, g).at = at /\ Job(at, g).gen = g
                                           /\ Job(at, g).seq = 0 /\ Job(at, g).inbox = <<>>
    BY <1>1 DEF Job, Jobs, Steps, NewJob
  <1>4. \A end \in Ended : Over(end) \in Jobs /\ Over(end).at = end /\ Over(end).inbox = <<>>
    BY <1>1 DEF Over, Jobs, Ended, NewJob
  <1> QED
    BY <1>1, <1>2, <1>3, <1>4

\* The steps of a session set where it is, its sequence number, its inbox.
WithAt(job, at) == [job EXCEPT !.at = at]
WithSeq(job, seq) == [job EXCEPT !.seq = seq]
WithInbox(job, inbox) == [job EXCEPT !.inbox = inbox]
Cancelled(job) == [job EXCEPT !.cancel = TRUE]

LEMMA JobChange ==
    /\ \A job \in Jobs, at \in Steps :
          /\ WithAt(job, at) \in Jobs /\ WithAt(job, at).at = at
          /\ WithAt(job, at).seq = job.seq /\ WithAt(job, at).inbox = job.inbox
    /\ \A job \in Jobs, seq \in 0..Size + 1 :
          /\ WithSeq(job, seq) \in Jobs /\ WithSeq(job, seq).seq = seq
          /\ WithSeq(job, seq).at = job.at /\ WithSeq(job, seq).inbox = job.inbox
    /\ \A job \in Jobs, inbox \in Seq(Packets) :
          /\ WithInbox(job, inbox) \in Jobs /\ WithInbox(job, inbox).inbox = inbox
          /\ WithInbox(job, inbox).at = job.at /\ WithInbox(job, inbox).seq = job.seq
    /\ \A job \in Jobs :
          /\ Cancelled(job) \in Jobs /\ Cancelled(job).inbox = job.inbox
          /\ Cancelled(job).at = job.at /\ Cancelled(job).seq = job.seq
  <1>1. PICK A, B, C, G : A = Steps /\ B = 0..Size + 1 /\ C = Seq(Packets) /\ G = 0..MaxGen
    OBVIOUS
  <1>2. Jobs = [at : A, seq : B, cancel : BOOLEAN, gen : G, inbox : C]
    BY <1>1 DEF Jobs, Steps
  <1> QED
    BY <1>1, <1>2 DEF WithAt, WithSeq, WithInbox, Cancelled

LEMMA TypesInit == Init => Types
  <1> SUFFICES ASSUME Init PROVE Types
    OBVIOUS
  <1>1. 0 \in 0..MaxGen /\ 0 \in 0..Size
    BY Bounds
  <1> QED
    BY <1>1, JobFacts DEF Init, Types

\* A packet that is sent, or lost.
LEMMA SendTypes ==
    ASSUME Types, NEW h \in Hosts, NEW i \in Ids, NEW n \in 0..Size + 1, NEW b \in Bodies, NEW job \in Jobs,
           Send(h, job, Packet(i, n, b, job.gen))
    PROVE  /\ events' \in [Hosts -> Seq(Packets \cup Notices)]
           /\ events'[h] = events[h]
           /\ \/ events' = events
              \/ /\ job.gen \in Gens /\ Packet(i, n, b, job.gen) \in Packets
                 /\ events'[Other(h)] = Append(events[Other(h)], Packet(i, n, b, job.gen))
  <1>1. Other(h) \in Hosts /\ Other(h) # h
    BY HostFacts
  <1>2. CASE ~Linked
    BY <1>2 DEF Send, Put, Types
  <1>3. CASE Linked
    <2>1. job.gen = cur[S] /\ cur[S] # 0 /\ cur[S] \in 0..MaxGen
      BY <1>3, HostFacts DEF Send, Linked, Types
    <2>2. job.gen \in Gens
      BY <2>1, Bounds DEF Gens
    <2>3. Packet(i, n, b, job.gen) \in Packets
      BY <2>2, Kinds
    <2>4. events' = [events EXCEPT ![Other(h)] = Append(@, Packet(i, n, b, job.gen))]
      BY <1>3 DEF Send, Put
    <2>5. PICK p \in Packets : p = Packet(i, n, b, job.gen)
      BY <2>3
    <2>6. events' = [events EXCEPT ![Other(h)] = Append(@, p)]
      BY <2>4, <2>5
    <2>7. Append(events[Other(h)], p) \in Seq(Packets \cup Notices)
      BY <1>1 DEF Types
    <2>8. events' \in [Hosts -> Seq(Packets \cup Notices)]
      BY <1>1, <2>6, <2>7 DEF Types
    <2>9. events'[Other(h)] = Append(events[Other(h)], p) /\ events'[h] = events[h]
      BY <1>1, <2>6 DEF Types
    <2> QED
      BY <2>2, <2>5, <2>8, <2>9
  <1> QED
    BY <1>2, <1>3

\* A queue loses events, or gets the end of a connection.
Derived(q, r) == \E d \in {0, 1} : \A n \in DOMAIN r : IsGone(r[n]) \/ (n + d \in DOMAIN q /\ r[n] = q[n + d])

LEMMA DerivedSame == \A q : (\A n \in DOMAIN q : n \in Nat) => Derived(q, q)
  BY DEF Derived

LEMMA DerivedTail ==
    ASSUME NEW T, NEW q \in Seq(T), q # <<>>, NEW r, r = Tail(q)
    PROVE  Derived(q, r) /\ \A n \in DOMAIN r : n + 1 \in DOMAIN q /\ r[n] = q[n + 1]
  <1>1. \A n \in DOMAIN r : n + 1 \in DOMAIN q /\ r[n] = q[n + 1]
    OBVIOUS
  <1> QED
    BY <1>1 DEF Derived

LEMMA DerivedBreak ==
    ASSUME NEW q \in Seq(Packets \cup Notices), NEW kept \in 0..Len(q), NEW g \in Gens,
           NEW r, r = Append(SubSeq(q, 1, kept), Gone(g))
    PROVE  Derived(q, r) /\ r \in Seq(Packets \cup Notices)
  <1>1. PICK e \in Packets \cup Notices : e = Gone(g) /\ IsGone(e)
    BY Kinds
  <1>2. PICK s \in Seq(Packets \cup Notices) : s = SubSeq(q, 1, kept)
    <2>1. PICK T : T = Packets \cup Notices
      OBVIOUS
    <2>2. q \in Seq(T) /\ kept \in Int /\ 1 \in Int /\ Len(q) \in Nat
      BY <2>1
    <2>3. \A n \in 1..kept : q[n] \in T
      BY <2>2
    <2>4. SubSeq(q, 1, kept) \in Seq(T)
      BY <2>2, <2>3, SubSeqProperties
    <2> QED
      BY <2>1, <2>4
  <1>3. Len(s) = kept /\ \A n \in 1..kept : s[n] = q[n] /\ n \in DOMAIN q
    BY <1>2
  <1>4. r = Append(s, e)
    BY <1>1, <1>2
  <1>5. DOMAIN r = 1..kept + 1 /\ r[kept + 1] = e /\ \A n \in 1..kept : r[n] = s[n]
    BY <1>3, <1>4
  <1>6. \A n \in DOMAIN r : IsGone(r[n]) \/ (n + 0 \in DOMAIN q /\ r[n] = q[n + 0])
    BY <1>1, <1>3, <1>5
  <1> QED
    BY <1>4, <1>6 DEF Derived

-----------------------------------------------------------------------------
(* Types.                                                                  *)

NetTypes == /\ cur \in [Hosts -> 0..MaxGen] /\ gen \in 0..MaxGen
            /\ events \in [Hosts -> Seq(Packets \cup Notices)]

LEMMA TailTypes ==
    ASSUME Types, NEW h \in Hosts, events[h] # <<>>
    PROVE  /\ [events EXCEPT ![h] = Tail(@)] \in [Hosts -> Seq(Packets \cup Notices)]
           /\ Head(events[h]) \in Packets \cup Notices
           /\ Head(events[h]) = events[h][1] /\ 1 \in DOMAIN events[h]
  <1>1. events[h] \in Seq(Packets \cup Notices)
    BY DEF Types
  <1>2. Tail(events[h]) \in Seq(Packets \cup Notices) /\ Head(events[h]) \in Packets \cup Notices
    BY <1>1
  <1> QED
    BY <1>1, <1>2 DEF Types

LEMMA RejectedTypes ==
    ASSUME NEW i \in Ids, NEW g \in 0..MaxGen, NEW queues \in [Hosts -> Seq(Packets \cup Notices)],
           Types, Rejected(i, g, queues)
    PROVE  /\ events' \in [Hosts -> Seq(Packets \cup Notices)] /\ events'[R] = queues[R]
           /\ \/ events'[S] = queues[S]
              \/ /\ g \in Gens /\ Packet(i, 0, "Cancel", g) \in Packets
                 /\ events'[S] = Append(queues[S], Packet(i, 0, "Cancel", g))
  <1>1. CASE events' = queues
    BY <1>1
  <1>2. CASE cur[R] = g /\ Linked /\ events' = [queues EXCEPT ![S] = Append(@, Packet(i, 0, "Cancel", g))]
    <2>1. g \in Gens
      BY <1>2, HostFacts, Bounds DEF Linked, Gens
    <2>2. Packet(i, 0, "Cancel", g) \in Packets
      BY <2>1, Kinds, Bounds DEF Bodies
    <2>3. PICK p \in Packets : p = Packet(i, 0, "Cancel", g)
      BY <2>2
    <2>4. Append(queues[S], p) \in Seq(Packets \cup Notices)
      BY HostFacts
    <2>5. events' = [queues EXCEPT ![S] = Append(@, p)]
      BY <1>2, <2>3
    <2> QED
      BY <2>1, <2>3, <2>4, <2>5, HostFacts
  <1> QED
    BY <1>1, <1>2 DEF Rejected

LEMMA DeliverTypes ==
    ASSUME NEW jobs \in [Ids -> Jobs], NEW active, NEW p \in Packets
    PROVE  /\ Deliver(jobs, active, p) \in [Ids -> Jobs]
           /\ \A i \in Ids :
                 /\ Deliver(jobs, active, p)[i].at = jobs[i].at /\ Deliver(jobs, active, p)[i].seq = jobs[i].seq
                 /\ \A n \in DOMAIN Deliver(jobs, active, p)[i].inbox :
                       \/ n \in DOMAIN jobs[i].inbox /\ Deliver(jobs, active, p)[i].inbox[n] = jobs[i].inbox[n]
                       \/ p.id = i /\ Deliver(jobs, active, p)[i].inbox[n] = p
                 /\ Len(jobs[i].inbox) <= InboxCap => Len(Deliver(jobs, active, p)[i].inbox) <= InboxCap
  <1>1. p.id \in Ids
    BY Kinds
  <1>2. PICK job \in Jobs : job = jobs[p.id]
    BY <1>1
  <1>3. job.inbox \in Seq(Packets)
    BY JobFacts
  <1>4. PICK r \in Jobs : /\ \/ r = job
                             \/ r = [job EXCEPT !.inbox = Append(@, p)] /\ Len(job.inbox) < InboxCap
                             \/ r = [job EXCEPT !.cancel = TRUE]
                          /\ \/ Deliver(jobs, active, p) = jobs
                             \/ Deliver(jobs, active, p) = [jobs EXCEPT ![p.id] = r]
    <2>1. Append(job.inbox, p) \in Seq(Packets)
      BY <1>3
    <2>2. [job EXCEPT !.inbox = Append(job.inbox, p)] \in Jobs /\ [job EXCEPT !.cancel = TRUE] \in Jobs
      BY <2>1 DEF Jobs
    <2>3. \/ Deliver(jobs, active, p) = jobs
          \/ /\ Deliver(jobs, active, p) = [jobs EXCEPT ![p.id] = [job EXCEPT !.inbox = Append(job.inbox, p)]]
             /\ Len(job.inbox) < InboxCap
          \/ Deliver(jobs, active, p) = [jobs EXCEPT ![p.id] = [job EXCEPT !.cancel = TRUE]]
      BY <1>2 DEF Deliver
    <2> QED
      BY <2>2, <2>3
  <1>5. /\ r.at = job.at /\ r.seq = job.seq
        /\ \A n \in DOMAIN r.inbox : (n \in DOMAIN job.inbox /\ r.inbox[n] = job.inbox[n]) \/ r.inbox[n] = p
        /\ Len(job.inbox) <= InboxCap => Len(r.inbox) <= InboxCap
    <2>1. CASE r = job \/ r = [job EXCEPT !.cancel = TRUE]
      BY <2>1 DEF Jobs
    <2>2. CASE r = [job EXCEPT !.inbox = Append(@, p)] /\ Len(job.inbox) < InboxCap
      <3>1. r.inbox = Append(job.inbox, p) /\ r.at = job.at /\ r.seq = job.seq
        BY <2>2 DEF Jobs
      <3>2. Len(r.inbox) <= InboxCap
        BY <1>3, <2>2, <3>1, Bounds
      <3> QED
        BY <1>3, <3>1, <3>2
    <2> QED
      BY <1>4, <2>1, <2>2
  <1>6. PICK k \in [Ids -> Jobs] : /\ k = Deliver(jobs, active, p)
                                   /\ k = jobs \/ k = [jobs EXCEPT ![p.id] = r]
    BY <1>1, <1>4
  <1>7. \A i \in Ids : k[i] = jobs[i] \/ (i = p.id /\ k[i] = r /\ jobs[i] = job)
    BY <1>2, <1>6
  <1> QED
    BY <1>5, <1>6, <1>7

LEMMA CancelAllTypes ==
    ASSUME NEW jobs \in [Ids -> Jobs], NEW active, NEW g
    PROVE  /\ CancelAll(jobs, active, g) \in [Ids -> Jobs]
           /\ \A i \in Ids :
                 /\ CancelAll(jobs, active, g)[i].at = jobs[i].at
                 /\ CancelAll(jobs, active, g)[i].seq = jobs[i].seq
                 /\ CancelAll(jobs, active, g)[i].inbox = jobs[i].inbox
  <1>1. \A job \in Jobs : /\ [job EXCEPT !.cancel = TRUE] \in Jobs
                          /\ [job EXCEPT !.cancel = TRUE].at = job.at
                          /\ [job EXCEPT !.cancel = TRUE].seq = job.seq
                          /\ [job EXCEPT !.cancel = TRUE].inbox = job.inbox
    BY DEF Jobs
  <1> QED
    BY <1>1 DEF CancelAll

\* What is in an inbox was there before, or is the event being handled; and it
\* does not outgrow its capacity.
InboxFrom(r, s, q, i) ==
    /\ \A n \in DOMAIN r : \/ \E m \in DOMAIN s : r[n] = s[m]
                           \/ q # <<>> /\ ~IsGone(q[1]) /\ q[1].id = i /\ r[n] = q[1]
    /\ Len(s) <= InboxCap => Len(r) <= InboxCap

\* The inbox of a session that takes a step by itself.
Emptied(s, r) == r = s \/ r = <<>> \/ (s # <<>> /\ r = Tail(s))

LEMMA EmptiedFrom ==
    ASSUME NEW T, NEW s \in Seq(T), NEW r, Emptied(s, r)
    PROVE  /\ \A n \in DOMAIN r : \E m \in DOMAIN s : r[n] = s[m]
           /\ Len(s) <= InboxCap => Len(r) <= InboxCap
  <1>1. CASE r = s
    BY <1>1
  <1>2. CASE r = <<>>
    BY <1>2, Bounds
  <1>3. CASE s # <<>> /\ r = Tail(s)
    <2>1. \A n \in DOMAIN r : n + 1 \in DOMAIN s /\ r[n] = s[n + 1]
      BY <1>3
    <2>2. Len(r) <= Len(s) /\ Len(r) \in Nat /\ Len(s) \in Nat
      BY <1>3
    <2> QED
      BY <2>1, <2>2, Bounds
  <1> QED
    BY <1>1, <1>2, <1>3 DEF Emptied

OutEffect == /\ out' \in [Ids -> Jobs]
             /\ \A i \in Ids : /\ ToOffer(i)' => ToOffer(i)
                               /\ InboxFrom(out'[i].inbox, out[i].inbox, events[S], i)

\* One session changes, and its inbox gets nothing new.
LEMMA OneOut ==
    ASSUME Types, NEW i \in Ids, NEW job \in Jobs, job = out[i],
           NEW r \in Jobs, out' = [out EXCEPT ![i] = r],
           r.at = "new" \/ (r.at = "write" /\ r.seq = 0) => ToOffer(i),
           Emptied(job.inbox, r.inbox)
    PROVE  OutEffect
  <1>1. out' \in [Ids -> Jobs] /\ out'[i] = r /\ \A j \in Ids : j # i => out'[j] = out[j]
    BY DEF Types
  <1>2. \A j \in Ids : ToOffer(j)' => ToOffer(j)
    BY <1>1 DEF ToOffer
  <1>3. /\ \A n \in DOMAIN r.inbox : \E m \in DOMAIN job.inbox : r.inbox[n] = job.inbox[m]
        /\ Len(job.inbox) <= InboxCap => Len(r.inbox) <= InboxCap
    BY JobFacts, EmptiedFrom
  <1>4. \A j \in Ids : InboxFrom(out'[j].inbox, out[j].inbox, events[S], j)
    BY <1>1, <1>3 DEF InboxFrom
  <1> QED
    BY <1>1, <1>2, <1>4 DEF OutEffect

LEMMA OutStep ==
    ASSUME Types, Step
    PROVE  OutEffect
  <1> USE DEF Emptied
  <1>1. CASE UNCHANGED out
    BY <1>1 DEF OutEffect, Types, ToOffer, InboxFrom
  <1>2. ASSUME NEW i \in Ids, Start(i) PROVE OutEffect
    <2>1. out' = [out EXCEPT ![i] = Job("write", cur[S])] /\ out[i].at = "new"
      BY <1>2 DEF Start
    <2>2. PICK r : r = Job("write", cur[S])
      OBVIOUS
    <2>4. r \in Jobs /\ r.inbox = <<>>
      <3>1. cur[S] \in 0..MaxGen /\ "write" \in Steps
        BY HostFacts DEF Types, Steps
      <3> QED
        BY <2>2, <3>1, JobFacts
    <2>3. PICK job \in Jobs : job = out[i]
      BY DEF Types
    <2> QED
      BY <2>1, <2>2, <2>3, <2>4, OneOut DEF ToOffer
  <1>3. ASSUME NEW i \in Ids, SenderWrite(i) PROVE OutEffect
    <2>1. PICK job \in Jobs : job = out[i]
      BY DEF Types
    <2>2. CASE out' = [out EXCEPT ![i].at = "next"]
      <3>1. PICK r : r = WithAt(job, "next")
        OBVIOUS
      <3>2. r \in Jobs /\ r.at = "next" /\ r.inbox = job.inbox
        BY <3>1, JobChange DEF Steps
      <3>3. out' = [out EXCEPT ![i] = r]
        BY <2>1, <2>2, <3>1 DEF Types, WithAt
      <3> QED
        BY <2>1, <3>2, <3>3, OneOut
    <2>3. CASE out' = [out EXCEPT ![i].at = "giveup", ![i].seq = 0]
      <3>1. PICK r : r = WithSeq(WithAt(job, "giveup"), 0)
        OBVIOUS
      <3>2. r \in Jobs /\ r.at = "giveup" /\ r.inbox = job.inbox
        BY <3>1, JobChange, Bounds, SMTT(60), ZenonT(60) DEF Steps
      <3>3. out' = [out EXCEPT ![i] = r]
        BY <2>1, <2>3, <3>1 DEF Types, WithAt, WithSeq
      <3> QED
        BY <2>1, <3>2, <3>3, OneOut
    <2> QED
      BY <1>3, <2>2, <2>3 DEF SenderWrite
  <1>4. ASSUME NEW i \in Ids, SenderNext(i) PROVE OutEffect
    <2>1. PICK job \in Jobs : job = out[i]
      BY DEF Types
    <2>2. CASE job.inbox # <<>> /\ job.seq # Size + 1
               /\ out' = [out EXCEPT ![i].at = "write", ![i].seq = @ + 1, ![i].inbox = Tail(@)]
      <3>1. PICK t, n, a, b, r : /\ t = Tail(job.inbox) /\ n = job.seq + 1
                                 /\ a = WithAt(job, "write") /\ b = WithSeq(a, n) /\ r = WithInbox(b, t)
        OBVIOUS
      <3>2. t \in Seq(Packets) /\ n \in 0..Size + 1 /\ n # 0 /\ "write" \in Steps
        BY <2>2, <3>1, JobFacts, Bounds, SMTT(60), ZenonT(60) DEF Steps
      <3>3. r \in Jobs /\ r.seq = n /\ r.at = "write" /\ r.inbox = t
        <4>1. a \in Jobs /\ a.at = "write"
          BY <3>1, <3>2, JobChange
        <4>2. b \in Jobs /\ b.at = "write" /\ b.seq = n
          BY <3>1, <3>2, <4>1, JobChange, ZenonT(60), SMTT(60)
        <4>3. r = WithInbox(b, t) /\ t \in Seq(Packets)
          BY <3>1, <3>2
        <4> QED
          BY <4>2, <4>3, JobChange
      <3>4. out' = [out EXCEPT ![i] = r]
        BY <2>1, <2>2, <3>1 DEF Types, WithAt, WithSeq, WithInbox
      <3>5. Emptied(job.inbox, r.inbox)
        BY <2>2, <3>1, <3>3
      <3> QED
        BY <2>1, <3>2, <3>3, <3>4, <3>5, OneOut
    <2>3. CASE out' = [out EXCEPT ![i] = Over("completed")]
      <3>1. PICK r \in Jobs : r = Over("completed") /\ r.at = "completed" /\ r.inbox = <<>>
        BY JobFacts DEF Ended
      <3> QED
        BY <2>1, <2>3, <3>1, OneOut
    <2>4. CASE out' = [out EXCEPT ![i].at = "giveup", ![i].seq = 0, ![i].inbox = <<>>]
      <3>1. PICK a, b, r : a = WithAt(job, "giveup") /\ b = WithSeq(a, 0) /\ r = WithInbox(b, <<>>)
        OBVIOUS
      <3>2. a \in Jobs /\ a.at = "giveup"
        BY <3>1, JobChange DEF Steps
      <3>3. b \in Jobs /\ b.at = "giveup"
        BY <3>1, <3>2, JobChange, Bounds
      <3>4. <<>> \in Seq(Packets)
        OBVIOUS
      <3>5. r \in Jobs /\ r.at = "giveup" /\ r.inbox = <<>>
        BY <3>1, <3>3, <3>4, JobChange, ZenonT(60), SMTT(60)
      <3>6. out' = [out EXCEPT ![i] = r]
        BY <2>1, <2>4, <3>1 DEF Types, WithAt, WithSeq, WithInbox
      <3> QED
        BY <2>1, <3>5, <3>6, OneOut
    <2> QED
      BY <1>4, <2>1, <2>2, <2>3, <2>4 DEF SenderNext
  <1>5. ASSUME NEW i \in Ids, SenderGiveUp(i) PROVE OutEffect
    <2>1. PICK job \in Jobs : job = out[i]
      BY DEF Types
    <2>2. PICK end \in Ended : end = Outcome(job)
      BY JobFacts
    <2>3. PICK r \in Jobs : r = Over(end) /\ r.at = end /\ r.inbox = <<>> /\ end # "new" /\ end # "write"
      BY JobFacts DEF Ended
    <2>4. out' = [out EXCEPT ![i] = r]
      BY <1>5, <2>1, <2>2, <2>3 DEF SenderGiveUp
    <2> QED
      BY <2>1, <2>3, <2>4, OneOut
  <1>6. ASSUME NEW i \in Ids, SenderCancel(i) PROVE OutEffect
    <2>1. PICK job \in Jobs : job = out[i]
      BY DEF Types
    <2>2. PICK r : r = Cancelled(job)
      OBVIOUS
    <2>3. r \in Jobs /\ r.at = job.at /\ r.seq = job.seq /\ r.inbox = job.inbox
      BY <2>2, JobChange
    <2>4. out' = [out EXCEPT ![i] = r]
      BY <1>6, <2>1, <2>2 DEF SenderCancel, Types, Cancelled
    <2> QED
      BY <2>1, <2>3, <2>4, OneOut DEF ToOffer
  <1>7. ASSUME SenderEvent PROVE OutEffect
    <2>1. /\ Head(events[S]) \in Packets \cup Notices /\ Head(events[S]) = events[S][1] /\ events[S] # <<>>
      BY <1>7, TailTypes, HostFacts DEF SenderEvent
    <2>2. PICK e, A : e \in Packets \cup Notices /\ e = events[S][1] /\ A = {i \in Ids : Sending(i)}
      BY <2>1
    <2>3. \/ IsGone(e) /\ out' = CancelAll(out, A, e.gone)
          \/ ~IsGone(e) /\ out' = Deliver(out, A, e)
          \/ UNCHANGED out
      BY <1>7, <2>1, <2>2 DEF SenderEvent
    <2>4. CASE IsGone(e) /\ out' = CancelAll(out, A, e.gone)
      <3>1. PICK g : g = e.gone
        OBVIOUS
      <3>2. PICK k : k = CancelAll(out, A, g)
        OBVIOUS
      <3>3. /\ k \in [Ids -> Jobs]
            /\ \A i \in Ids : k[i].at = out[i].at /\ k[i].seq = out[i].seq /\ k[i].inbox = out[i].inbox
        <4>1. out \in [Ids -> Jobs]
          BY DEF Types
        <4>2. k \in [Ids -> Jobs]
          BY <3>2, <4>1, CancelAllTypes
        <4> QED
          BY <3>2, <4>1, <4>2, CancelAllTypes
      <3> QED
        BY <2>4, <3>1, <3>2, <3>3 DEF OutEffect, ToOffer, InboxFrom
    <2>5. CASE ~IsGone(e) /\ out' = Deliver(out, A, e)
      <3>1. e \in Packets
        BY <2>2, <2>5, Kinds
      <3>2. PICK k : k = Deliver(out, A, e)
        OBVIOUS
      <3>3. /\ k \in [Ids -> Jobs]
            /\ \A i \in Ids : /\ k[i].at = out[i].at /\ k[i].seq = out[i].seq
                              /\ \A n \in DOMAIN k[i].inbox :
                                    \/ n \in DOMAIN out[i].inbox /\ k[i].inbox[n] = out[i].inbox[n]
                                    \/ e.id = i /\ k[i].inbox[n] = e
                              /\ Len(out[i].inbox) <= InboxCap => Len(k[i].inbox) <= InboxCap
        <4>1. out \in [Ids -> Jobs]
          BY DEF Types
        <4>2. k \in [Ids -> Jobs]
          BY <3>1, <3>2, <4>1, DeliverTypes
        <4> QED
          BY <3>1, <3>2, <4>1, <4>2, DeliverTypes
      <3>4. out' = k
        BY <2>5, <3>2
      <3>5. \A i \in Ids : ToOffer(i)' => ToOffer(i)
        BY <3>3, <3>4 DEF ToOffer
      <3>6. \A i \in Ids : InboxFrom(k[i].inbox, out[i].inbox, events[S], i)
        BY <2>1, <2>2, <2>5, <3>3 DEF InboxFrom
      <3> QED
        BY <3>3, <3>4, <3>5, <3>6 DEF OutEffect
    <2> QED
      BY <1>1, <2>3, <2>4, <2>5
  <1>8. Connect \/ Crash \/ ReceiverEvent \/ (\E h \in Hosts : Break(h)) => UNCHANGED out
    BY DEF Connect, Break, Crash, ReceiverEvent
  <1>9. \A i \in Ids : Expire(i) \/ Decline(i) \/ ReceiverCancel(i) \/ Approve(i) \/ ReceiverStep(i)
                         => UNCHANGED out
    BY DEF Expire, Decline, ReceiverCancel, Approve, ReceiverStep,
           Register, Prepare, ReceiverWrite, ReceiverNext, Place, Record, Ack, ReceiverGiveUp
  <1> QED
    BY <1>1, <1>2, <1>3, <1>4, <1>5, <1>6, <1>7, <1>8, <1>9 DEF Step, SenderStep

-----------------------------------------------------------------------------
(* The receiver's sessions.                                                *)

IncEffect ==
    /\ inc' \in [Ids -> Jobs]
    /\ staged' \in [Ids -> 0..Size] /\ placed' \in [Ids -> 0..Size]
    /\ \A i \in Ids : /\ Holds(i, inc'[i], staged'[i], placed'[i])
                      /\ InboxFrom(inc'[i].inbox, inc[i].inbox, events[R], i)
                      /\ placed[i] = Size => placed'[i] = Size
                      /\ Begun(i)' => Begun(i) \/ (approving[i] # 0 /\ approving'[i] = 0)

\* One session changes, and its inbox gets nothing new.
LEMMA OneInc ==
    ASSUME Types, ReceiverInv, NEW i \in Ids, NEW job \in Jobs, job = inc[i],
           NEW r \in Jobs, inc' = [inc EXCEPT ![i] = r],
           NEW s \in 0..Size, staged' = [staged EXCEPT ![i] = s] \/ (staged' = staged /\ s = staged[i]),
           NEW q \in 0..Size, placed' = [placed EXCEPT ![i] = q] \/ (placed' = placed /\ q = placed[i]),
           placed[i] = Size => q = Size,
           Holds(i, r, s, q),
           Emptied(job.inbox, r.inbox),
           (r.at # "new" \/ q # 0) => Begun(i) \/ (approving[i] # 0 /\ approving'[i] = 0)
    PROVE  IncEffect
  <1>1. inc' \in [Ids -> Jobs] /\ inc'[i] = r /\ \A j \in Ids : j # i => inc'[j] = inc[j]
    BY DEF Types
  <1>2. staged' \in [Ids -> 0..Size] /\ staged'[i] = s /\ \A j \in Ids : j # i => staged'[j] = staged[j]
    BY DEF Types
  <1>3. placed' \in [Ids -> 0..Size] /\ placed'[i] = q /\ \A j \in Ids : j # i => placed'[j] = placed[j]
    BY DEF Types
  <1>4. \A j \in Ids : Holds(j, inc'[j], staged'[j], placed'[j])
    BY <1>1, <1>2, <1>3 DEF ReceiverInv
  <1>5. \A j \in Ids : Begun(j)' => Begun(j) \/ (approving[j] # 0 /\ approving'[j] = 0)
    BY <1>1, <1>3 DEF Begun
  <1>6. /\ \A n \in DOMAIN r.inbox : \E m \in DOMAIN job.inbox : r.inbox[n] = job.inbox[m]
        /\ Len(job.inbox) <= InboxCap => Len(r.inbox) <= InboxCap
    BY JobFacts, EmptiedFrom
  <1>7. \A j \in Ids : InboxFrom(inc'[j].inbox, inc[j].inbox, events[R], j)
    BY <1>1, <1>6 DEF InboxFrom
  <1> QED
    BY <1>1, <1>2, <1>3, <1>4, <1>5, <1>7 DEF IncEffect

\* All sessions keep where they are; one inbox may get the event being handled.
LEMMA AllInc ==
    ASSUME Types, ReceiverInv, UNCHANGED <<staged, placed>>, inc' \in [Ids -> Jobs],
           \A i \in Ids : /\ inc'[i].at = inc[i].at /\ inc'[i].seq = inc[i].seq
                          /\ InboxFrom(inc'[i].inbox, inc[i].inbox, events[R], i)
    PROVE  IncEffect
  BY ZenonT(60), SMTT(60) DEF IncEffect, ReceiverInv, Holds, Begun, Types

LEMMA ReceiverEventEffect ==
    ASSUME Types, ReceiverInv, ReceiverEvent
    PROVE  IncEffect
  <1>1. /\ Head(events[R]) \in Packets \cup Notices /\ Head(events[R]) = events[R][1] /\ events[R] # <<>>
    BY TailTypes, HostFacts DEF ReceiverEvent
  <1>2. PICK e, A : e \in Packets \cup Notices /\ e = events[R][1] /\ A = Active
    BY <1>1
  <1>3. UNCHANGED <<staged, placed>>
    BY DEF ReceiverEvent, disk
  <1>4. \/ IsGone(e) /\ inc' = CancelAll(inc, A, e.gone)
        \/ ~IsGone(e) /\ inc' = Deliver(inc, A, e)
        \/ UNCHANGED inc
    BY <1>1, <1>2 DEF ReceiverEvent, ConnectionGone, CancelArrives, OfferArrives
  <1>5. inc \in [Ids -> Jobs]
    BY DEF Types
  <1>6. CASE IsGone(e) /\ inc' = CancelAll(inc, A, e.gone)
    <2>1. PICK g, k : g = e.gone /\ k = CancelAll(inc, A, g)
      OBVIOUS
    <2>2. k \in [Ids -> Jobs]
      BY <1>5, <2>1, CancelAllTypes
    <2>3. \A i \in Ids : k[i].at = inc[i].at /\ k[i].seq = inc[i].seq /\ k[i].inbox = inc[i].inbox
      BY <1>5, <2>1, <2>2, CancelAllTypes
    <2>4. \A i \in Ids : InboxFrom(k[i].inbox, inc[i].inbox, events[R], i)
      BY <2>3 DEF InboxFrom
    <2> QED
      BY <1>3, <1>6, <2>1, <2>2, <2>3, <2>4, AllInc
  <1>7. CASE ~IsGone(e) /\ inc' = Deliver(inc, A, e)
    <2>1. e \in Packets
      BY <1>2, <1>7, Kinds
    <2>2. PICK k : k = Deliver(inc, A, e)
      OBVIOUS
    <2>3. k \in [Ids -> Jobs]
      BY <1>5, <2>1, <2>2, DeliverTypes
    <2>4. \A i \in Ids : /\ k[i].at = inc[i].at /\ k[i].seq = inc[i].seq
                         /\ \A n \in DOMAIN k[i].inbox :
                               \/ n \in DOMAIN inc[i].inbox /\ k[i].inbox[n] = inc[i].inbox[n]
                               \/ e.id = i /\ k[i].inbox[n] = e
                         /\ Len(inc[i].inbox) <= InboxCap => Len(k[i].inbox) <= InboxCap
      BY <1>5, <2>1, <2>2, <2>3, DeliverTypes
    <2>5. \A i \in Ids : InboxFrom(k[i].inbox, inc[i].inbox, events[R], i)
      BY <1>1, <1>2, <1>7, <2>4 DEF InboxFrom
    <2> QED
      BY <1>3, <1>7, <2>2, <2>3, <2>4, <2>5, AllInc
  <1>8. CASE UNCHANGED inc
    BY <1>3, <1>5, <1>8, AllInc DEF InboxFrom
  <1> QED
    BY <1>4, <1>6, <1>7, <1>8

LEMMA AbandonEffect ==
    ASSUME Types, ReceiverInv, NEW i \in Ids, inc[i].at \in {"prepare", "write", "next", "place"},
           Abandon(i), UNCHANGED placed
    PROVE  IncEffect
  <1>1. PICK job \in Jobs : job = inc[i]
    BY DEF Types
  <1>2. PICK a, b, r : a = WithAt(job, "giveup") /\ b = WithSeq(a, 0) /\ r = WithInbox(b, <<>>)
    OBVIOUS
  <1>3. a \in Jobs /\ a.at = "giveup"
    BY <1>2, JobChange DEF Steps
  <1>4. b \in Jobs /\ b.at = "giveup"
    BY <1>2, <1>3, JobChange, Bounds
  <1>5. <<>> \in Seq(Packets)
    OBVIOUS
  <1>6. r \in Jobs /\ r.at = "giveup" /\ r.inbox = <<>>
    BY <1>2, <1>4, <1>5, JobChange, ZenonT(60), SMTT(60)
  <1>7. inc' = [inc EXCEPT ![i] = r] /\ staged' = [staged EXCEPT ![i] = 0]
    BY <1>1, <1>2 DEF Abandon, Types, WithAt, WithSeq, WithInbox
  <1>8. PICK q \in 0..Size : q = placed[i]
    BY DEF Types
  <1>9. 0 \in 0..Size /\ Holds(i, r, 0, q)
    <2>1. i \notin folders => q = 0
      BY <1>8 DEF ReceiverInv, Holds
    <2> QED
      BY <1>6, <2>1, Bounds DEF Holds, Ended
  <1> QED
    BY <1>1, <1>6, <1>7, <1>8, <1>9, OneInc DEF Emptied, Begun

LEMMA RegisterEffect ==
    ASSUME Types, ReceiverInv, OfferInv, NEW i \in Ids, Register(i)
    PROVE  IncEffect
  <1>1. UNCHANGED <<staged, placed>> /\ approving[i] # 0 /\ approving' = [approving EXCEPT ![i] = 0]
    BY DEF Register, disk
  <1>2. CASE UNCHANGED inc
    BY <1>1, <1>2, AllInc DEF InboxFrom, Types
  <1>3. CASE inc' = [inc EXCEPT ![i] = Job("prepare", approving[i])]
    <2>1. PICK job, g, r :
              job \in Jobs /\ g \in 0..MaxGen /\ job = inc[i] /\ g = approving[i] /\ r = Job("prepare", g)
      BY DEF Types
    <2>2. r \in Jobs /\ r.at = "prepare" /\ r.seq = 0 /\ r.inbox = <<>>
      BY <2>1, JobFacts DEF Steps
    <2>3. placed[i] = 0 /\ staged[i] = 0 /\ 0 \in 0..Size
      BY <1>1, Bounds DEF OfferInv, Begun, ReceiverInv, Holds
    <2>4. Holds(i, r, 0, 0)
      BY <2>2 DEF Holds, Ended
    <2>5. approving'[i] = 0
      BY <1>1 DEF Types
    <2> QED
      BY <1>1, <1>3, <2>1, <2>2, <2>3, <2>4, <2>5, OneInc DEF Emptied
  <1> QED
    BY <1>2, <1>3 DEF Register

LEMMA PrepareEffect ==
    ASSUME Types, ReceiverInv, NEW i \in Ids, Prepare(i)
    PROVE  IncEffect
  <1>1. CASE inc' = [inc EXCEPT ![i].at = "write"] /\ UNCHANGED staged
    <2>1. PICK job, r : job \in Jobs /\ job = inc[i] /\ r = WithAt(job, "write")
      BY DEF Types
    <2>2. r \in Jobs /\ r.at = "write" /\ r.seq = job.seq /\ r.inbox = job.inbox
      BY <2>1, JobChange DEF Steps
    <2>3. inc' = [inc EXCEPT ![i] = r] /\ job.at = "prepare" /\ UNCHANGED placed
      BY <1>1, <2>1 DEF Types, WithAt, Prepare
    <2>4. job.seq = 0 /\ staged[i] = 0 /\ placed[i] = 0 /\ 0 \in 0..Size
      BY <2>1, <2>3, Bounds DEF ReceiverInv, Holds
    <2>5. Holds(i, r, 0, 0)
      BY <2>2, <2>4 DEF Holds, Ended
    <2> QED
      BY <1>1, <2>1, <2>2, <2>3, <2>4, <2>5, OneInc DEF Emptied, Begun
  <1>2. CASE Abandon(i)
    BY <1>2, AbandonEffect DEF Prepare
  <1> QED
    BY <1>1, <1>2 DEF Prepare

LEMMA ReceiverWriteEffect ==
    ASSUME Types, ReceiverInv, NEW i \in Ids, ReceiverWrite(i)
    PROVE  IncEffect
  <1>1. CASE inc' = [inc EXCEPT ![i].at = "next", ![i].seq = @ + 1] /\ UNCHANGED staged
    <2>1. PICK job, n, a, r : /\ job \in Jobs
                              /\ job = inc[i] /\ n = job.seq + 1
                              /\ a = WithAt(job, "next") /\ r = WithSeq(a, n)
      BY DEF Types
    <2>2. job.at = "write" /\ job.seq = staged[i] /\ placed[i] = 0 /\ UNCHANGED placed
      BY <2>1 DEF ReceiverWrite, ReceiverInv, Holds
    <2>3. n \in 0..Size + 1
      BY <2>1, <2>2, Bounds DEF Types
    <2>4. a \in Jobs /\ a.at = "next" /\ a.inbox = job.inbox
      BY <2>1, JobChange DEF Steps
    <2>5. r \in Jobs /\ r.at = "next" /\ r.seq = n /\ r.inbox = job.inbox
      BY <2>1, <2>3, <2>4, JobChange
    <2>6. inc' = [inc EXCEPT ![i] = r]
      BY <1>1, <2>1 DEF Types, WithAt, WithSeq
    <2>7. PICK s \in 0..Size : s = staged[i]
      BY DEF Types
    <2>8. 0 \in 0..Size /\ Holds(i, r, s, 0)
      BY <2>1, <2>2, <2>5, <2>7, Bounds DEF Holds, Ended
    <2> QED
      BY <1>1, <2>1, <2>2, <2>5, <2>6, <2>7, <2>8, OneInc DEF Emptied, Begun
  <1>2. CASE Abandon(i)
    BY <1>2, AbandonEffect DEF ReceiverWrite
  <1> QED
    BY <1>1, <1>2 DEF ReceiverWrite

LEMMA ReceiverNextEffect ==
    ASSUME Types, ReceiverInv, PacketInv, NEW i \in Ids, ReceiverNext(i)
    PROVE  IncEffect
  <1>1. PICK job, p, t : job \in Jobs /\ job = inc[i] /\ p = Head(job.inbox) /\ t = Tail(job.inbox)
    BY DEF Types
  <1>2. job.at = "next" /\ job.seq = staged[i] + 1 /\ placed[i] = 0 /\ UNCHANGED placed
    BY <1>1 DEF ReceiverNext, ReceiverInv, Holds
  <1>3. PICK s \in 0..Size : s = staged[i]
    BY DEF Types
  <1>4. ASSUME NEW at \in Steps, at # "new", job.inbox # <<>>, inc' = [inc EXCEPT ![i].at = at, ![i].inbox = Tail(@)],
               NEW u \in 0..Size, staged' = [staged EXCEPT ![i] = u] \/ (UNCHANGED staged /\ u = staged[i]),
               \A r \in Jobs : r.at = at /\ r.seq = job.seq => Holds(i, r, u, 0)
        PROVE  IncEffect
    <2>1. job.inbox \in Seq(Packets)
      BY <1>1, JobFacts
    <2>2. t \in Seq(Packets)
      BY <1>1, <1>4, <2>1
    <2>3. PICK a, r : a = WithAt(job, at) /\ r = WithInbox(a, t)
      OBVIOUS
    <2>4. a \in Jobs /\ a.at = at /\ a.seq = job.seq
      BY <1>1, <2>3, JobChange
    <2>5. r \in Jobs /\ r.at = at /\ r.seq = job.seq /\ r.inbox = t
      BY <2>2, <2>3, <2>4, JobChange
    <2>6. inc' = [inc EXCEPT ![i] = r]
      BY <1>1, <1>4, <2>3 DEF Types, WithAt, WithInbox
    <2>7. Emptied(job.inbox, r.inbox)
      BY <1>1, <1>4, <2>5 DEF Emptied
    <2>8. Holds(i, r, u, 0) /\ 0 \in 0..Size
      BY <1>4, <2>5, Bounds
    <2> QED
      BY <1>1, <1>2, <1>4, <2>5, <2>6, <2>7, <2>8, OneInc DEF Begun
  <1>5. CASE /\ job.inbox # <<>> /\ p.seq = job.seq /\ p.body = "Data"
             /\ inc' = [inc EXCEPT ![i].at = "write", ![i].inbox = Tail(@)]
             /\ staged' = [staged EXCEPT ![i] = @ + 1]
    <2>1. job.inbox \in Seq(Packets)
      BY <1>1, JobFacts
    <2>2. p = job.inbox[1] /\ 1 \in DOMAIN job.inbox
      BY <1>1, <1>5, <2>1
    <2>3. p.seq \in 1..Size
      BY <1>1, <1>5, <2>2 DEF PacketInv, FromSender
    <2>4. PICK u \in 0..Size : u = s + 1 /\ u = job.seq
      BY <1>2, <1>3, <1>5, <2>3, Bounds
    <2>5. \A r \in Jobs : r.at = "write" /\ r.seq = job.seq => Holds(i, r, u, 0)
      BY <2>4 DEF Holds, Ended
    <2>6. staged' = [staged EXCEPT ![i] = u] /\ "write" \in Steps
      BY <1>3, <1>5, <2>4 DEF Types, Steps
    <2> QED
      BY <1>4, <1>5, <2>5, <2>6
  <1>6. CASE /\ job.inbox # <<>> /\ p.seq = job.seq /\ p.body = "Complete"
             /\ inc' = [inc EXCEPT ![i].at = "place", ![i].inbox = Tail(@)]
             /\ UNCHANGED staged
    <2>1. job.inbox \in Seq(Packets)
      BY <1>1, JobFacts
    <2>2. p = job.inbox[1] /\ 1 \in DOMAIN job.inbox
      BY <1>1, <1>6, <2>1
    <2>3. p.seq = Size + 1
      BY <1>1, <1>6, <2>2 DEF PacketInv, FromSender
    <2>4. s = Size
      BY <1>2, <1>3, <1>6, <2>3, Bounds
    <2>5. \A r \in Jobs : r.at = "place" /\ r.seq = job.seq => Holds(i, r, s, 0)
      BY <2>4, Bounds DEF Holds, Ended
    <2>6. "place" \in Steps
      BY DEF Steps
    <2> QED
      BY <1>3, <1>4, <1>6, <2>5, <2>6
  <1>7. CASE Abandon(i)
    BY <1>1, <1>2, <1>7, AbandonEffect
  <1> QED
    BY <1>1, <1>5, <1>6, <1>7 DEF ReceiverNext

LEMMA PlaceEffect ==
    ASSUME Types, ReceiverInv, NEW i \in Ids, Place(i)
    PROVE  IncEffect
  <1>1. PICK job \in Jobs, s \in 0..Size, q \in 0..Size : job = inc[i] /\ s = staged[i] /\ q = placed[i]
    BY DEF Types
  <1>2. job.at = "place" /\ s + q = Size /\ s # 0 /\ (i \notin folders => q = 0)
    BY <1>1 DEF Place, ReceiverInv, Holds
  <1>3. ASSUME NEW at \in Steps, at # "new", inc' = [inc EXCEPT ![i].at = at],
               NEW u \in 0..Size, staged' = [staged EXCEPT ![i] = u],
               NEW v \in 0..Size, placed' = [placed EXCEPT ![i] = v],
               \A r \in Jobs : r.at = at => Holds(i, r, u, v)
        PROVE  IncEffect
    <2>1. PICK r : r = WithAt(job, at)
      OBVIOUS
    <2>2. r \in Jobs /\ r.at = at /\ r.inbox = job.inbox
      BY <2>1, JobChange
    <2>3. inc' = [inc EXCEPT ![i] = r]
      BY <1>1, <1>3, <2>1 DEF Types, WithAt
    <2>4. Emptied(job.inbox, r.inbox) /\ Holds(i, r, u, v) /\ Begun(i) /\ placed[i] # Size
      BY <1>1, <1>2, <1>3, <2>2, Bounds DEF Emptied, Begun
    <2> QED
      BY <1>1, <1>3, <2>2, <2>3, <2>4, OneInc
  <1>4. CASE /\ i \notin folders /\ placed' = [placed EXCEPT ![i] = staged[i]]
             /\ staged' = [staged EXCEPT ![i] = 0] /\ inc' = [inc EXCEPT ![i].at = "record"]
    <2>1. s = Size /\ 0 \in 0..Size /\ "record" \in Steps
      BY <1>2, <1>4, Bounds DEF Steps
    <2>2. \A r \in Jobs : r.at = "record" => Holds(i, r, 0, s)
      BY <2>1 DEF Holds, Ended
    <2> QED
      BY <1>1, <1>3, <1>4, <2>1, <2>2
  <1>5. CASE /\ i \in folders /\ placed' = [placed EXCEPT ![i] = @ + 1]
             /\ staged' = [staged EXCEPT ![i] = @ - 1]
             /\ inc' = [inc EXCEPT ![i].at = IF LastItem(i) THEN "record" ELSE "place"]
    <2>1. PICK u \in 0..Size, v \in 0..Size : u = s - 1 /\ v = q + 1
      BY <1>2, Bounds
    <2>2. PICK at \in Steps : /\ at = IF LastItem(i) THEN "record" ELSE "place"
                              /\ IF u = 0 THEN at = "record" ELSE at = "place"
      BY <1>1, <2>1 DEF LastItem, Steps
    <2>3. \A r \in Jobs : r.at = at => Holds(i, r, u, v)
      BY <1>2, <1>5, <2>1, <2>2, Bounds DEF Holds, Ended
    <2>4. /\ placed' = [placed EXCEPT ![i] = v] /\ staged' = [staged EXCEPT ![i] = u]
          /\ inc' = [inc EXCEPT ![i].at = at]
      BY <1>1, <1>5, <2>1, <2>2 DEF Types
    <2> QED
      BY <1>3, <2>2, <2>3, <2>4
  <1>6. CASE Abandon(i) /\ UNCHANGED placed
    BY <1>1, <1>2, <1>6, AbandonEffect
  <1> QED
    BY <1>4, <1>5, <1>6 DEF Place

\* The session is over, or ends with its acknowledgement still to send.
LEMMA EndEffect ==
    ASSUME Types, ReceiverInv, NEW i \in Ids, Record(i) \/ Ack(i) \/ ReceiverGiveUp(i) \/ ReceiverCancel(i)
    PROVE  IncEffect
  <1>1. PICK job \in Jobs, s \in 0..Size, q \in 0..Size : job = inc[i] /\ s = staged[i] /\ q = placed[i]
    BY DEF Types
  <1>2. UNCHANGED <<staged, placed>> /\ job.at # "new"
    BY <1>1 DEF Record, Ack, ReceiverGiveUp, ReceiverCancel, Receiving, disk
  <1>3. ASSUME NEW r \in Jobs, inc' = [inc EXCEPT ![i] = r], Holds(i, r, s, q), Emptied(job.inbox, r.inbox)
        PROVE  IncEffect
    BY <1>1, <1>2, <1>3, OneInc DEF Begun
  <1>4. Holds(i, job, s, q)
    BY <1>1 DEF ReceiverInv
  <1>5. CASE Record(i)
    <2>1. PICK r : r = WithAt(job, "ack")
      OBVIOUS
    <2>2. r \in Jobs /\ r.at = "ack" /\ r.inbox = job.inbox
      BY <2>1, JobChange DEF Steps
    <2>3. inc' = [inc EXCEPT ![i] = r] /\ job.at = "record"
      BY <1>1, <1>5, <2>1 DEF Types, WithAt, Record
    <2>4. Holds(i, r, s, q)
      BY <1>4, <2>2, <2>3 DEF Holds, Ended
    <2> QED
      BY <1>3, <2>2, <2>3, <2>4 DEF Emptied
  <1>6. CASE Ack(i) \/ ReceiverGiveUp(i)
    <2>1. PICK r \in Jobs : r = NewJob /\ r.at = "new" /\ r.inbox = <<>>
      BY JobFacts DEF NewJob
    <2>2. inc' = [inc EXCEPT ![i] = r] /\ job.at \in {"ack", "giveup"}
      BY <1>1, <1>6, <2>1 DEF Ack, ReceiverGiveUp
    <2>3. Holds(i, r, s, q)
      BY <1>4, <2>1, <2>2 DEF Holds, Ended
    <2> QED
      BY <1>3, <2>1, <2>2, <2>3 DEF Emptied
  <1>7. CASE ReceiverCancel(i)
    <2>1. PICK r : r = Cancelled(job)
      OBVIOUS
    <2>2. r \in Jobs /\ r.at = job.at /\ r.seq = job.seq /\ r.inbox = job.inbox
      BY <2>1, JobChange
    <2>3. inc' = [inc EXCEPT ![i] = r]
      BY <1>1, <1>7, <2>1 DEF Types, Cancelled, ReceiverCancel
    <2>4. Holds(i, r, s, q)
      BY <1>4, <2>2 DEF Holds
    <2> QED
      BY <1>3, <2>2, <2>3, <2>4 DEF Emptied
  <1> QED
    BY <1>5, <1>6, <1>7

LEMMA CrashEffect ==
    ASSUME Types, Crash
    PROVE  IncEffect
  <1>1. NewJob \in Jobs /\ NewJob.at = "new" /\ NewJob.inbox = <<>> /\ 0 \in 0..Size
    BY JobFacts, Bounds DEF NewJob
  <1>2. PICK r \in Jobs : r = NewJob
    BY <1>1
  <1>3. inc' = [i \in Ids |-> r] /\ staged' = [i \in Ids |-> 0] /\ placed' = placed
    BY <1>2 DEF Crash
  <1>4. \A i \in Ids : inc'[i] = r /\ staged'[i] = 0 /\ placed'[i] = placed[i]
    BY <1>3
  <1>5. \A i, q : Holds(i, r, 0, q)
    BY <1>1, <1>2 DEF Holds, Ended
  <1>6. \A i \in Ids : InboxFrom(r.inbox, inc[i].inbox, events[R], i)
    BY <1>1, <1>2, Bounds DEF InboxFrom
  <1>7. \A i \in Ids : Begun(i)' => Begun(i)
    BY <1>1, <1>2, <1>4 DEF Begun
  <1>8. inc' \in [Ids -> Jobs] /\ staged' \in [Ids -> 0..Size] /\ placed' \in [Ids -> 0..Size]
    BY <1>1, <1>3 DEF Types
  <1> QED
    BY <1>4, <1>5, <1>6, <1>7, <1>8 DEF IncEffect

LEMMA IncStep ==
    ASSUME Types, ReceiverInv, OfferInv, PacketInv, Step
    PROVE  IncEffect
  <1>1. CASE UNCHANGED <<inc, staged, placed>>
    BY <1>1, AllInc DEF InboxFrom, Types
  <1>2. Connect \/ SenderEvent \/ (\E h \in Hosts : Break(h)) => UNCHANGED <<inc, staged, placed>>
    BY DEF Connect, SenderEvent, Break, disk
  <1>3. \A i \in Ids : Start(i) \/ SenderStep(i) \/ SenderCancel(i) \/ Expire(i) \/ Decline(i) \/ Approve(i)
                         => UNCHANGED <<inc, staged, placed>>
    BY DEF Start, SenderStep, SenderWrite, SenderNext, SenderGiveUp, SenderCancel, Expire, Decline, Approve, disk
  <1> QED
    BY <1>1, <1>2, <1>3, ReceiverEventEffect, RegisterEffect, PrepareEffect, ReceiverWriteEffect,
       ReceiverNextEffect, PlaceEffect, EndEffect, CrashEffect DEF Step, ReceiverStep

-----------------------------------------------------------------------------
(* The events of the two hosts.                                            *)

ToSender(q, r) == Derived(q, r) \/ \E p \in Packets : r = Append(q, p) /\ FromReceiver(p, p.id)
OfferLeaves(i) == out[i].at = "write" /\ out[i].seq = 0 /\ out'[i].at = "next"
ToReceiver(q, r) ==
    Derived(q, r) \/ \E p \in Packets : r = Append(q, p) /\ FromSender(p) /\ (p.body = "Offer" => OfferLeaves(p.id))

EventsEffect ==
    /\ events' \in [Hosts -> Seq(Packets \cup Notices)]
    /\ ToSender(events[S], events'[S]) /\ ToReceiver(events[R], events'[R])

LEMMA SameQueues ==
    ASSUME Types
    PROVE  Derived(events[S], events[S]) /\ Derived(events[R], events[R])
  <1>1. \A h \in Hosts : \A n \in DOMAIN events[h] : n \in Nat
    BY DEF Types
  <1> QED
    BY <1>1, DerivedSame, HostFacts

LEMMA EventsSame == ASSUME Types, UNCHANGED events PROVE EventsEffect
  BY SameQueues DEF EventsEffect, ToSender, ToReceiver, Types

LEMMA BreakEvents ==
    ASSUME Types, NEW h \in Hosts, Break(h)
    PROVE  EventsEffect
  <1>1. PICK g \in Gens : g = cur[h]
    BY Bounds DEF Break, Types, Gens
  <1>2. PICK q \in Seq(Packets \cup Notices) : q = events[h]
    BY DEF Types
  <1>3. PICK kept, r : /\ kept \in 0..Len(q)
                       /\ r = Append(SubSeq(q, 1, kept), Gone(g))
                       /\ events' = [events EXCEPT ![h] = r]
    BY <1>1, <1>2 DEF Break, Types
  <1>4. Derived(q, r) /\ r \in Seq(Packets \cup Notices)
    BY <1>3, DerivedBreak
  <1>5. events' \in [Hosts -> Seq(Packets \cup Notices)]
    BY <1>3, <1>4 DEF Types
  <1>6. events'[h] = r /\ \A k \in Hosts : k # h => events'[k] = events[k]
    BY <1>3 DEF Types
  <1> QED
    BY <1>2, <1>4, <1>5, <1>6, SameQueues, HostFacts DEF EventsEffect, ToSender, ToReceiver

LEMMA TailEvents ==
    ASSUME Types, NEW h \in Hosts, events[h] # <<>>, events' = [events EXCEPT ![h] = Tail(@)]
    PROVE  EventsEffect
  <1>1. PICK q, r : q \in Seq(Packets \cup Notices) /\ q = events[h] /\ r = Tail(q)
    BY DEF Types
  <1>2. Derived(q, r)
    BY <1>1, DerivedTail
  <1>3. events' \in [Hosts -> Seq(Packets \cup Notices)]
    BY TailTypes
  <1>4. events'[h] = r /\ \A k \in Hosts : k # h => events'[k] = events[k]
    BY <1>1 DEF Types
  <1> QED
    BY <1>1, <1>2, <1>3, <1>4, SameQueues, HostFacts DEF EventsEffect, ToSender, ToReceiver

\* A rejection, after the event of the receiver it answers, if it answers one.
LEMMA RejectedEvents ==
    ASSUME Types, NEW i \in Ids, NEW g \in 0..MaxGen,
           NEW queues \in [Hosts -> Seq(Packets \cup Notices)], Rejected(i, g, queues),
           queues[S] = events[S], Derived(events[R], queues[R])
    PROVE  EventsEffect
  <1>1. events' \in [Hosts -> Seq(Packets \cup Notices)] /\ events'[R] = queues[R]
    BY RejectedTypes
  <1>2. CASE events'[S] = queues[S]
    BY <1>1, <1>2, SameQueues DEF EventsEffect, ToSender, ToReceiver
  <1>3. CASE /\ g \in Gens /\ Packet(i, 0, "Cancel", g) \in Packets
             /\ events'[S] = Append(queues[S], Packet(i, 0, "Cancel", g))
    <2>1. PICK p \in Packets : p = Packet(i, 0, "Cancel", g)
      BY <1>3
    <2>2. p.body = "Cancel"
      BY <2>1 DEF Packet
    <2> QED
      BY <1>1, <1>3, <2>1, <2>2 DEF EventsEffect, ToSender, ToReceiver, FromReceiver
  <1> QED
    BY <1>2, <1>3, RejectedTypes

\* What the sender's session sends.
LEMMA SenderEvents ==
    ASSUME Types, NEW i \in Ids, NEW n \in 0..Size + 1, NEW b \in Bodies, NEW job \in Jobs,
           Send(S, job, Packet(i, n, b, job.gen)),
           b = "Data" => n \in 1..Size, b = "Complete" => n = Size + 1, b = "Offer" => OfferLeaves(i)
    PROVE  EventsEffect
  <1>1. events' \in [Hosts -> Seq(Packets \cup Notices)] /\ events'[S] = events[S]
    BY SendTypes, HostFacts
  <1>2. CASE UNCHANGED events
    BY <1>2, EventsSame
  <1>3. CASE /\ job.gen \in Gens /\ Packet(i, n, b, job.gen) \in Packets
             /\ events'[R] = Append(events[R], Packet(i, n, b, job.gen))
    <2>1. PICK p \in Packets : p = Packet(i, n, b, job.gen)
      BY <1>3
    <2>2. p.id = i /\ p.body = b /\ p.seq = n
      BY <2>1 DEF Packet
    <2>3. FromSender(p) /\ (p.body = "Offer" => OfferLeaves(p.id))
      BY <2>2 DEF FromSender
    <2> QED
      BY <1>1, <1>3, <2>1, <2>3, SameQueues DEF EventsEffect, ToSender, ToReceiver
  <1> QED
    BY <1>2, <1>3, SendTypes, HostFacts

\* What the receiver's session sends.
LEMMA ReceiverEvents ==
    ASSUME Types, NEW i \in Ids, NEW n \in 0..Size + 1, NEW b \in Bodies, NEW job \in Jobs,
           Send(R, job, Packet(i, n, b, job.gen)), b = "Completed" => placed[i] = Size
    PROVE  EventsEffect
  <1>1. events' \in [Hosts -> Seq(Packets \cup Notices)] /\ events'[R] = events[R]
    BY SendTypes, HostFacts
  <1>2. CASE UNCHANGED events
    BY <1>2, EventsSame
  <1>3. CASE /\ job.gen \in Gens /\ Packet(i, n, b, job.gen) \in Packets
             /\ events'[S] = Append(events[S], Packet(i, n, b, job.gen))
    <2>1. PICK p \in Packets : p = Packet(i, n, b, job.gen)
      BY <1>3
    <2>2. p.id = i /\ p.body = b /\ FromReceiver(p, p.id)
      BY <2>1 DEF Packet, FromReceiver
    <2> QED
      BY <1>1, <1>3, <2>1, <2>2, SameQueues DEF EventsEffect, ToSender, ToReceiver
  <1> QED
    BY <1>2, <1>3, SendTypes, HostFacts

LEMMA EventsStep ==
    ASSUME Types, ReceiverInv, Step
    PROVE  EventsEffect
  <1>1. CASE UNCHANGED events
    BY <1>1, EventsSame
  <1>2. ASSUME NEW i \in Ids, SenderWrite(i) PROVE EventsEffect
    <2>1. CASE Send(S, out[i], Packet(i, out[i].seq, SenderBody(out[i].seq), out[i].gen))
               /\ out' = [out EXCEPT ![i].at = "next"]
      <3>1. PICK job, n, b : job \in Jobs /\ job = out[i] /\ n = job.seq /\ b = SenderBody(n)
        BY DEF Types
      <3>2. n \in 0..Size + 1
        BY <3>1, JobFacts
      <3>3. /\ b \in Bodies /\ (b = "Data" => n \in 1..Size) /\ (b = "Complete" => n = Size + 1)
            /\ b = "Offer" => n = 0
        BY <3>1, <3>2, Bounds DEF SenderBody, Bodies
      <3>4. out'[i].at = "next" /\ out[i].at = "write"
        BY <1>2, <2>1 DEF Types, Jobs, SenderWrite
      <3> QED
        BY <2>1, <3>1, <3>2, <3>3, <3>4, SenderEvents DEF OfferLeaves
    <2> QED
      BY <1>1, <1>2, <2>1 DEF SenderWrite
  <1>3. ASSUME NEW i \in Ids, SenderGiveUp(i) PROVE EventsEffect
    <2>1. PICK job \in Jobs, b \in Bodies : job = out[i] /\ b = "Cancel"
      BY DEF Types, Bodies
    <2>2. 0 \in 0..Size + 1
      BY Bounds
    <2> QED
      BY <1>1, <1>3, <2>1, <2>2, SenderEvents DEF SenderGiveUp
  <1>4. ASSUME NEW h \in Hosts, Break(h) PROVE EventsEffect
    BY <1>4, BreakEvents
  <1>5. CASE SenderEvent
    BY <1>5, TailEvents, HostFacts DEF SenderEvent
  <1>6. CASE ReceiverEvent
    <2>1. PICK e \in Packets \cup Notices, queues \in [Hosts -> Seq(Packets \cup Notices)] :
              e = Head(events[R]) /\ queues = [events EXCEPT ![R] = Tail(@)]
      BY <1>6, TailTypes, HostFacts DEF ReceiverEvent
    <2>2. events[R] # <<>> /\ (events' = queues \/ (~IsGone(e) /\ Rejected(e.id, e.gen, queues)))
      BY <1>6, <2>1 DEF ReceiverEvent, ConnectionGone, CancelArrives, OfferArrives
    <2>3. CASE events' = queues
      BY <2>1, <2>2, <2>3, TailEvents, HostFacts
    <2>4. CASE ~IsGone(e) /\ Rejected(e.id, e.gen, queues)
      <3>1. PICK i \in Ids, g \in 0..MaxGen : i = e.id /\ g = e.gen
        BY <2>4, Kinds, Bounds DEF Gens
      <3>2. PICK q, r : q \in Seq(Packets \cup Notices) /\ q = events[R] /\ r = Tail(q)
        BY HostFacts DEF Types
      <3>3. Derived(q, r)
        BY <2>2, <3>2, DerivedTail
      <3>4. queues[R] = r /\ queues[S] = events[S]
        BY <2>1, <3>2, HostFacts DEF Types
      <3> QED
        BY <2>4, <3>1, <3>2, <3>3, <3>4, RejectedEvents
    <2> QED
      BY <2>2, <2>3, <2>4
  <1>7. ASSUME NEW i \in Ids, NEW g \in 0..MaxGen, Rejected(i, g, events) PROVE EventsEffect
    BY <1>7, SameQueues, RejectedEvents DEF Types
  <1>8. ASSUME NEW i \in Ids, Decline(i) PROVE EventsEffect
    BY <1>7, <1>8 DEF Decline, Types
  <1>9. ASSUME NEW i \in Ids, Register(i) PROVE EventsEffect
    BY <1>1, <1>7, <1>9 DEF Register, Types
  <1>10. ASSUME NEW i \in Ids, ReceiverWrite(i) PROVE EventsEffect
    <2>1. CASE Send(R, inc[i], Packet(i, inc[i].seq, ReceiverBody(inc[i].seq), inc[i].gen))
      <3>1. PICK job, n, b : job \in Jobs /\ job = inc[i] /\ n = job.seq /\ b = ReceiverBody(n)
        BY DEF Types
      <3>2. n \in 0..Size + 1 /\ b \in Bodies /\ b # "Completed"
        BY <3>1, JobFacts DEF ReceiverBody, Bodies
      <3> QED
        BY <2>1, <3>1, <3>2, ReceiverEvents
    <2> QED
      BY <1>1, <1>10, <2>1 DEF ReceiverWrite
  <1>11. ASSUME NEW i \in Ids, Ack(i) PROVE EventsEffect
    <2>1. CASE Send(R, inc[i], Packet(i, inc[i].seq, "Completed", inc[i].gen))
      <3>1. PICK job, b, n : job \in Jobs /\ b \in Bodies /\ job = inc[i] /\ b = "Completed" /\ n = job.seq
        BY DEF Types, Bodies
      <3>2. n \in 0..Size + 1 /\ placed[i] = Size
        BY <1>11, <3>1, JobFacts DEF Ack, ReceiverInv, Holds
      <3> QED
        BY <2>1, <3>1, <3>2, ReceiverEvents
    <2> QED
      BY <1>1, <1>11, <2>1 DEF Ack
  <1>12. ASSUME NEW i \in Ids, ReceiverGiveUp(i) PROVE EventsEffect
    <2>1. PICK job \in Jobs, b \in Bodies : job = inc[i] /\ b = "Cancel"
      BY DEF Types, Bodies
    <2>2. 0 \in 0..Size + 1
      BY Bounds
    <2> QED
      BY <1>1, <1>12, <2>1, <2>2, ReceiverEvents DEF ReceiverGiveUp
  <1>13. CASE Crash
    <2>1. events' = [events EXCEPT ![R] = <<>>]
      BY <1>13 DEF Crash
    <2>2. events'[R] = <<>> /\ events'[S] = events[S] /\ events' \in [Hosts -> Seq(Packets \cup Notices)]
      BY <2>1, HostFacts DEF Types
    <2>3. Derived(events[R], <<>>)
      BY DEF Derived
    <2> QED
      BY <2>2, <2>3, SameQueues DEF EventsEffect, ToSender, ToReceiver
  <1>14. Connect => UNCHANGED events
    BY DEF Connect
  <1>15. \A i \in Ids : \/ Start(i) \/ SenderNext(i) \/ SenderCancel(i) \/ Expire(i) \/ ReceiverCancel(i)
                        \/ Approve(i) \/ Prepare(i) \/ ReceiverNext(i) \/ Place(i) \/ Record(i)
                        => UNCHANGED events
    BY DEF Start, SenderNext, SenderCancel, Expire, ReceiverCancel, Approve, Prepare, ReceiverNext, Place,
           Record, net
  <1> QED
    BY <1>1, <1>2, <1>3, <1>4, <1>5, <1>6, <1>8, <1>9, <1>10, <1>11, <1>12, <1>13, <1>14, <1>15
    DEF Step, SenderStep, ReceiverStep

-----------------------------------------------------------------------------
(* The offers.                                                             *)

TableEffect ==
    /\ offers' \in [Ids -> 0..MaxGen] /\ approving' \in [Ids -> 0..MaxGen]
    /\ \A i \in Ids :
          /\ offers'[i] # 0 => \/ offers[i] # 0
                               \/ /\ events[R] # <<>> /\ OfferOf(events[R][1], i)
                                  /\ events'[R] = Tail(events[R])
          /\ approving'[i] # 0 => approving[i] # 0 \/ (offers[i] # 0 /\ offers'[i] = 0)

LEMMA TableStep ==
    ASSUME Types, Step
    PROVE  TableEffect
  <1>1. 0 \in 0..MaxGen
    BY Bounds
  <1>2. CASE UNCHANGED <<offers, approving>>
    BY <1>2 DEF TableEffect, Types
  <1>3. ASSUME NEW i \in Ids, offers' = [offers EXCEPT ![i] = 0], UNCHANGED approving PROVE TableEffect
    BY <1>1, <1>3 DEF TableEffect, Types
  <1>4. ASSUME NEW i \in Ids, Approve(i) PROVE TableEffect
    <2>1. PICK g \in 0..MaxGen : g = offers[i]
      BY DEF Types
    <2>2. g # 0 /\ offers' = [offers EXCEPT ![i] = 0] /\ approving' = [approving EXCEPT ![i] = g]
      BY <1>4, <2>1 DEF Approve
    <2> QED
      BY <1>1, <2>1, <2>2 DEF TableEffect, Types
  <1>5. ASSUME NEW i \in Ids, Register(i) PROVE TableEffect
    <2>1. offers' = offers /\ approving' = [approving EXCEPT ![i] = 0]
      BY <1>5 DEF Register
    <2> QED
      BY <1>1, <2>1 DEF TableEffect, Types
  <1>6. CASE Crash
    <2>1. offers' = [i \in Ids |-> 0] /\ approving' = [i \in Ids |-> 0]
      BY <1>6 DEF Crash
    <2> QED
      BY <1>1, <2>1 DEF TableEffect
  <1>7. CASE ReceiverEvent
    <2>1. PICK e \in Packets \cup Notices : e = Head(events[R]) /\ e = events[R][1] /\ events[R] # <<>>
      BY <1>7, TailTypes, HostFacts DEF ReceiverEvent
    <2>2. CASE IsGone(e) /\ offers' = [i \in Ids |-> IF offers[i] = e.gone THEN 0 ELSE offers[i]]
               /\ UNCHANGED approving
      BY <1>1, <2>2 DEF TableEffect, Types
    <2>3. CASE ~IsGone(e) /\ e.body = "Offer" /\ offers' = [offers EXCEPT ![e.id] = e.gen]
               /\ events' = [events EXCEPT ![R] = Tail(@)] /\ UNCHANGED approving
      <3>1. PICK i \in Ids, g \in 0..MaxGen : i = e.id /\ g = e.gen
        BY <2>3, Kinds, Bounds DEF Gens
      <3>2. OfferOf(events[R][1], i)
        BY <2>1, <2>3, <3>1 DEF OfferOf
      <3>3. events'[R] = Tail(events[R])
        BY <2>3, HostFacts DEF Types
      <3>4. offers' = [offers EXCEPT ![i] = g]
        BY <2>3, <3>1
      <3> QED
        BY <2>1, <2>3, <3>2, <3>3, <3>4, ZenonT(60), SMTT(60) DEF TableEffect, Types
    <2>4. CASE ~IsGone(e) /\ offers' = [offers EXCEPT ![e.id] = 0] /\ UNCHANGED approving
      <3>1. e.id \in Ids
        BY <2>4, Kinds
      <3> QED
        BY <1>3, <2>4, <3>1
    <2> QED
      BY <1>2, <1>7, <2>1, <2>2, <2>3, <2>4
      DEF ReceiverEvent, ConnectionGone, OfferArrives, CancelArrives, table
  <1>8. Connect \/ SenderEvent \/ (\E h \in Hosts : Break(h)) => UNCHANGED <<offers, approving>>
    BY DEF Connect, SenderEvent, Break, table
  <1>9. \A i \in Ids : \/ Start(i) \/ SenderStep(i) \/ SenderCancel(i) \/ ReceiverCancel(i) \/ Prepare(i)
                       \/ ReceiverWrite(i) \/ ReceiverNext(i) \/ Place(i) \/ Record(i) \/ Ack(i)
                       \/ ReceiverGiveUp(i)
                       => UNCHANGED <<offers, approving>>
    BY DEF Start, SenderStep, SenderWrite, SenderNext, SenderGiveUp, SenderCancel, ReceiverCancel, Prepare,
           ReceiverWrite, ReceiverNext, Place, Record, Ack, ReceiverGiveUp, table
  <1>10. \A i \in Ids : Expire(i) \/ Decline(i) => TableEffect
    BY <1>3 DEF Expire, Decline
  <1> QED
    BY <1>2, <1>4, <1>5, <1>6, <1>7, <1>8, <1>9, <1>10 DEF Step, ReceiverStep

-----------------------------------------------------------------------------
(* The invariant is inductive.                                             *)

IInv == Types /\ ReceiverInv /\ OfferInv /\ PacketInv

LEMMA NextTypes == ASSUME IInv, Next PROVE Types'
  <1>1. OutEffect /\ IncEffect /\ EventsEffect /\ TableEffect
    BY OutStep, IncStep, EventsStep, TableStep DEF IInv, Next
  <1>2. folders' = folders
    BY DEF Next
  <1>3. cur' \in [Hosts -> 0..MaxGen] /\ gen' \in 0..MaxGen
    <2>1. CASE UNCHANGED <<cur, gen>>
      BY <2>1 DEF IInv, Types
    <2>2. CASE Connect
      <3>1. gen + 1 \in 0..MaxGen
        BY <2>2, Bounds DEF Connect, IInv, Types
      <3> QED
        BY <2>2, <3>1 DEF Connect
    <2>3. ASSUME NEW h \in Hosts, Break(h) PROVE cur' \in [Hosts -> 0..MaxGen] /\ gen' \in 0..MaxGen
      <3>1. 0 \in 0..MaxGen
        BY Bounds
      <3>2. cur' = [cur EXCEPT ![h] = 0] /\ gen' = gen
        BY <2>3 DEF Break
      <3> QED
        BY <3>1, <3>2 DEF IInv, Types
    <2>4. CASE Crash
      <3>1. 0 \in 0..MaxGen
        BY Bounds
      <3>2. cur' = [cur EXCEPT ![R] = 0] /\ gen' = gen
        BY <2>4 DEF Crash
      <3> QED
        BY <3>1, <3>2 DEF IInv, Types
    <2>5. SenderEvent \/ ReceiverEvent => UNCHANGED <<cur, gen>>
      BY DEF SenderEvent, ReceiverEvent
    <2>6. \A i \in Ids : \/ Start(i) \/ SenderStep(i) \/ SenderCancel(i) \/ Expire(i) \/ Decline(i)
                         \/ ReceiverCancel(i) \/ Approve(i) \/ ReceiverStep(i)
                         => UNCHANGED <<cur, gen>>
      BY DEF Start, SenderStep, SenderWrite, SenderNext, SenderGiveUp, SenderCancel, Expire, Decline,
             ReceiverCancel, Approve, ReceiverStep, Register, Prepare, ReceiverWrite, ReceiverNext, Place,
             Record, Ack, ReceiverGiveUp, net
    <2> QED
      BY <2>1, <2>2, <2>3, <2>4, <2>5, <2>6 DEF Next, Step
  <1> QED
    BY <1>1, <1>2, <1>3 DEF OutEffect, IncEffect, EventsEffect, TableEffect, Types, IInv

LEMMA NextReceiver == ASSUME IInv, Next PROVE ReceiverInv'
  <1>1. IncEffect /\ folders' = folders
    BY IncStep DEF IInv, Next
  <1> QED
    BY <1>1 DEF IncEffect, ReceiverInv, Holds

\* An offer in the queue after a step was there before, further back if the
\* queue has lost its head, or has just been sent.
LEMMA NextOffers == ASSUME IInv, Next PROVE OfferInv'
  <1>1. OutEffect /\ IncEffect /\ EventsEffect /\ TableEffect
    BY OutStep, IncStep, EventsStep, TableStep DEF IInv, Next
  <1>2. PICK q \in Seq(Packets \cup Notices) : q = events[R]
    BY HostFacts DEF IInv, Types
  <1>3. PICK r \in Seq(Packets \cup Notices) : r = events'[R]
    BY <1>1, HostFacts DEF EventsEffect
  <1> SUFFICES ASSUME NEW i \in Ids
      PROVE  /\ ToOffer(i)' => offers'[i] = 0 /\ approving'[i] = 0 /\ ~Begun(i)'
             /\ \A n \in DOMAIN r : OfferOf(r[n], i) =>
                   /\ ~ToOffer(i)' /\ offers'[i] = 0 /\ approving'[i] = 0 /\ ~Begun(i)'
                   /\ \A m \in DOMAIN r : OfferOf(r[m], i) => m = n
             /\ offers'[i] # 0 => approving'[i] = 0 /\ ~Begun(i)'
             /\ approving'[i] # 0 => ~Begun(i)'
    BY <1>3 DEF OfferInv, OfferOf, IsGone
  <1>4. /\ ToOffer(i) => offers[i] = 0 /\ approving[i] = 0 /\ ~Begun(i)
        /\ \A n \in DOMAIN q : OfferOf(q[n], i) =>
              /\ ~ToOffer(i) /\ offers[i] = 0 /\ approving[i] = 0 /\ ~Begun(i)
              /\ \A m \in DOMAIN q : OfferOf(q[m], i) => m = n
        /\ offers[i] # 0 => approving[i] = 0 /\ ~Begun(i)
        /\ approving[i] # 0 => ~Begun(i)
    BY <1>2 DEF IInv, OfferInv
  <1>5. /\ ToOffer(i)' => ToOffer(i)
        /\ Begun(i)' => Begun(i) \/ (approving[i] # 0 /\ approving'[i] = 0)
        /\ approving'[i] # 0 => approving[i] # 0 \/ (offers[i] # 0 /\ offers'[i] = 0)
    BY <1>1 DEF OutEffect, IncEffect, TableEffect
  <1>6. offers'[i] # 0 => offers[i] # 0 \/ (q # <<>> /\ OfferOf(q[1], i) /\ r = Tail(q) /\ 1 \in DOMAIN q)
    BY <1>1, <1>2, <1>3 DEF TableEffect
  <1>7. \/ \E d \in {0, 1} : \A n \in DOMAIN r : IsGone(r[n]) \/ (n + d \in DOMAIN q /\ r[n] = q[n + d])
        \/ \E p \in Packets : r = Append(q, p) /\ (p.body = "Offer" => OfferLeaves(p.id))
    BY <1>1, <1>2, <1>3 DEF EventsEffect, ToReceiver, Derived
  <1>8. \A n \in DOMAIN r : OfferOf(r[n], i) =>
              /\ ~ToOffer(i)' /\ offers'[i] = 0 /\ approving'[i] = 0 /\ ~Begun(i)'
              /\ \A m \in DOMAIN r : OfferOf(r[m], i) => m = n
    <2>1. CASE \E d \in {0, 1} : \A n \in DOMAIN r : IsGone(r[n]) \/ (n + d \in DOMAIN q /\ r[n] = q[n + d])
      <3>1. PICK d \in {0, 1} : \A n \in DOMAIN r : IsGone(r[n]) \/ (n + d \in DOMAIN q /\ r[n] = q[n + d])
        BY <2>1
      <3>2. \A n \in DOMAIN r : OfferOf(r[n], i) => n + d \in DOMAIN q /\ OfferOf(q[n + d], i)
        BY <3>1 DEF OfferOf
      <3>3. SUFFICES ASSUME NEW n \in DOMAIN r, OfferOf(r[n], i)
                     PROVE  /\ ~ToOffer(i)' /\ offers'[i] = 0 /\ approving'[i] = 0 /\ ~Begun(i)'
                            /\ \A m \in DOMAIN r : OfferOf(r[m], i) => m = n
        OBVIOUS
      <3>4. n \in Nat /\ n + d \in DOMAIN q /\ OfferOf(q[n + d], i)
        BY <3>2, <3>3
      <3>5. ~ToOffer(i) /\ offers[i] = 0 /\ approving[i] = 0 /\ ~Begun(i)
        BY <1>4, <3>4
      <3>6. \A m \in DOMAIN r : OfferOf(r[m], i) => m = n
        <4>1. \A m \in DOMAIN r : OfferOf(r[m], i) => m \in Nat /\ m + d = n + d
          BY <1>4, <3>2, <3>4
        <4> QED
          BY <3>4, <4>1
      <3>7. offers'[i] = 0
        <4>1. ASSUME q # <<>>, OfferOf(q[1], i), r = Tail(q), 1 \in DOMAIN q PROVE FALSE
          <5>1. n + 1 \in DOMAIN q /\ r[n] = q[n + 1]
            BY <3>3, <4>1, DerivedTail
          <5>2. OfferOf(q[n + 1], i)
            BY <3>3, <5>1
          <5>3. n + 1 = 1
            BY <1>4, <4>1, <5>1, <5>2
          <5> QED
            BY <5>3, <3>3
        <4> QED
          BY <1>6, <3>5, <4>1
      <3> QED
        BY <1>5, <3>5, <3>6, <3>7
    <2>2. CASE \E p \in Packets : r = Append(q, p) /\ (p.body = "Offer" => OfferLeaves(p.id))
      <3>1. PICK p \in Packets : r = Append(q, p) /\ (p.body = "Offer" => OfferLeaves(p.id))
        BY <2>2
      <3>2. PICK k : k = Len(q) + 1
        OBVIOUS
      <3>3. DOMAIN r = DOMAIN q \cup {k} /\ r[k] = p /\ k \notin DOMAIN q /\ \A n \in DOMAIN q : r[n] = q[n]
        BY <3>1, <3>2
      <3>4. r # Tail(q) \/ q = <<>>
        BY <3>1
      <3>5. offers'[i] # 0 => offers[i] # 0
        BY <1>6, <3>4
      <3>6. CASE OfferOf(p, i)
        <4>1. ToOffer(i) /\ ~ToOffer(i)'
          BY <3>1, <3>6 DEF OfferOf, OfferLeaves, ToOffer
        <4>2. offers[i] = 0 /\ approving[i] = 0 /\ ~Begun(i) /\ \A n \in DOMAIN q : ~OfferOf(q[n], i)
          BY <1>4, <4>1
        <4> QED
          BY <1>5, <3>3, <3>5, <4>1, <4>2
      <3>7. CASE ~OfferOf(p, i)
        BY <1>4, <1>5, <3>3, <3>5, <3>7
      <3> QED
        BY <3>6, <3>7
    <2> QED
      BY <1>7, <2>1, <2>2
  <1>9. ToOffer(i)' => offers'[i] = 0 /\ approving'[i] = 0 /\ ~Begun(i)'
    BY <1>4, <1>5, <1>6
  <1>10. offers'[i] # 0 => approving'[i] = 0 /\ ~Begun(i)'
    BY <1>4, <1>5, <1>6
  <1>11. approving'[i] # 0 => ~Begun(i)'
    BY <1>4, <1>5
  <1> QED
    BY <1>8, <1>9, <1>10, <1>11

LEMMA NextPackets == ASSUME IInv, Next PROVE PacketInv'
  <1>1. OutEffect /\ IncEffect /\ EventsEffect
    BY OutStep, IncStep, EventsStep DEF IInv, Next
  <1>2. \A i \in Ids : placed[i] = Size => placed'[i] = Size
    BY <1>1 DEF IncEffect
  <1> DEFINE Kept(p, i) == p.body = "Completed" => placed'[i] = Size
  <1>3. \A i \in Ids : \A p : FromReceiver(p, i) => Kept(p, i)
    BY <1>2 DEF FromReceiver
  <1>4. PICK qr \in Seq(Packets \cup Notices), qs \in Seq(Packets \cup Notices) : qr = events[R] /\ qs = events[S]
    BY HostFacts DEF IInv, Types
  <1>5. PICK rr \in Seq(Packets \cup Notices), rs \in Seq(Packets \cup Notices) : rr = events'[R] /\ rs = events'[S]
    BY <1>1, HostFacts DEF EventsEffect
  <1>6. \A n \in DOMAIN qr : ~IsGone(qr[n]) => FromSender(qr[n])
    BY <1>4 DEF IInv, PacketInv
  <1>7. \A n \in DOMAIN qs : ~IsGone(qs[n]) => qs[n].id \in Ids /\ FromReceiver(qs[n], qs[n].id)
    <2>1. \A n \in DOMAIN qs : qs[n] \in Packets \cup Notices
      OBVIOUS
    <2> QED
      BY <1>4, <2>1, Kinds DEF IInv, PacketInv
  <1>8. \A n \in DOMAIN rr : ~IsGone(rr[n]) => FromSender(rr[n])
    <2>1. CASE Derived(qr, rr)
      BY <1>6, <2>1 DEF Derived
    <2>2. ASSUME NEW p \in Packets, rr = Append(qr, p), FromSender(p)
          PROVE  \A n \in DOMAIN rr : ~IsGone(rr[n]) => FromSender(rr[n])
      BY <1>6, <2>2
    <2> QED
      BY <1>1, <1>4, <1>5, <2>1, <2>2 DEF EventsEffect, ToReceiver
  <1>9. \A n \in DOMAIN rs : ~IsGone(rs[n]) => Kept(rs[n], rs[n].id)
    <2>1. CASE Derived(qs, rs)
      BY <1>3, <1>7, <2>1 DEF Derived
    <2>2. ASSUME NEW p \in Packets, rs = Append(qs, p), FromReceiver(p, p.id)
          PROVE  \A n \in DOMAIN rs : ~IsGone(rs[n]) => Kept(rs[n], rs[n].id)
      <3>1. p.id \in Ids
        BY Kinds
      <3>2. \A n \in DOMAIN rs : rs[n] = p \/ (n \in DOMAIN qs /\ rs[n] = qs[n])
        BY <2>2
      <3> QED
        BY <1>3, <1>7, <2>2, <3>1, <3>2
    <2> QED
      BY <1>1, <1>4, <1>5, <2>1, <2>2 DEF EventsEffect, ToSender
  <1>10. ASSUME NEW i \in Ids PROVE \A n \in DOMAIN inc'[i].inbox : FromSender(inc'[i].inbox[n])
    <2>1. InboxFrom(inc'[i].inbox, inc[i].inbox, qr, i)
      BY <1>1, <1>4 DEF IncEffect
    <2>2. \A n \in DOMAIN inc[i].inbox : FromSender(inc[i].inbox[n])
      BY DEF IInv, PacketInv
    <2>3. qr # <<>> => 1 \in DOMAIN qr
      OBVIOUS
    <2> QED
      BY <1>6, <2>1, <2>2, <2>3 DEF InboxFrom
  <1>11. ASSUME NEW i \in Ids PROVE \A n \in DOMAIN out'[i].inbox : Kept(out'[i].inbox[n], i)
    <2>1. InboxFrom(out'[i].inbox, out[i].inbox, qs, i)
      BY <1>1, <1>4 DEF OutEffect
    <2>2. \A n \in DOMAIN out[i].inbox : FromReceiver(out[i].inbox[n], i)
      BY DEF IInv, PacketInv
    <2>3. qs # <<>> => 1 \in DOMAIN qs
      OBVIOUS
    <2> QED
      BY <1>3, <1>7, <2>1, <2>2, <2>3, SMTT(60), ZenonT(60) DEF InboxFrom
  <1> QED
    BY <1>5, <1>8, <1>9, <1>10, <1>11 DEF PacketInv, FromReceiver, FromSender, IsGone

LEMMA InitInv == Init => IInv
  <1> SUFFICES ASSUME Init PROVE IInv
    OBVIOUS
  <1>1. \A i \in Ids : /\ out[i].at = "new" /\ out[i].inbox = <<>> /\ inc[i].at = "new" /\ inc[i].inbox = <<>>
                       /\ staged[i] = 0 /\ placed[i] = 0 /\ offers[i] = 0 /\ approving[i] = 0
    BY DEF Init, NewJob
  <1>2. events[R] = <<>> /\ events[S] = <<>>
    BY HostFacts DEF Init
  <1> QED
    BY <1>1, <1>2, TypesInit
    DEF IInv, ReceiverInv, Holds, Ended, OfferInv, Begun, ToOffer, PacketInv

LEMMA NextInv == IInv /\ [Next]_vars => IInv'
  <1>1. ASSUME IInv, Next PROVE IInv'
    BY <1>1, NextTypes, NextReceiver, NextOffers, NextPackets DEF IInv
  <1>2. ASSUME IInv, UNCHANGED vars PROVE IInv'
    BY <1>2 DEF vars, net, table, disk, counters, IInv, Types, ReceiverInv, Holds, OfferInv, ToOffer, Begun,
                OfferOf, IsGone, PacketInv, FromSender, FromReceiver
  <1> QED
    BY <1>1, <1>2

(* At every stage of the receiving session (Session::receive in            *)
(* file_transfer.rs) the staging directory and the destination hold what   *)
(* that stage says, and every packet on its way says what is still true.   *)
THEOREM TransferInvariant == Spec => []IInv
  BY InitInv, NextInv, PTL DEF Spec

-----------------------------------------------------------------------------
(* The refinement.                                                         *)

HandoverStep == [Handover!Next]_Handover!vars

\* Nothing that FileHandover sees changes.
LEMMA HandoverStutter ==
    ASSUME \A i \in Ids : Told(i)' = Told(i) /\ (placed'[i] = Size <=> placed[i] = Size)
    PROVE  HandoverStep
  <1>1. [i \in Ids |-> Told(i)'] = [i \in Ids |-> Told(i)]
    OBVIOUS
  <1>2. {i \in Ids : placed'[i] = Size} = {i \in Ids : placed[i] = Size}
    OBVIOUS
  <1> QED
    BY <1>1, <1>2 DEF HandoverStep, Handover!vars

\* The sender's user is told something else of one transfer.
LEMMA ToldStep ==
    ASSUME NEW i \in Ids, NEW s, UNCHANGED placed, Told(i)' = s, \A j \in Ids : j # i => Told(j)' = Told(j),
           \/ Told(i) = "new" /\ s = "open"
           \/ Told(i) = "open" /\ s = "completed" /\ placed[i] = Size
           \/ Told(i) = "open" /\ s \in {"failed", "cancelled"}
    PROVE  HandoverStep
  <1>1. PICK told : told = [j \in Ids |-> Told(j)]
    OBVIOUS
  <1>2. [j \in Ids |-> Told(j)'] = [told EXCEPT ![i] = s]
    BY <1>1
  <1>3. {j \in Ids : placed'[j] = Size} = {j \in Ids : placed[j] = Size}
    OBVIOUS
  <1>4. told[i] = Told(i) /\ (placed[i] = Size => i \in {j \in Ids : placed[j] = Size})
    BY <1>1
  <1> QED
    BY <1>1, <1>2, <1>3, <1>4
    DEF HandoverStep, Handover!Next, Handover!Offer, Handover!Complete, Handover!GiveUp

LEMMA SenderRefines ==
    ASSUME IInv, UNCHANGED placed, NEW i \in Ids, Start(i) \/ SenderStep(i) \/ SenderCancel(i)
    PROVE  HandoverStep
  <1>0. out \in [Ids -> Jobs] /\ \A n \in DOMAIN out[i].inbox : FromReceiver(out[i].inbox[n], i)
    BY DEF IInv, Types, PacketInv
  <1>1. PICK job \in Jobs : job = out[i]
    BY <1>0
  <1>2. ASSUME NEW r, out' = [out EXCEPT ![i] = r]
        PROVE  out'[i] = r /\ \A j \in Ids : j # i => Told(j)' = Told(j)
    BY <1>0, <1>2 DEF Told
  <1>3. ASSUME NEW r, out' = [out EXCEPT ![i] = r], job.at \notin Ended \cup {"new"}, r.at \notin Ended \cup {"new"}
        PROVE  HandoverStep
    <2>1. Told(i)' = Told(i)
      BY <1>1, <1>2, <1>3 DEF Told, Ended
    <2> QED
      BY <1>2, <1>3, <2>1, HandoverStutter
  <1>4. CASE Start(i)
    <2>1. PICK r : r = Job("write", cur[S])
      OBVIOUS
    <2>2. r.at = "write" /\ out' = [out EXCEPT ![i] = r] /\ job.at = "new"
      BY <1>1, <1>4, <2>1, JobFacts, HostFacts DEF Start, Steps, IInv, Types
    <2>3. Told(i) = "new" /\ Told(i)' = "open"
      BY <1>1, <1>2, <2>2 DEF Told, Ended
    <2> QED
      BY <1>2, <2>2, <2>3, ToldStep
  <1>5. CASE SenderWrite(i)
    <2>1. PICK a, b, c : a = WithAt(job, "next") /\ b = WithAt(job, "giveup") /\ c = WithSeq(b, 0)
      OBVIOUS
    <2>2. a.at = "next" /\ b \in Jobs /\ b.at = "giveup"
      BY <2>1, JobChange DEF Steps
    <2>3. c.at = "giveup"
      BY <2>1, <2>2, JobChange, Bounds
    <2>4. job.at = "write" /\ (out' = [out EXCEPT ![i] = a] \/ out' = [out EXCEPT ![i] = c])
      BY <1>0, <1>1, <1>5, <2>1 DEF SenderWrite, WithAt, WithSeq
    <2> QED
      BY <1>3, <2>2, <2>3, <2>4 DEF Ended
  <1>6. CASE SenderNext(i)
    <2>1. job.at = "next"
      BY <1>1, <1>6 DEF SenderNext
    <2>2. CASE /\ job.inbox # <<>> /\ Expected(job, Head(job.inbox)) /\ job.seq = Size + 1
               /\ out' = [out EXCEPT ![i] = Over("completed")]
      <3>1. job.inbox \in Seq(Packets)
        BY JobFacts
      <3>2. PICK p \in Packets : p = job.inbox[1] /\ p = Head(job.inbox) /\ 1 \in DOMAIN job.inbox
        BY <2>2, <3>1
      <3>3. p.body = "Completed"
        BY <2>2, <3>2, Bounds DEF Expected
      <3>4. placed[i] = Size
        BY <1>0, <1>1, <3>2, <3>3 DEF FromReceiver
      <3>5. PICK r : r = Over("completed") /\ r.at = "completed"
        BY JobFacts DEF Ended
      <3>6. Told(i) = "open" /\ Told(i)' = "completed"
        BY <1>1, <1>2, <2>1, <2>2, <3>5 DEF Told, Ended
      <3> QED
        BY <1>2, <2>2, <3>4, <3>6, ToldStep
    <2>3. CASE /\ job.inbox # <<>> /\ job.seq # Size + 1
               /\ out' = [out EXCEPT ![i].at = "write", ![i].seq = @ + 1, ![i].inbox = Tail(@)]
      <3>1. PICK t, n, a, b, r : /\ t = Tail(job.inbox) /\ n = job.seq + 1
                                 /\ a = WithAt(job, "write") /\ b = WithSeq(a, n) /\ r = WithInbox(b, t)
        OBVIOUS
      <3>2. n \in 0..Size + 1
        BY <2>3, <3>1, JobFacts, Bounds, SMTT(60), ZenonT(60)
      <3>3. a \in Jobs /\ a.at = "write"
        BY <3>1, JobChange DEF Steps
      <3>4. b \in Jobs /\ b.at = "write"
        BY <3>1, <3>2, <3>3, JobChange
      <3>5. t \in Seq(Packets)
        BY <2>3, <3>1, JobFacts
      <3>6. r.at = "write"
        BY <3>1, <3>4, <3>5, JobChange, ZenonT(60), SMTT(60)
      <3>7. out' = [out EXCEPT ![i] = r]
        BY <1>0, <1>1, <2>3, <3>1 DEF WithAt, WithSeq, WithInbox
      <3> QED
        BY <1>3, <2>1, <3>6, <3>7 DEF Ended
    <2>4. CASE out' = [out EXCEPT ![i].at = "giveup", ![i].seq = 0, ![i].inbox = <<>>]
      <3>1. PICK a, b, r : a = WithAt(job, "giveup") /\ b = WithSeq(a, 0) /\ r = WithInbox(b, <<>>)
        OBVIOUS
      <3>2. a \in Jobs /\ a.at = "giveup"
        BY <3>1, JobChange DEF Steps
      <3>3. b \in Jobs /\ b.at = "giveup"
        BY <3>1, <3>2, JobChange, Bounds
      <3>4. <<>> \in Seq(Packets)
        OBVIOUS
      <3>5. r.at = "giveup"
        BY <3>1, <3>3, <3>4, JobChange, ZenonT(60), SMTT(60)
      <3>6. out' = [out EXCEPT ![i] = r]
        BY <1>0, <1>1, <2>4, <3>1 DEF WithAt, WithSeq, WithInbox
      <3> QED
        BY <1>3, <2>1, <3>5, <3>6 DEF Ended
    <2> QED
      BY <1>1, <1>6, <2>2, <2>3, <2>4 DEF SenderNext
  <1>7. CASE SenderGiveUp(i)
    <2>1. PICK end, r : end = Outcome(job) /\ r = Over(end)
      OBVIOUS
    <2>2. end \in {"failed", "cancelled"} /\ r.at = end
      BY <2>1, JobFacts DEF Outcome, Ended
    <2>3. job.at = "giveup" /\ out' = [out EXCEPT ![i] = r]
      BY <1>1, <1>7, <2>1 DEF SenderGiveUp
    <2>4. Told(i) = "open" /\ Told(i)' = end
      BY <1>1, <1>2, <2>2, <2>3 DEF Told, Ended
    <2> QED
      BY <1>2, <2>2, <2>3, <2>4, ToldStep
  <1>8. CASE SenderCancel(i)
    <2>1. PICK r : r = Cancelled(job)
      OBVIOUS
    <2>2. r.at = job.at
      BY <2>1, JobChange
    <2>3. out' = [out EXCEPT ![i] = r] /\ job.at \in {"write", "next", "giveup"}
      BY <1>0, <1>1, <1>8, <2>1 DEF SenderCancel, Sending, Cancelled
    <2> QED
      BY <1>3, <2>2, <2>3 DEF Ended
  <1> QED
    BY <1>4, <1>5, <1>6, <1>7, <1>8 DEF SenderStep

\* All bytes of a transfer are in place: its sender has offered it.
LEMMA PlaceRefines ==
    ASSUME IInv, NEW i \in Ids, Place(i)
    PROVE  HandoverStep
  <1>1. inc[i].at = "place" /\ UNCHANGED out
    BY DEF Place
  <1>2. placed[i] # Size
    BY <1>1, Bounds DEF IInv, Types, ReceiverInv, Holds
  <1>3. \A j \in Ids : Told(j)' = Told(j)
    BY <1>1 DEF Told
  <1>4. \A j \in Ids : j # i => placed'[j] = placed[j]
    BY DEF Place, IInv, Types
  <1>5. CASE placed'[i] # Size
    BY <1>2, <1>3, <1>4, <1>5, HandoverStutter
  <1>6. CASE placed'[i] = Size
    <2>1. PICK told : told = [j \in Ids |-> Told(j)]
      OBVIOUS
    <2>2. PICK done : done = {j \in Ids : placed[j] = Size}
      OBVIOUS
    <2>3. {j \in Ids : placed'[j] = Size} = done \cup {i} /\ i \notin done
      BY <1>2, <1>4, <1>6, <2>2
    <2>4. [j \in Ids |-> Told(j)'] = told
      BY <1>3, <2>1
    <2>5. out[i].at # "new"
      BY <1>1 DEF IInv, OfferInv, ToOffer, Begun
    <2>6. told[i] # "new"
      BY <2>1, <2>5 DEF Told, Ended
    <2> QED
      BY <2>1, <2>2, <2>3, <2>4, <2>6 DEF HandoverStep, Handover!Next, Handover!Place
  <1> QED
    BY <1>5, <1>6

LEMMA RefinementStep == IInv /\ [Next]_vars => [Handover!Next]_Handover!vars
  <1> SUFFICES ASSUME IInv, [Next]_vars PROVE HandoverStep
    BY DEF HandoverStep
  <1>1. CASE UNCHANGED <<out, placed>>
    BY <1>1, HandoverStutter DEF Told
  <1>2. UNCHANGED vars => UNCHANGED <<out, placed>>
    BY DEF vars, disk
  <1>3. Connect \/ Crash \/ ReceiverEvent \/ (\E h \in Hosts : Break(h)) => UNCHANGED <<out, placed>>
    BY DEF Connect, Crash, ReceiverEvent, Break, disk
  <1>4. CASE SenderEvent
    <2>1. PICK e, A : e = Head(events[S]) /\ A = {i \in Ids : Sending(i)}
      OBVIOUS
    <2>2. e \in Packets \cup Notices /\ out \in [Ids -> Jobs]
      BY <1>4, <2>1, TailTypes, HostFacts DEF SenderEvent, IInv, Types
    <2>3. UNCHANGED placed
      BY <1>4 DEF SenderEvent, disk
    <2>4. \/ UNCHANGED out \/ out' = CancelAll(out, A, e.gone)
          \/ ~IsGone(e) /\ out' = Deliver(out, A, e)
      BY <1>4, <2>1 DEF SenderEvent
    <2>5. CASE out' = CancelAll(out, A, e.gone)
      <3>1. PICK g, k : g = e.gone /\ k = CancelAll(out, A, g)
        OBVIOUS
      <3>2. \A i \in Ids : k[i].at = out[i].at
        BY <2>2, <3>1, CancelAllTypes
      <3> QED
        BY <2>3, <2>5, <3>1, <3>2, HandoverStutter DEF Told
    <2>6. CASE ~IsGone(e) /\ out' = Deliver(out, A, e)
      <3>1. e \in Packets
        BY <2>2, <2>6, Kinds
      <3>2. PICK k : k = Deliver(out, A, e)
        OBVIOUS
      <3>3. \A i \in Ids : k[i].at = out[i].at
        BY <2>2, <3>1, <3>2, DeliverTypes
      <3> QED
        BY <2>3, <2>6, <3>2, <3>3, HandoverStutter DEF Told
    <2> QED
      BY <1>1, <2>3, <2>4, <2>5, <2>6
  <1>5. ASSUME NEW i \in Ids, Start(i) \/ SenderStep(i) \/ SenderCancel(i) PROVE HandoverStep
    <2>1. UNCHANGED placed
      BY <1>5 DEF Start, SenderStep, SenderWrite, SenderNext, SenderGiveUp, SenderCancel, disk
    <2> QED
      BY <1>5, <2>1, SenderRefines
  <1>6. \A i \in Ids : \/ Expire(i) \/ Decline(i) \/ ReceiverCancel(i) \/ Approve(i) \/ Register(i)
                       \/ Prepare(i) \/ ReceiverWrite(i) \/ ReceiverNext(i) \/ Record(i) \/ Ack(i)
                       \/ ReceiverGiveUp(i)
                       => UNCHANGED <<out, placed>>
    BY DEF Expire, Decline, ReceiverCancel, Approve, Register, Prepare, ReceiverWrite, ReceiverNext, Record,
           Ack, ReceiverGiveUp, disk
  <1> QED
    BY <1>1, <1>2, <1>3, <1>4, <1>5, <1>6, PlaceRefines DEF Next, Step, ReceiverStep

LEMMA RefinementInit == Init => Handover!Init
  <1> SUFFICES ASSUME Init PROVE Handover!Init
    OBVIOUS
  <1>1. \A i \in Ids : Told(i) = "new" /\ placed[i] # Size
    BY Bounds DEF Init, Told, NewJob
  <1> QED
    BY <1>1 DEF Handover!Init

(* The sender's user is told that a transfer is complete only when all its *)
(* bytes are in place at the receiver, and they stay there: whatever is    *)
(* cancelled, lost, or restarted in between (file_transfer.rs).            *)
THEOREM TransferImplementsHandover == Spec => ImplementsHandover
  BY TransferInvariant, RefinementInit, RefinementStep, PTL
  DEF Spec, ImplementsHandover, Handover!Spec

-----------------------------------------------------------------------------
(* What is reserved.                                                       *)

\* A step changes the active sessions and the reservation together.
ActiveEffect ==
    \/ Active' = Active /\ reserved' = reserved
    \/ \E i \in Ids \ Active : /\ Active' = Active \cup {i} /\ reserved' = reserved + Size
                               /\ Cardinality(Active) < MaxActive
    \/ \E i \in Active : Active' = Active \ {i} /\ reserved' = reserved - Size
    \/ Active' = {} /\ reserved' = 0

LEMMA ActiveSame ==
    ASSUME \A i \in Ids : Receiving(i)' <=> Receiving(i), UNCHANGED reserved
    PROVE  ActiveEffect
  BY DEF ActiveEffect, Active

LEMMA OneActive ==
    ASSUME Types, NEW i \in Ids, NEW r, inc' = [inc EXCEPT ![i] = r]
    PROVE  /\ Receiving(i)' <=> r.at \in {"prepare", "write", "next", "place", "record", "giveup"}
           /\ \A j \in Ids : j # i => (Receiving(j)' <=> Receiving(j))
  BY DEF Types, Receiving

LEMMA ActiveStep ==
    ASSUME Types, Step
    PROVE  ActiveEffect
  <1>1. CASE UNCHANGED <<inc, reserved>>
    BY <1>1, ActiveSame DEF Receiving
  <1>2. ASSUME NEW i \in Ids, NEW job \in Jobs, job = inc[i], NEW r, inc' = [inc EXCEPT ![i] = r],
               job.at \in {"prepare", "write", "next", "place", "record", "giveup"}
               <=> r.at \in {"prepare", "write", "next", "place", "record", "giveup"},
               UNCHANGED reserved
        PROVE  ActiveEffect
    BY <1>2, OneActive, ActiveSame DEF Receiving
  <1>3. ASSUME NEW i \in Ids, NEW job \in Jobs, job = inc[i], Abandon(i), Receiving(i), UNCHANGED reserved
        PROVE  ActiveEffect
    <2>1. PICK a, b, r : a = WithAt(job, "giveup") /\ b = WithSeq(a, 0) /\ r = WithInbox(b, <<>>)
      OBVIOUS
    <2>2. a \in Jobs /\ a.at = "giveup"
      BY <2>1, JobChange DEF Steps
    <2>3. b \in Jobs /\ b.at = "giveup" /\ <<>> \in Seq(Packets)
      BY <2>1, <2>2, JobChange, Bounds
    <2>4. r.at = "giveup"
      BY <2>1, <2>3, JobChange, ZenonT(60), SMTT(60)
    <2>5. inc' = [inc EXCEPT ![i] = r]
      BY <1>3, <2>1 DEF Abandon, Types, WithAt, WithSeq, WithInbox
    <2> QED
      BY <1>2, <1>3, <2>4, <2>5 DEF Receiving
  <1>4. ASSUME NEW i \in Ids, Prepare(i) \/ ReceiverWrite(i) \/ ReceiverNext(i) \/ Place(i) PROVE ActiveEffect
    <2>1. PICK job \in Jobs : job = inc[i]
      BY DEF Types
    <2>2. Receiving(i) /\ UNCHANGED reserved
      BY <1>4 DEF Prepare, ReceiverWrite, ReceiverNext, Place, Receiving, counters
    <2>3. CASE Abandon(i)
      BY <1>3, <2>1, <2>2, <2>3
    <2>4. CASE \/ inc' = [inc EXCEPT ![i].at = "write"] \/ inc' = [inc EXCEPT ![i].at = "record"]
               \/ inc' = [inc EXCEPT ![i].at = IF LastItem(i) THEN "record" ELSE "place"]
      <3>1. PICK at \in {"write", "record", "place"} : inc' = [inc EXCEPT ![i].at = at]
        BY <2>4
      <3>2. PICK r : r = WithAt(job, at)
        OBVIOUS
      <3>3. r.at = at /\ inc' = [inc EXCEPT ![i] = r]
        BY <2>1, <3>1, <3>2, JobChange DEF Steps, Types, WithAt
      <3> QED
        BY <1>2, <2>1, <2>2, <3>3 DEF Receiving
    <2>5. CASE inc' = [inc EXCEPT ![i].at = "next", ![i].seq = @ + 1]
      <3>1. PICK r : r = [job EXCEPT !.at = "next", !.seq = @ + 1]
        OBVIOUS
      <3>2. r.at = "next" /\ inc' = [inc EXCEPT ![i] = r]
        BY <2>1, <2>5, <3>1 DEF Types, Jobs
      <3> QED
        BY <1>2, <2>1, <2>2, <3>2 DEF Receiving
    <2>6. ASSUME NEW at \in {"write", "place"}, inc' = [inc EXCEPT ![i].at = at, ![i].inbox = Tail(@)]
          PROVE  ActiveEffect
      <3>1. PICK r : r = [job EXCEPT !.at = at, !.inbox = Tail(@)]
        OBVIOUS
      <3>2. r.at = at /\ inc' = [inc EXCEPT ![i] = r]
        BY <2>1, <2>6, <3>1 DEF Types, Jobs
      <3> QED
        BY <1>2, <2>1, <2>2, <3>2 DEF Receiving
    <2> QED
      BY <1>4, <2>3, <2>4, <2>5, <2>6 DEF Prepare, ReceiverWrite, ReceiverNext, Place
  <1>5. ASSUME NEW i \in Ids, Register(i) PROVE ActiveEffect
    <2>1. PICK g, r : g \in 0..MaxGen /\ g = approving[i] /\ r = Job("prepare", g)
      BY DEF Types
    <2>2. CASE /\ Cardinality(Active) < MaxActive /\ ~Receiving(i) /\ reserved' = reserved + Size
               /\ inc' = [inc EXCEPT ![i] = Job("prepare", approving[i])]
      <3>1. r.at = "prepare" /\ inc' = [inc EXCEPT ![i] = r]
        BY <2>1, <2>2, JobFacts DEF Steps
      <3>2. Active' = Active \cup {i} /\ i \notin Active
        BY <2>2, <3>1, OneActive DEF Active
      <3> QED
        BY <2>2, <3>2 DEF ActiveEffect
    <2> QED
      BY <1>1, <1>5, <2>2 DEF Register
  <1>6. ASSUME NEW i \in Ids, Record(i) \/ ReceiverGiveUp(i) PROVE ActiveEffect
    <2>1. PICK job \in Jobs : job = inc[i]
      BY DEF Types
    <2>2. PICK a, r : a = WithAt(job, "ack") /\ r = NewJob
      OBVIOUS
    <2>3. a.at = "ack" /\ r.at = "new"
      BY <2>2, JobChange DEF Steps, NewJob
    <2>4. inc' = [inc EXCEPT ![i] = a] \/ inc' = [inc EXCEPT ![i] = r]
      BY <1>6, <2>1, <2>2 DEF Record, ReceiverGiveUp, WithAt, Types
    <2>5. Receiving(i) /\ reserved' = reserved - Size
      BY <1>6 DEF Record, ReceiverGiveUp, Publish, Receiving
    <2>6. ~Receiving(i)' /\ \A j \in Ids : j # i => (Receiving(j)' <=> Receiving(j))
      BY <2>3, <2>4, OneActive
    <2>7. Active' = Active \ {i} /\ i \in Active
      BY <2>5, <2>6 DEF Active
    <2> QED
      BY <2>5, <2>7 DEF ActiveEffect
  <1>7. ASSUME NEW i \in Ids, Ack(i) PROVE ActiveEffect
    <2>1. PICK job \in Jobs : job = inc[i]
      BY DEF Types
    <2>2. PICK r : r = NewJob
      OBVIOUS
    <2>3. r.at = "new"
      BY <2>2 DEF NewJob
    <2> QED
      BY <1>2, <1>7, <2>1, <2>2, <2>3 DEF Ack, FinishAgain, counters
  <1>8. ASSUME NEW i \in Ids, ReceiverCancel(i) PROVE ActiveEffect
    <2>1. PICK job, r : job \in Jobs /\ job = inc[i] /\ r = Cancelled(job)
      BY DEF Types
    <2>2. r.at = job.at /\ inc' = [inc EXCEPT ![i] = r]
      BY <1>8, <2>1, JobChange DEF ReceiverCancel, Types, Cancelled
    <2> QED
      BY <1>2, <1>8, <2>1, <2>2, ZenonT(60), SMTT(60) DEF ReceiverCancel, counters
  <1>9. CASE Crash
    <2>1. \A i \in Ids : ~Receiving(i)'
      BY <1>9 DEF Crash, Receiving, NewJob
    <2> QED
      BY <1>9, <2>1 DEF ActiveEffect, Active, Crash
  <1>10. CASE ReceiverEvent
    <2>1. PICK e, A : e = Head(events[R]) /\ A = Active
      OBVIOUS
    <2>2. e \in Packets \cup Notices /\ inc \in [Ids -> Jobs] /\ UNCHANGED reserved
      BY <1>10, <2>1, TailTypes, HostFacts DEF ReceiverEvent, Types, counters
    <2>3. UNCHANGED inc \/ inc' = CancelAll(inc, A, e.gone) \/ (~IsGone(e) /\ inc' = Deliver(inc, A, e))
      BY <1>10, <2>1 DEF ReceiverEvent, ConnectionGone, CancelArrives, OfferArrives
    <2>4. CASE inc' = CancelAll(inc, A, e.gone)
      <3>1. PICK g, k : g = e.gone /\ k = CancelAll(inc, A, g)
        OBVIOUS
      <3>2. \A i \in Ids : k[i].at = inc[i].at
        BY <2>2, <3>1, CancelAllTypes
      <3> QED
        BY <2>2, <2>4, <3>1, <3>2, ActiveSame DEF Receiving
    <2>5. CASE ~IsGone(e) /\ inc' = Deliver(inc, A, e)
      <3>1. PICK k : k = Deliver(inc, A, e)
        OBVIOUS
      <3>2. \A i \in Ids : k[i].at = inc[i].at
        BY <2>2, <2>5, <3>1, DeliverTypes, Kinds
      <3> QED
        BY <2>2, <2>5, <3>1, <3>2, ActiveSame DEF Receiving
    <2> QED
      BY <1>1, <2>2, <2>3, <2>4, <2>5
  <1>11. Connect \/ SenderEvent \/ (\E h \in Hosts : Break(h)) => UNCHANGED <<inc, reserved>>
    BY DEF Connect, SenderEvent, Break, counters
  <1>12. \A i \in Ids : Start(i) \/ SenderStep(i) \/ SenderCancel(i) \/ Expire(i) \/ Decline(i) \/ Approve(i)
                          => UNCHANGED <<inc, reserved>>
    BY DEF Start, SenderStep, SenderWrite, SenderNext, SenderGiveUp, SenderCancel, Expire, Decline, Approve,
           counters
  <1> QED
    BY <1>1, <1>4, <1>5, <1>6, <1>7, <1>8, <1>9, <1>10, <1>11, <1>12 DEF Step, ReceiverStep

LEMMA Distribute == \A a, b \in Nat : a * (b + 1) = a * b + a /\ a * 0 = 0
  OBVIOUS

LEMMA ReservationStep == IInv /\ ReservationExact /\ [Next]_vars => ReservationExact'
  <1> SUFFICES ASSUME IInv, ReservationExact, [Next]_vars PROVE ReservationExact'
    OBVIOUS
  <1>1. PICK n : n = Cardinality(Active)
    OBVIOUS
  <1>2. IsFiniteSet(Active) /\ n \in Nat /\ n <= MaxActive /\ reserved = Size * n
    BY <1>1, TransferAssumption, FS_Subset, FS_CardinalityType DEF Active, ReservationExact
  <1>3. ASSUME NEW m \in Nat, m <= MaxActive, Cardinality(Active)' = m, reserved' = Size * m
        PROVE  ReservationExact'
    BY <1>3 DEF ReservationExact
  <1>4. CASE Active' = Active /\ reserved' = reserved
    BY <1>1, <1>2, <1>3, <1>4
  <1>5. ASSUME NEW i \in Ids \ Active, Active' = Active \cup {i}, reserved' = reserved + Size, n < MaxActive
        PROVE  ReservationExact'
    <2>1. Cardinality(Active)' = n + 1
      BY <1>1, <1>2, <1>5, FS_AddElement
    <2>2. n + 1 \in Nat /\ n + 1 <= MaxActive /\ reserved' = Size * (n + 1)
      BY <1>2, <1>5, Bounds, Distribute
    <2> QED
      BY <1>3, <2>1, <2>2
  <1>6. ASSUME NEW i \in Active, Active' = Active \ {i}, reserved' = reserved - Size PROVE ReservationExact'
    <2>1. Cardinality(Active)' = n - 1
      BY <1>1, <1>2, <1>6, FS_RemoveElement
    <2>2. n # 0
      BY <1>1, <1>2, <1>6, FS_EmptySet
    <2>3. PICK m \in Nat : m + 1 = n
      BY <1>2, <2>2
    <2>4. Size * n = Size * m + Size /\ Size * m \in Nat
      BY <2>3, Bounds, Distribute
    <2>5. reserved' = Size * m
      BY <1>2, <1>6, <2>4, Bounds
    <2> QED
      BY <1>2, <1>3, <2>1, <2>3, <2>5, Bounds
  <1>7. CASE Active' = {} /\ reserved' = 0
    BY <1>3, <1>7, Bounds, Distribute, FS_EmptySet
  <1>8. CASE UNCHANGED vars
    BY <1>4, <1>8 DEF vars, counters, Active, Receiving
  <1> QED
    BY <1>1, <1>4, <1>5, <1>6, <1>7, <1>8, ActiveStep DEF ActiveEffect, IInv, Next

LEMMA ReservationInit == Init => ReservationExact
  <1> SUFFICES ASSUME Init PROVE ReservationExact
    OBVIOUS
  <1>1. Active = {}
    BY DEF Init, Active, Receiving, NewJob
  <1> QED
    BY <1>1, Bounds, Distribute, FS_EmptySet DEF Init, ReservationExact

(* Every session gives back exactly what it reserved, whichever way it     *)
(* ends (finish and the crash of the process in file_transfer.rs), and no  *)
(* more than MAX_ACTIVE sessions receive at a time.                        *)
THEOREM ReservationsReturn == Spec => []ReservationExact
  BY ReservationInit, TransferInvariant, ReservationStep, PTL DEF Spec

-----------------------------------------------------------------------------
(* Sums over a finite set, and the induction they need.                    *)

LEMMA LeastNumber ==
    ASSUME NEW T, T \subseteq Nat, T # {}
    PROVE  \E m \in T : \A n \in T : m <= n
  <1> DEFINE L == OpToRel(<, Nat)
  <1>1. IsWellFoundedOn(L, Nat)
    BY NatLessThanWellFounded
  <1>2. \A m, n \in Nat : n < m => <<n, m>> \in L
    BY DEF OpToRel
  <1> HIDE DEF L
  <1>3. \E m \in T : \A n \in T : <<n, m>> \notin L
    BY <1>1, WFMin
  <1>4. \A m, n \in Nat : ~(n < m) => m <= n
    OBVIOUS
  <1> QED
    BY <1>2, <1>3, <1>4

LEMMA NatSetInduction ==
    ASSUME NEW Q, 0 \in Q, \A n \in Nat : n \in Q => n + 1 \in Q
    PROVE  Nat \subseteq Q
  <1> SUFFICES ASSUME Nat \ Q # {} PROVE FALSE
    OBVIOUS
  <1>1. PICK m \in Nat \ Q : \A n \in Nat \ Q : m <= n
    BY LeastNumber
  <1>2. m # 0 /\ m - 1 \in Nat /\ m - 1 \in Q
    BY <1>1
  <1> QED
    BY <1>1, <1>2

\* Induction over the subsets of a finite set.
LEMMA SubsetInduction ==
    ASSUME NEW T, IsFiniteSet(T), NEW Q,
           \A s \in SUBSET T : (\A x \in s : s \ {x} \in Q) => s \in Q
    PROVE  \A s \in SUBSET T : s \in Q
  <1> DEFINE Bad == {n \in Nat : \E s \in SUBSET T : s \notin Q /\ Cardinality(s) = n}
  <1> SUFFICES ASSUME NEW t \in SUBSET T, t \notin Q PROVE FALSE
    OBVIOUS
  <1>1. \A s \in SUBSET T : IsFiniteSet(s) /\ Cardinality(s) \in Nat
    BY FS_Subset, FS_CardinalityType
  <1>2. Bad \subseteq Nat /\ Bad # {}
    BY <1>1
  <1>3. PICK m \in Bad : \A n \in Bad : m <= n
    <2> HIDE DEF Bad
    <2> QED
      BY <1>2, LeastNumber
  <1>4. PICK s \in SUBSET T : s \notin Q /\ Cardinality(s) = m
    BY <1>3
  <1>5. PICK x \in s : s \ {x} \notin Q
    BY <1>4
  <1>6. Cardinality(s \ {x}) = m - 1
    BY <1>1, <1>4, FS_RemoveElement
  <1>7. s \ {x} \in SUBSET T /\ Cardinality(s \ {x}) \in Nat
    BY <1>1
  <1>8. m - 1 \in Bad
    BY <1>5, <1>6, <1>7
  <1> QED
    BY <1>2, <1>3, <1>6, <1>7, <1>8

\* What SumFunctionOnSet means: the sum is taken by removing one element after the other.
Pick(s) == CHOOSE x \in s : TRUE
Rest(s) == s \ {Pick(s)}
AddOne(g, f, T) == [s \in SUBSET T |-> IF s = {} THEN 0 ELSE f[Pick(s)] + g[Rest(s)]]
IsSum(g, f, T) == g = AddOne(g, f, T)

LEMMA SumMeans == ASSUME NEW f, NEW T
    PROVE SumFunctionOnSet(f, T) = (CHOOSE g : IsSum(g, f, T))[T]
  BY DEF SumFunctionOnSet, FoldFunctionOnSet, MapThenFoldSet, IsSum, AddOne, Rest, Pick

LEMMA Picks == \A s : s # {} => Pick(s) \in s
  BY DEF Pick

LEMMA SumExists ==
    ASSUME NEW T, IsFiniteSet(T), NEW f
    PROVE  \E g : IsSum(g, f, T)
  <1> DEFINE Fn(g) == g = [s \in SUBSET T |-> g[s]]
             Upto(g, n) == \A s \in SUBSET T : Cardinality(s) <= n => g[s] = AddOne(g, f, T)[s]
             Reached == {n \in Nat : \E g : Fn(g) /\ Upto(g, n)}
  <1>1. \A s \in SUBSET T : IsFiniteSet(s) /\ Cardinality(s) \in Nat
    BY FS_Subset, FS_CardinalityType
  <1>2. 0 \in Reached
    <2>1. PICK g : g = [s \in SUBSET T |-> 0]
      OBVIOUS
    <2>2. \A s \in SUBSET T : Cardinality(s) <= 0 => s = {}
      BY <1>1, FS_EmptySet
    <2>3. Fn(g) /\ Upto(g, 0)
      BY <2>1, <2>2 DEF AddOne
    <2> QED
      BY <2>3
  <1>3. ASSUME NEW n \in Nat, n \in Reached PROVE n + 1 \in Reached
    <2>1. PICK g : Fn(g) /\ Upto(g, n)
      BY <1>3
    <2>2. PICK h : h = AddOne(g, f, T)
      OBVIOUS
    <2>3. Fn(h)
      BY <2>2 DEF AddOne
    <2>4. ASSUME NEW s \in SUBSET T, Cardinality(s) <= n + 1 PROVE h[s] = AddOne(h, f, T)[s]
      <3>1. CASE s = {}
        BY <2>2, <3>1 DEF AddOne
      <3>2. CASE s # {}
        <4>1. Rest(s) \in SUBSET T /\ Cardinality(Rest(s)) = Cardinality(s) - 1
          BY <1>1, <3>2, Picks, FS_RemoveElement DEF Rest
        <4>2. Cardinality(Rest(s)) <= n
          BY <1>1, <2>4, <4>1
        <4>2a. g[Rest(s)] = AddOne(g, f, T)[Rest(s)]
          <5> HIDE DEF Fn
          <5> QED
            BY <2>1, <4>1, <4>2
        <4>3. h[Rest(s)] = g[Rest(s)]
          BY <2>2, <4>1, <4>2a
        <4> QED
          BY <2>2, <3>2, <4>1, <4>3 DEF AddOne
      <3> QED
        BY <3>1, <3>2
    <2>5. n + 1 \in Nat /\ Upto(h, n + 1)
      BY <2>4
    <2> HIDE DEF Upto, Fn
    <2> QED
      BY <2>3, <2>5
  <1>4. Cardinality(T) \in Nat /\ \A s \in SUBSET T : Cardinality(s) <= Cardinality(T)
    BY FS_Subset, FS_CardinalityType
  <1>5. Cardinality(T) \in Reached
    <2> HIDE DEF Reached
    <2> QED
      BY <1>2, <1>3, <1>4, NatSetInduction
  <1>6. PICK g : Fn(g) /\ Upto(g, Cardinality(T))
    BY <1>5
  <1>7. g = AddOne(g, f, T)
    BY <1>4, <1>6 DEF AddOne
  <1> QED
    BY <1>7 DEF IsSum

\* Two sums, of functions that agree, over sets of which one is part of the other.
LEMMA SumsAgree ==
    ASSUME NEW T, IsFiniteSet(T), NEW V \in SUBSET T, NEW f, NEW h, \A x \in V : f[x] = h[x],
           NEW g, IsSum(g, f, T), NEW k, IsSum(k, h, V)
    PROVE  \A s \in SUBSET V : g[s] = k[s]
  <1> DEFINE Q == {s \in SUBSET V : g[s] = k[s]}
  <1>1. ASSUME NEW s \in SUBSET V, \A x \in s : s \ {x} \in Q PROVE s \in Q
    <2>1. g[s] = AddOne(g, f, T)[s] /\ k[s] = AddOne(k, h, V)[s]
      BY DEF IsSum
    <2>2. CASE s = {}
      BY <2>1, <2>2 DEF AddOne
    <2>3. CASE s # {}
      <3>1. Pick(s) \in s /\ Rest(s) \in Q
        BY <1>1, <2>3, Picks DEF Rest
      <3>2. f[Pick(s)] = h[Pick(s)] /\ g[Rest(s)] = k[Rest(s)]
        BY <3>1
      <3> QED
        BY <2>1, <2>3, <3>2 DEF AddOne
    <2> QED
      BY <2>2, <2>3
  <1>2. IsFiniteSet(V)
    BY FS_Subset
  <1> HIDE DEF Q
  <1>3. \A s \in SUBSET V : s \in Q
    BY <1>1, <1>2, SubsetInduction
  <1> QED
    BY <1>3 DEF Q

LEMMA SumIs ==
    ASSUME NEW T, IsFiniteSet(T), NEW f
    PROVE  \E g : IsSum(g, f, T) /\ \A s \in SUBSET T : SumFunctionOnSet(f, s) = g[s]
  <1>1. PICK g : IsSum(g, f, T)
    BY SumExists
  <1>2. ASSUME NEW s \in SUBSET T PROVE SumFunctionOnSet(f, s) = g[s]
    <2>1. IsFiniteSet(s)
      BY FS_Subset
    <2>2. PICK k : IsSum(k, f, s) /\ SumFunctionOnSet(f, s) = k[s]
      BY <2>1, SumExists, SumMeans
    <2> QED
      BY <1>1, <2>2, SumsAgree
  <1> QED
    BY <1>1, <1>2

LEMMA SumSame ==
    ASSUME NEW T, IsFiniteSet(T), NEW f, NEW h, \A x \in T : f[x] = h[x]
    PROVE  SumFunctionOnSet(f, T) = SumFunctionOnSet(h, T)
  <1>1. PICK g, k : /\ IsSum(g, f, T) /\ SumFunctionOnSet(f, T) = g[T]
                    /\ IsSum(k, h, T) /\ SumFunctionOnSet(h, T) = k[T]
    BY SumIs
  <1>2. T \in SUBSET T
    OBVIOUS
  <1>3. \A s \in SUBSET T : g[s] = k[s]
    BY <1>1, <1>2, SumsAgree
  <1> QED
    BY <1>1, <1>2, <1>3

LEMMA SumRest ==
    ASSUME NEW T, IsFiniteSet(T), NEW f
    PROVE  /\ SumFunctionOnSet(f, {}) = 0
           /\ T # {} => SumFunctionOnSet(f, T) = f[Pick(T)] + SumFunctionOnSet(f, Rest(T))
  <1>1. PICK g : IsSum(g, f, T) /\ \A s \in SUBSET T : SumFunctionOnSet(f, s) = g[s]
    BY SumIs
  <1>2. g[T] = AddOne(g, f, T)[T] /\ g[{}] = AddOne(g, f, T)[{}] /\ Rest(T) \in SUBSET T
    BY <1>1 DEF IsSum, Rest
  <1> QED
    BY <1>1, <1>2 DEF AddOne

LEMMA SumSplit ==
    ASSUME NEW T, IsFiniteSet(T), NEW f, \A x \in T : f[x] \in Nat
    PROVE  /\ SumFunctionOnSet(f, T) \in Nat
           /\ \A x \in T : /\ SumFunctionOnSet(f, T) = f[x] + SumFunctionOnSet(f, T \ {x})
                           /\ SumFunctionOnSet(f, T \ {x}) \in Nat
  <1> DEFINE Sum(s) == SumFunctionOnSet(f, s)
             Splits(s) == /\ Sum(s) \in Nat
                          /\ \A x \in s : Sum(s) = f[x] + Sum(s \ {x}) /\ Sum(s \ {x}) \in Nat
             Q == {s \in SUBSET T : Splits(s)}
  <1>1. \A s \in SUBSET T : s # {} => \E p \in s : Sum(s) = f[p] + Sum(s \ {p})
    <2> SUFFICES ASSUME NEW s \in SUBSET T, s # {} PROVE \E p \in s : Sum(s) = f[p] + Sum(s \ {p})
      OBVIOUS
    <2>1. IsFiniteSet(s)
      BY FS_Subset
    <2> QED
      BY <2>1, SumRest, Picks DEF Rest
  <1>2. Sum({}) = 0
    BY SumRest
  <1> HIDE DEF Sum
  <1>3. ASSUME NEW s \in SUBSET T, \A x \in s : s \ {x} \in Q PROVE s \in Q
    <2>1. CASE s = {}
      BY <1>2, <2>1
    <2>2. CASE s # {}
      <3>1. \A x \in s : f[x] \in Nat /\ Splits(s \ {x})
        BY <1>3
      <3>2. PICK p \in s : Sum(s) = f[p] + Sum(s \ {p})
        BY <1>1, <2>2
      <3>3. ASSUME NEW x \in s, x # p PROVE Sum(s) = f[x] + Sum(s \ {x})
        <4>1. PICK r : r = (s \ {p}) \ {x} /\ r = (s \ {x}) \ {p}
          OBVIOUS
        <4>2. Sum(s \ {p}) = f[x] + Sum(r) /\ Sum(s \ {x}) = f[p] + Sum(r) /\ Sum(r) \in Nat
          BY <3>1, <3>3, <4>1, ZenonT(60), SMTT(60)
        <4>3. f[x] \in Nat /\ f[p] \in Nat
          BY <3>1
        <4> QED
          BY <3>2, <4>2, <4>3
      <3>4. \A x \in s : Sum(s) = f[x] + Sum(s \ {x}) /\ Sum(s \ {x}) \in Nat
        BY <3>1, <3>2, <3>3
      <3>5. Sum(s) \in Nat
        BY <3>1, <3>2
      <3> QED
        BY <3>4, <3>5
    <2> QED
      BY <2>1, <2>2
  <1>4. T \in Q
    <2> HIDE DEF Q
    <2>1. \A s \in SUBSET T : s \in Q
      BY <1>3, SubsetInduction
    <2> QED
      BY <2>1
  <1> QED
    BY <1>4 DEF Sum

LEMMA SumSub ==
    ASSUME NEW T, IsFiniteSet(T), NEW f, \A x \in T : f[x] \in Nat
    PROVE  \A s \in SUBSET T : SumFunctionOnSet(f, s) \in Nat
  <1> SUFFICES ASSUME NEW s \in SUBSET T PROVE SumFunctionOnSet(f, s) \in Nat
    OBVIOUS
  <1>1. IsFiniteSet(s) /\ \A x \in s : f[x] \in Nat
    BY FS_Subset
  <1> QED
    BY <1>1, SumSplit

LEMMA SumZero ==
    ASSUME NEW T, IsFiniteSet(T), NEW f, \A x \in T : f[x] = 0
    PROVE  SumFunctionOnSet(f, T) = 0
  <1> DEFINE Q == {s \in SUBSET T : SumFunctionOnSet(f, s) = 0}
  <1>1. ASSUME NEW s \in SUBSET T, \A x \in s : s \ {x} \in Q PROVE s \in Q
    <2>1. IsFiniteSet(s)
      BY FS_Subset
    <2>2. CASE s = {}
      BY <2>1, <2>2, SumRest
    <2>3. CASE s # {}
      <3>1. Pick(s) \in s /\ s \ {Pick(s)} \in Q
        BY <1>1, <2>3, Picks
      <3>2. SumFunctionOnSet(f, s) = f[Pick(s)] + SumFunctionOnSet(f, Rest(s))
        BY <2>1, <2>3, SumRest
      <3>3. f[Pick(s)] = 0 /\ SumFunctionOnSet(f, Rest(s)) = 0
        BY <3>1 DEF Rest
      <3>4. SumFunctionOnSet(f, s) = 0
        BY <3>2, <3>3
      <3> QED
        BY <3>4
    <2> QED
      BY <2>2, <2>3
  <1> HIDE DEF Q
  <1>2. \A s \in SUBSET T : s \in Q
    BY <1>1, SubsetInduction
  <1> QED
    BY <1>2 DEF Q

\* The sum after a change at one place.
LEMMA SumChange ==
    ASSUME NEW T, IsFiniteSet(T), NEW f, \A x \in T : f[x] \in Nat, NEW h, \A x \in T : h[x] \in Nat,
           NEW i, \A x \in T : x # i => h[x] = f[x]
    PROVE  SumFunctionOnSet(h, T) = IF i \in T THEN SumFunctionOnSet(f, T) - f[i] + h[i]
                                    ELSE SumFunctionOnSet(f, T)
  <1>1. CASE i \notin T
    BY <1>1, SumSame
  <1>2. CASE i \in T
    <2>1. IsFiniteSet(T \ {i}) /\ \A x \in T \ {i} : h[x] = f[x]
      BY FS_Subset
    <2>2. SumFunctionOnSet(h, T \ {i}) = SumFunctionOnSet(f, T \ {i})
      BY <2>1, SumSame
    <2>3. PICK r \in Nat : /\ r = SumFunctionOnSet(f, T \ {i}) /\ SumFunctionOnSet(f, T) = f[i] + r
                           /\ SumFunctionOnSet(h, T) = h[i] + r
      BY <1>2, <2>2, SumSplit
    <2> QED
      BY <1>2, <2>3
  <1> QED
    BY <1>1, <1>2

\* Two sums within a third, with c more for each element of A.
LEMMA SumWithin ==
    ASSUME NEW T, IsFiniteSet(T), NEW A, NEW c \in Nat,
           NEW f, \A x \in T : f[x] \in Nat, NEW g, \A x \in T : g[x] \in Nat,
           NEW h, \A x \in T : h[x] \in Nat,
           \A x \in T : f[x] + g[x] <= h[x] + (IF x \in A THEN c ELSE 0)
    PROVE  SumFunctionOnSet(f, T) + SumFunctionOnSet(g, T) <= SumFunctionOnSet(h, T) + c * Cardinality(T \cap A)
  <1> DEFINE F(s) == SumFunctionOnSet(f, s)
             G(s) == SumFunctionOnSet(g, s)
             H(s) == SumFunctionOnSet(h, s)
             Q == {s \in SUBSET T : F(s) + G(s) <= H(s) + c * Cardinality(s \cap A)}
  <1>1. \A s \in SUBSET T : F(s) \in Nat /\ G(s) \in Nat /\ H(s) \in Nat
    BY SumSub
  <1>2. \A s \in SUBSET T : /\ IsFiniteSet(s) /\ IsFiniteSet(s \cap A)
                            /\ Cardinality(s \cap A) \in Nat
    BY FS_Subset, FS_CardinalityType
  <1>3. F({}) = 0 /\ G({}) = 0 /\ H({}) = 0
    BY SumRest
  <1>4. \A s \in SUBSET T : \A x \in s : /\ F(s) = f[x] + F(s \ {x}) /\ G(s) = g[x] + G(s \ {x})
                                         /\ H(s) = h[x] + H(s \ {x})
    <2> SUFFICES ASSUME NEW s \in SUBSET T
                 PROVE  \A x \in s : /\ F(s) = f[x] + F(s \ {x}) /\ G(s) = g[x] + G(s \ {x})
                                     /\ H(s) = h[x] + H(s \ {x})
      OBVIOUS
    <2>1. IsFiniteSet(s) /\ \A x \in s : f[x] \in Nat /\ g[x] \in Nat /\ h[x] \in Nat
      BY <1>2
    <2>2. \A x \in s : F(s) = f[x] + F(s \ {x})
      BY <2>1, SumSplit
    <2>3. \A x \in s : G(s) = g[x] + G(s \ {x})
      BY <2>1, SumSplit
    <2>4. \A x \in s : H(s) = h[x] + H(s \ {x})
      BY <2>1, SumSplit
    <2> QED
      BY <2>2, <2>3, <2>4
  <1> HIDE DEF F, G, H
  <1>5. ASSUME NEW s \in SUBSET T, \A x \in s : s \ {x} \in Q PROVE s \in Q
    <2>1. CASE s = {}
      <3>1. Cardinality(s \cap A) = 0
        BY <2>1, FS_EmptySet
      <3>2. c * Cardinality(s \cap A) = 0
        BY <3>1
      <3> QED
        BY <1>3, <2>1, <3>2
    <2>2. CASE s # {}
      <3>1. PICK x \in s : TRUE
        BY <2>2
      <3>2. PICK r \in SUBSET T : r = s \ {x}
        OBVIOUS
      <3>3. PICK n \in Nat : n = Cardinality(r \cap A)
        BY <1>2
      <3>4. F(r) + G(r) <= H(r) + c * n
        BY <1>5, <3>1, <3>2, <3>3
      <3>5. /\ F(s) = f[x] + F(r) /\ G(s) = g[x] + G(r) /\ H(s) = h[x] + H(r)
            /\ F(r) \in Nat /\ G(r) \in Nat /\ H(r) \in Nat
            /\ f[x] \in Nat /\ g[x] \in Nat /\ h[x] \in Nat
        BY <1>1, <1>4, <3>1, <3>2
      <3> SUFFICES F(s) + G(s) <= H(s) + c * Cardinality(s \cap A)
        OBVIOUS
      <3>6. CASE x \in A
        <4>1. s \cap A = (r \cap A) \cup {x} /\ x \notin r \cap A /\ IsFiniteSet(r \cap A)
          BY <1>2, <3>1, <3>2, <3>6
        <4>2. Cardinality(s \cap A) = n + 1
          BY <3>3, <4>1, FS_AddElement
        <4>3. c * (n + 1) = c * n + c /\ c * n \in Nat
          BY Distribute
        <4>4. f[x] + g[x] <= h[x] + c
          BY <3>1, <3>6
        <4>5. PICK m \in Nat : m = c * n
          BY <4>3
        <4>6. F(s) + G(s) <= H(s) + (m + c)
          BY <3>4, <3>5, <4>4, <4>5
        <4>7. c * Cardinality(s \cap A) = m + c
          BY <4>2, <4>3, <4>5
        <4> QED
          BY <4>6, <4>7
      <3>7. CASE x \notin A
        <4>1. s \cap A = r \cap A
          BY <3>2, <3>7
        <4>2. f[x] + g[x] <= h[x]
          BY <3>1, <3>7
        <4>3. PICK m \in Nat : m = c * n
          OBVIOUS
        <4>4. F(s) + G(s) <= H(s) + m
          BY <3>4, <3>5, <4>2, <4>3
        <4>5. c * Cardinality(s \cap A) = m
          BY <3>3, <4>1, <4>3
        <4> QED
          BY <4>4, <4>5
      <3> QED
        BY <3>6, <3>7
    <2> QED
      BY <2>1, <2>2
  <1>6. T \in Q
    <2> HIDE DEF Q
    <2>1. \A s \in SUBSET T : s \in Q
      BY <1>5, SubsetInduction
    <2> QED
      BY <2>1
  <1> QED
    BY <1>6 DEF F, G, H

-----------------------------------------------------------------------------
(* The quota of the root.                                                  *)

\* What of a transfer is in the root for good: the published bytes count it.
Settled == [i \in Ids |-> IF Receiving(i) THEN 0 ELSE placed[i]]

LEMMA SumsInRoot ==
    ASSUME Types
    PROVE  /\ IsFiniteSet(Ids \ folders)
           /\ InRoot(placed) \in Nat /\ InRoot(staged) \in Nat /\ InRoot(Settled) \in Nat
           /\ \A i \in Ids : placed[i] \in Nat /\ staged[i] \in Nat /\ Settled[i] \in Nat
  <1>1. IsFiniteSet(Ids \ folders)
    BY TransferAssumption, FS_Subset
  <1>2. \A i \in Ids : placed[i] \in Nat /\ staged[i] \in Nat /\ Settled[i] \in Nat
    BY Bounds DEF Types, Settled
  <1>3. PICK p, s, q : p = placed /\ s = staged /\ q = Settled
    OBVIOUS
  <1> QED
    BY <1>1, <1>2, SumSplit DEF InRoot

\* What is in the root for good is published, and everything else reserved.
RootInv ==
    /\ {litter, published} \subseteq Nat
    /\ litter + InRoot(Settled) <= published
    /\ published + reserved <= MaxPublished

LEMMA RootWithin ==
    ASSUME Types, ReceiverInv, ReservationExact, RootInv
    PROVE  /\ InRoot(placed) + InRoot(staged) <= InRoot(Settled) + reserved
           /\ InRoot(placed) + InRoot(staged) + litter <= MaxPublished
           /\ reserved \in Nat
  <1>1. \A i \in Ids : placed[i] + staged[i] <= Settled[i] + (IF i \in Active THEN Size ELSE 0)
    <2> SUFFICES ASSUME NEW i \in Ids PROVE placed[i] + staged[i] <= Settled[i] + (IF i \in Active THEN Size ELSE 0)
      OBVIOUS
    <2>1. PICK p, s \in 0..Size, at \in Steps : p = placed[i] /\ s = staged[i] /\ at = inc[i].at
      BY JobFacts DEF Types
    <2>2. at \notin {"prepare", "write", "next", "place", "record", "giveup"} => s = 0
      BY <2>1 DEF ReceiverInv, Holds, Steps
    <2>3. at \in {"prepare", "write", "next", "place", "record", "giveup"} => p + s <= Size
      BY <2>1, Bounds DEF ReceiverInv, Holds
    <2>4. i \in Active <=> at \in {"prepare", "write", "next", "place", "record", "giveup"}
      BY <2>1 DEF Active, Receiving
    <2>5. Settled[i] = IF i \in Active THEN 0 ELSE p
      BY <2>1 DEF Settled, Active
    <2> QED
      BY <2>1, <2>2, <2>3, <2>4, <2>5, Bounds
  <1>2. IsFiniteSet(Active) /\ Cardinality(Active) \in Nat
    BY TransferAssumption, FS_Subset, FS_CardinalityType DEF Active
  <1>3. PICK T : T = Ids \ folders
    OBVIOUS
  <1>4. Cardinality(T \cap Active) \in Nat /\ Cardinality(T \cap Active) <= Cardinality(Active)
    BY <1>2, FS_Subset, FS_CardinalityType
  <1>5. InRoot(placed) + InRoot(staged) <= InRoot(Settled) + Size * Cardinality(T \cap Active)
    BY <1>1, <1>3, SumsInRoot, SumWithin, Bounds DEF InRoot
  <1>6. \A m, n \in Nat : m <= n => Size * m <= Size * n /\ Size * m \in Nat /\ Size * n \in Nat
    BY Bounds
  <1>7. reserved \in Nat /\ Size * Cardinality(T \cap Active) <= reserved /\ Size * Cardinality(T \cap Active) \in Nat
    BY <1>2, <1>4, <1>6 DEF ReservationExact
  <1> QED
    BY <1>5, <1>7, SumsInRoot, Bounds DEF RootInv

\* Who receives changes only with what is reserved.
LEMMA ReservedActive ==
    ASSUME ReservationExact, ActiveEffect, UNCHANGED reserved
    PROVE  \A i \in Ids : Receiving(i)' <=> Receiving(i)
  <1>1. PICK n \in Nat : n = Cardinality(Active) /\ reserved = Size * n
    BY TransferAssumption, FS_Subset, FS_CardinalityType DEF Active, ReservationExact
  <1>2. reserved \in Nat /\ Size \in Nat /\ Size > 0
    BY <1>1, Bounds
  <1>3. reserved + Size # reserved /\ reserved - Size # reserved
    BY <1>2
  <1>4. CASE Active' = {} /\ reserved' = 0
    <2>1. Size * n = 0
      BY <1>1, <1>4
    <2>2. n # 0 => Size * n > 0
      BY <1>2
    <2>3. Active = {}
      BY <1>1, <2>1, <2>2, TransferAssumption, FS_Subset, FS_EmptySet DEF Active
    <2> QED
      BY <1>4, <2>3 DEF Active
  <1>5. CASE Active' = Active
    BY <1>5 DEF Active
  <1> QED
    BY <1>3, <1>4, <1>5 DEF ActiveEffect

\* A step by which nothing becomes settled.
LEMMA RootSame ==
    ASSUME Types, RootInv, folders' = folders, UNCHANGED <<litter, counters>>,
           \A i \in Ids : (Receiving(i)' <=> Receiving(i)) /\ (Receiving(i) \/ placed'[i] = placed[i])
    PROVE  RootInv'
  <1>1. Settled' = Settled
    BY DEF Settled
  <1>2. InRoot(Settled)' = InRoot(Settled)
    BY <1>1 DEF InRoot
  <1> QED
    BY <1>2 DEF RootInv, counters

\* A step by which one transfer becomes settled, or is no longer.
LEMMA SettledOne ==
    ASSUME Types, Types', folders' = folders, UNCHANGED placed, NEW i \in Ids,
           \A j \in Ids : j # i => (Receiving(j)' <=> Receiving(j))
    PROVE  InRoot(Settled)' = IF i \notin folders THEN InRoot(Settled) - Settled[i] + Settled'[i] ELSE InRoot(Settled)
  <1>1. PICK T, f, h : T = Ids \ folders /\ f = Settled /\ h = Settled'
    OBVIOUS
  <1>2. IsFiniteSet(T) /\ \A j \in Ids : f[j] \in Nat /\ placed[j] \in Nat
    BY <1>1, SumsInRoot
  <1>3. \A j \in Ids : h[j] = IF Receiving(j)' THEN 0 ELSE placed[j]
    BY <1>1 DEF Settled
  <1>4. \A j \in T : h[j] \in Nat /\ (j # i => h[j] = f[j])
    BY <1>1, <1>2, <1>3 DEF Settled
  <1>5. SumFunctionOnSet(h, T) = IF i \in T THEN SumFunctionOnSet(f, T) - f[i] + h[i] ELSE SumFunctionOnSet(f, T)
    <2>1. \A x \in T : f[x] \in Nat
      BY <1>1, <1>2
    <2> QED
      BY <1>2, <1>4, <2>1, SumChange
  <1> QED
    BY <1>1, <1>5 DEF InRoot

LEMMA RootStep ==
    ASSUME IInv, IInv', ReservationExact, RootInv, Next
    PROVE  RootInv'
  <1> USE DEF IInv
  <1>1. ActiveEffect /\ folders' = folders
    BY ActiveStep DEF Next
  <1>2. CASE UNCHANGED <<placed, litter, counters>>
    BY <1>1, <1>2, ReservedActive, RootSame DEF counters
  <1>3. /\ InRoot(Settled) \in Nat /\ reserved \in Nat /\ published \in Nat /\ litter \in Nat
        /\ Size \in Nat /\ MaxPublished \in Nat
        /\ litter + InRoot(Settled) <= published /\ published + reserved <= MaxPublished
    BY SumsInRoot, RootWithin, Bounds DEF RootInv
  <1>4. ASSUME NEW i \in Ids, Place(i) PROVE RootInv'
    <2>1. UNCHANGED <<litter, counters>> /\ Receiving(i)
      BY <1>4 DEF Place, Receiving
    <2>2. \A j \in Ids : j # i => placed'[j] = placed[j]
      BY <1>4, ZenonT(60), SMTT(60) DEF Place, Types
    <2> QED
      BY <1>1, <2>1, <2>2, ReservedActive, RootSame DEF counters
  <1>5. ASSUME NEW i \in Ids, NEW r, inc' = [inc EXCEPT ![i] = r], UNCHANGED placed
        PROVE  InRoot(Settled)' = IF i \notin folders THEN InRoot(Settled) - Settled[i] + Settled'[i]
                                  ELSE InRoot(Settled)
    BY <1>1, <1>5, OneActive, SettledOne
  <1>6. ASSUME NEW i \in Ids, Register(i) PROVE RootInv'
    <2>1. CASE UNCHANGED <<inc, reserved>>
      BY <1>2, <1>6, <2>1 DEF Register, disk, counters
    <2>2. CASE /\ inc' = [inc EXCEPT ![i] = Job("prepare", approving[i])] /\ reserved' = reserved + Size
               /\ Fits
      <3>1. UNCHANGED <<placed, litter, published>>
        BY <1>6 DEF Register, disk
      <3>2. PICK g, r : g \in 0..MaxGen /\ g = approving[i] /\ r = Job("prepare", g)
        BY DEF Types
      <3>3. inc' = [inc EXCEPT ![i] = r] /\ r.at = "prepare"
        BY <2>2, <3>2, JobFacts DEF Steps
      <3>4. Settled'[i] = 0 /\ Settled[i] \in Nat
        BY <3>3, OneActive, SumsInRoot DEF Settled
      <3>5. InRoot(Settled)' \in Int /\ InRoot(Settled)' <= InRoot(Settled)
        <4>1. InRoot(Settled)' = IF i \notin folders THEN InRoot(Settled) - Settled[i] + Settled'[i] ELSE InRoot(Settled)
          BY <1>5, <3>1, <3>3
        <4> QED
          BY <1>3, <3>4, <4>1
      <3>6. published + reserved' <= MaxPublished
        BY <1>3, <2>2 DEF Fits
      <3> QED
        BY <1>3, <3>1, <3>5, <3>6 DEF RootInv
    <2> QED
      BY <1>6, <2>1, <2>2 DEF Register
  <1>7. ASSUME NEW i \in Ids, Record(i) PROVE RootInv'
    <2>1. PICK job, a : job \in Jobs /\ job = inc[i] /\ a = WithAt(job, "ack")
      BY DEF Types
    <2>2. inc' = [inc EXCEPT ![i] = a] /\ a.at = "ack"
      BY <1>7, <2>1, JobChange DEF Record, WithAt, Types, Steps
    <2>3. UNCHANGED <<placed, litter>> /\ reserved' = reserved - Size /\ published' = published + Size
      BY <1>7 DEF Record, Publish, disk
    <2>4. Settled[i] = 0 /\ Settled'[i] = Size
      BY <1>7, <2>2, <2>3, OneActive DEF Settled, Record, Receiving, ReceiverInv, Holds
    <2>5. InRoot(Settled)' <= InRoot(Settled) + Size /\ InRoot(Settled)' \in Int
      <3>1. InRoot(Settled)' = IF i \notin folders THEN InRoot(Settled) - Settled[i] + Settled'[i] ELSE InRoot(Settled)
        BY <1>5, <2>2, <2>3
      <3> QED
        BY <1>3, <2>4, <3>1
    <2> QED
      BY <1>3, <2>3, <2>5 DEF RootInv
  <1>8. ASSUME NEW i \in Ids, ReceiverGiveUp(i) PROVE RootInv'
    <2>1. PICK r : r = NewJob
      OBVIOUS
    <2>2. inc' = [inc EXCEPT ![i] = r] /\ r.at = "new"
      BY <1>8, <2>1 DEF ReceiverGiveUp, NewJob
    <2>3. UNCHANGED <<placed, litter, published>> /\ reserved' = reserved - Size
      BY <1>8 DEF ReceiverGiveUp, disk
    <2>4. i \notin folders => Settled[i] = 0 /\ Settled'[i] = 0
      BY <1>8, <2>2, <2>3, OneActive DEF Settled, ReceiverGiveUp, Receiving, ReceiverInv, Holds
    <2>5. InRoot(Settled)' = InRoot(Settled)
      <3>1. InRoot(Settled)' = IF i \notin folders THEN InRoot(Settled) - Settled[i] + Settled'[i] ELSE InRoot(Settled)
        BY <1>5, <2>2, <2>3
      <3> QED
        BY <1>3, <2>4, <3>1
    <2> QED
      BY <1>3, <2>3, <2>5 DEF RootInv
  <1>9. CASE Crash
    <2>1. \A i \in Ids : ~Receiving(i)'
      BY <1>9 DEF Crash, Receiving, NewJob
    <2>2. /\ placed' = placed /\ litter' = litter + InRoot(staged) /\ reserved' = 0
          /\ published' = InRoot(placed) + InRoot(staged) + litter
      BY <1>9 DEF Crash, Recount
    <2>3. PICK T, f, h : T = Ids \ folders /\ f = Settled' /\ h = placed
      OBVIOUS
    <2>4. \A i \in T : f[i] = h[i]
      BY <2>1, <2>2, <2>3 DEF Settled
    <2>5. InRoot(Settled)' = InRoot(placed)
      BY <1>1, <2>3, <2>4, SumsInRoot, SumSame DEF InRoot
    <2>6. /\ InRoot(placed) \in Nat /\ InRoot(staged) \in Nat
          /\ InRoot(placed) + InRoot(staged) + litter <= MaxPublished
      BY SumsInRoot, RootWithin
    <2> QED
      BY <1>3, <2>2, <2>5, <2>6 DEF RootInv
  <1>10. Connect \/ SenderEvent \/ ReceiverEvent \/ (\E h \in Hosts : Break(h)) => UNCHANGED <<placed, litter, counters>>
    BY DEF Connect, SenderEvent, ReceiverEvent, Break, disk
  <1>11. \A i \in Ids : \/ Start(i) \/ SenderStep(i) \/ SenderCancel(i) \/ Expire(i) \/ Decline(i)
                        \/ ReceiverCancel(i) \/ Approve(i) \/ Prepare(i) \/ ReceiverWrite(i)
                        \/ ReceiverNext(i) \/ Ack(i)
                        => UNCHANGED <<placed, litter, counters>>
    BY DEF Start, SenderStep, SenderWrite, SenderNext, SenderGiveUp, SenderCancel, Expire, Decline,
           ReceiverCancel, Approve, Prepare, ReceiverWrite, ReceiverNext, Ack, FinishAgain, disk
  <1> QED
    BY <1>2, <1>4, <1>6, <1>7, <1>8, <1>9, <1>10, <1>11 DEF Next, Step, ReceiverStep

-----------------------------------------------------------------------------
(* The rest of the types: histories, inboxes, restarts.                    *)

RestInv ==
    /\ \A i \in Ids : Len(out[i].inbox) <= InboxCap /\ Len(inc[i].inbox) <= InboxCap
    /\ history \in [Ids -> Ended \cup {"none"}] /\ crashes \in 0..MaxCrash

LEMMA RestStep ==
    ASSUME IInv, RestInv, Next
    PROVE  RestInv'
  <1> USE DEF IInv
  <1>1. \A i \in Ids : Len(out'[i].inbox) <= InboxCap /\ Len(inc'[i].inbox) <= InboxCap
    BY OutStep, IncStep DEF Next, OutEffect, IncEffect, InboxFrom, RestInv
  <1>2. history' \in [Ids -> Ended \cup {"none"}]
    <2>1. CASE UNCHANGED history
      BY <2>1 DEF RestInv
    <2>2. ASSUME NEW i, NEW end \in Ended, history' = [history EXCEPT ![i] = end] PROVE history' \in [Ids -> Ended \cup {"none"}]
      BY <2>2 DEF RestInv
    <2>3. \A i \in Ids : Decline(i) \/ Record(i) => \E end \in Ended : history' = [history EXCEPT ![i] = end]
      BY DEF Decline, Record, Ended
    <2>4. \A i \in Ids : Register(i) => UNCHANGED history \/ \E end \in Ended : history' = [history EXCEPT ![i] = end]
      BY DEF Register, Ended
    <2>5. \A i \in Ids : ReceiverGiveUp(i) => \E end \in Ended : history' = [history EXCEPT ![i] = end]
      BY JobFacts DEF ReceiverGiveUp, Types
    <2>6. CASE Crash
      BY <2>6 DEF Crash
    <2>7. CASE ReceiverEvent
      <3>1. \A g, q : ConnectionGone(g, q) => history' \in [Ids -> Ended \cup {"none"}]
        BY DEF ConnectionGone, RestInv, Ended
      <3>2. \A p, q : OfferArrives(p, q) => UNCHANGED history
        BY DEF OfferArrives
      <3>3. \A p, q : CancelArrives(p, q) => UNCHANGED history \/ \E end \in Ended : history' = [history EXCEPT ![p.id] = end]
        BY DEF CancelArrives, table, Ended
      <3> QED
        BY <2>1, <2>2, <2>7, <3>1, <3>2, <3>3 DEF ReceiverEvent, table
    <2>8. Connect \/ SenderEvent \/ (\E h \in Hosts : Break(h)) => UNCHANGED history
      BY DEF Connect, SenderEvent, Break, table
    <2>9. \A i \in Ids : \/ Start(i) \/ SenderStep(i) \/ SenderCancel(i) \/ Expire(i) \/ ReceiverCancel(i)
                         \/ Approve(i) \/ Prepare(i) \/ ReceiverWrite(i) \/ ReceiverNext(i) \/ Place(i) \/ Ack(i)
                         => UNCHANGED history
      BY DEF Start, SenderStep, SenderWrite, SenderNext, SenderGiveUp, SenderCancel, Expire, ReceiverCancel,
             Approve, Prepare, ReceiverWrite, ReceiverNext, Place, Ack, table
    <2> QED
      BY <2>1, <2>2, <2>3, <2>4, <2>5, <2>6, <2>7, <2>8, <2>9 DEF Next, Step, ReceiverStep
  <1>3. crashes' \in 0..MaxCrash
    <2>1. UNCHANGED crashes \/ (crashes < MaxCrash /\ crashes' = crashes + 1)
      BY ZenonT(60), SMTT(60) DEF Next, Step, Connect, SenderEvent, ReceiverEvent, Break, Crash, Start,
         SenderStep, SenderWrite,
             SenderNext, SenderGiveUp, SenderCancel, Expire, Decline, ReceiverCancel, Approve, ReceiverStep,
             Register, Prepare, ReceiverWrite, ReceiverNext, Place, Record, Ack, ReceiverGiveUp
    <2> QED
      BY <2>1, Bounds, SMTT(60), ZenonT(60) DEF RestInv
  <1> QED
    BY <1>1, <1>2, <1>3 DEF RestInv

QuotaInv == ReservationExact /\ RootInv /\ RestInv

LEMMA QuotaStep == IInv /\ IInv' /\ QuotaInv /\ [Next]_vars => QuotaInv'
  <1> SUFFICES ASSUME IInv, IInv', QuotaInv, [Next]_vars PROVE QuotaInv'
    OBVIOUS
  <1>1. CASE Next
    BY <1>1, ReservationStep, RootStep, RestStep DEF QuotaInv
  <1>2. CASE UNCHANGED vars
    BY <1>2 DEF QuotaInv, vars, ReservationExact, RootInv, RestInv, Active, Receiving, Settled, InRoot,
                counters, disk, table
  <1> QED
    BY <1>1, <1>2

LEMMA QuotaFits == IInv /\ QuotaInv => QuotaKept
  <1> SUFFICES ASSUME IInv, QuotaInv PROVE QuotaKept
    OBVIOUS
  <1>1. reserved \in Nat /\ InRoot(placed) + InRoot(staged) + litter <= MaxPublished
    BY RootWithin DEF IInv, QuotaInv
  <1>2. TransferTypeOK
    BY <1>1 DEF TransferTypeOK, IInv, Types, QuotaInv, RootInv, RestInv, Notices
  <1> QED
    BY <1>1, <1>2 DEF QuotaKept, QuotaInv

(* The root never holds more than its quota, counting what is staged, what *)
(* is in place and what crashes left behind, though a session's bytes are  *)
(* counted before they are there, moved between two counters when it ends, *)
(* and counted anew when the process starts (register, finish and the      *)
(* opening of the service in file_transfer.rs).                            *)
THEOREM RootWithinQuota == Spec => []QuotaKept
  <1>1. Init => QuotaInv
    <2> SUFFICES ASSUME Init PROVE QuotaInv
      OBVIOUS
    <2>1. ReservationExact
      BY ReservationInit
    <2>2. InRoot(Settled) = 0
      <3>1. PICK T, f : T = Ids \ folders /\ f = Settled
        OBVIOUS
      <3>2. IsFiniteSet(T) /\ \A x \in T : f[x] = 0
        BY <3>1, TransferAssumption, FS_Subset DEF Init, Settled
      <3> QED
        BY <3>1, <3>2, SumZero DEF InRoot
    <2>3. RootInv
      BY <2>2, Bounds DEF Init, RootInv
    <2>4. RestInv
      BY Bounds DEF Init, RestInv, NewJob
    <2> QED
      BY <2>1, <2>3, <2>4 DEF QuotaInv
  <1> QED
    BY <1>1, TransferInvariant, QuotaStep, QuotaFits, PTL DEF Spec
=============================================================================
