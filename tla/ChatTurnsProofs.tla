-------------------------- MODULE ChatTurnsProofs --------------------------
(***************************************************************************)
(* Chat turns over the write gate, for any number of conversations, turns  *)
(* and proposals: what the gate holds is what the host shows, a turn that  *)
(* ended leaves nothing behind, a turn alone in its conversation is never  *)
(* interrupted by a modal and can always be cancelled, and all of it       *)
(* implements the review inbox the user is promised.                       *)
(***************************************************************************)
EXTENDS ChatTurns, FiniteSetTheorems, TLAPS

Unread == [st : {"asked"}, id : Ids, new : Offers, peers : SUBSET Ids]
ReadOnce == [st : {"read"}, id : Ids, new : Offers, peers : SUBSET Ids, base : Contents]
Accepted == [st : {"write"}, new : Offers]
OfferType == {Free} \cup Unread \cup ReadOnce \cup Accepted

OfProposal == [kind : {"created", "updated"}, id : Ids]
Answer == [kind : {"synced"}, row : RowType]
OfConv == [kind : {"message", "review", "finished"}, conv : Convs]
Batch == [kind : {"batch"}, conv : Convs, rows : Seq(RowType)]
EventType == OfProposal \cup Answer \cup OfConv \cup Batch

TaskType ==
  [conv : Convs, phase : Phases, captured : BOOLEAN, cancelled : BOOLEAN, alone : BOOLEAN,
   offer : OfferType, batch : Seq(RowType)]

GateTypes ==
  /\ active \subseteq Ids /\ deferred \in [Convs -> Seq(Ids)] /\ hold \subseteq Ids
  /\ prop \in [Ids -> Proposal \cup {<<>>}] /\ convMode \in [Convs -> Modes]
  /\ nextId \in 1..(MaxProps + 1) /\ disk \in Contents \cup {Absent}
TaskTypes ==
  /\ task \in Seq(TaskType) /\ Len(task) <= MaxTurns
  /\ handle \in [Convs -> 0..Len(task)]
HostTypes ==
  /\ streaming \subseteq Convs /\ inReview \subseteq Convs
  /\ overlay \in {0} \cup Ids /\ rows \in Seq(RowType) /\ finals \subseteq Ids /\ releases \subseteq Ids
Types == GateTypes /\ TaskTypes /\ HostTypes /\ events \in Seq(EventType)

(* Whatever may be shown, settled or paired is a proposal the gate was given. *)
Recorded ==
  /\ \A i \in Known : prop[i] \in Proposal
  /\ overlay # 0 => prop[overlay] \in Proposal
  /\ \A j \in DOMAIN events : events[j].kind = "created" => prop[events[j].id] \in Proposal

(* An id that is on its way to the gate is new to it, and of one turn. *)
Asking(t) == task[t].offer.st \in {"asked", "read"}
Fresh ==
  /\ \A i \in Ids : prop[i] # <<>> => i < nextId
  /\ \A t \in Turns : Asking(t) => task[t].offer.id < nextId /\ prop[task[t].offer.id] = <<>>
  /\ \A s, t \in Turns : Asking(s) /\ Asking(t) /\ task[s].offer.id = task[t].offer.id => s = t

(* What a task carries, it carries in one phase only. *)
Phased ==
  /\ \A t \in Turns : task[t].offer # Free => task[t].phase = "send"
  /\ \A t \in Turns : task[t].batch # <<>> => task[t].phase = "tell"

(* A proposal under review is in one row of one list. *)
Each(rs) == \A k, l \in DOMAIN rs : rs[k].id = rs[l].id => k = l
Batches == {j \in DOMAIN events : events[j].kind = "batch"}
Disjoint(S, T) == S \cap T = {}
OnePlace ==
  /\ Each(rows) /\ Disjoint(RowIds(rows), releases)
  /\ \A t \in Turns : /\ Each(task[t].batch)
                      /\ Disjoint(RowIds(task[t].batch), RowIds(rows) \cup releases)
  /\ \A j \in Batches : /\ Each(events[j].rows)
                        /\ Disjoint(RowIds(events[j].rows), RowIds(rows) \cup releases)
  /\ \A s, t \in Turns : s # t => Disjoint(RowIds(task[s].batch), RowIds(task[t].batch))
  /\ \A j, k \in Batches : j # k => Disjoint(RowIds(events[j].rows), RowIds(events[k].rows))
  /\ \A t \in Turns, j \in Batches : Disjoint(RowIds(task[t].batch), RowIds(events[j].rows))

Inv == Types /\ Recorded /\ Fresh /\ Phased /\ OnePlace /\ Apart /\ HeldIffShown

----------------------------------------------------------------------------
(* Of the types: what a union of records means for its members. *)

LEMMA FunctionIsSeq ==
  ASSUME NEW n \in Nat, NEW S, NEW f, f = [k \in 1..n |-> f[k]], \A k \in 1..n : f[k] \in S
  PROVE  f \in Seq(S) /\ Len(f) = n /\ DOMAIN f = 1..n
OBVIOUS

LEMMA Association ==
  ASSUME NEW S, NEW p \in Seq(S), NEW q \in Seq(S), NEW r \in Seq(S)
  PROVE  (p \o q) \o r = p \o (q \o r)
OBVIOUS

LEMMA AppendTwo ==
  ASSUME NEW S, NEW s \in Seq(S), NEW e \in S, NEW f \in S
  PROVE  LET n == Len(s) + 1
             t == s \o <<e, f>>
         IN /\ DOMAIN t = DOMAIN s \cup {n, n + 1} /\ t[n] = e /\ t[n + 1] = f
            /\ \A j \in DOMAIN s : t[j] = s[j]
OBVIOUS

LEMMA OneOrNone ==
  ASSUME NEW S, NEW e \in S, NEW b \in BOOLEAN
  PROVE  LET q == IF b THEN <<e>> ELSE <<>> IN q \in Seq(S) /\ \A k \in DOMAIN q : q[k] = e
<1>1. CASE b
  BY <1>1
<1>2. CASE ~b
  BY <1>2
<1> QED BY <1>1, <1>2

LEMMA ProposalIsSome == ASSUME NEW p \in Proposal PROVE p # <<>>
<1>1. "conv" \in DOMAIN p
  BY DEF Proposal
<1>2. DOMAIN <<>> = {}
  OBVIOUS
<1> QED BY <1>1, <1>2

LEMMA EventKinds ==
  ASSUME NEW e \in EventType
  PROVE  /\ e.kind \in {"created", "updated"} => e.id \in Ids
         /\ e.kind = "synced" => e.row \in RowType
         /\ e.kind \in {"message", "review", "finished"} => e.conv \in Convs /\ \A c : IsOf(e, c) <=> e.conv = c
         /\ e.kind = "batch" => e.conv \in Convs /\ e.rows \in Seq(RowType)
<1>1. e.kind \in {"message", "review", "finished"} => e \in OfConv
  BY DEF EventType, OfProposal, Answer, OfConv, Batch
<1>2. e \in OfConv => \A c : IsOf(e, c) <=> e.conv = c
  BY DEF OfConv, IsOf
<1> QED BY <1>1, <1>2 DEF EventType, OfProposal, Answer, OfConv, Batch

LEMMA OfferKinds ==
  ASSUME NEW o \in OfferType
  PROVE  /\ o.st = "asked" => o \in Unread
         /\ o.st = "read" => o \in ReadOnce
         /\ o.st = "write" => o \in Accepted
         /\ o = Free => o.st = "free"
         /\ o # Free => o.st \in {"asked", "read", "write"}
BY DEF OfferType, Unread, ReadOnce, Accepted, Free

LEMMA Offering ==
  ASSUME NEW i \in Ids, NEW new \in Offers, NEW peers \in SUBSET Ids, NEW base \in Contents
  PROVE  /\ Free \in OfferType
         /\ [st |-> "asked", id |-> i, new |-> new, peers |-> peers] \in OfferType
         /\ [st |-> "read", id |-> i, new |-> new, peers |-> peers, base |-> base] \in OfferType
         /\ [st |-> "write", new |-> new] \in OfferType
BY DEF OfferType, Unread, ReadOnce, Accepted

LEMMA Rowing ==
  ASSUME NEW i \in Ids, prop[i] \in Proposal
  PROVE  Row(i) \in RowType /\ Row(i).id = i
BY DEF Row, RowType, Proposal

LEMMA TaskOf ==
  ASSUME NEW a \in TaskType
  PROVE  /\ a.conv \in Convs /\ a.phase \in Phases /\ a.captured \in BOOLEAN /\ a.cancelled \in BOOLEAN
         /\ a.alone \in BOOLEAN /\ a.offer \in OfferType /\ a.batch \in Seq(RowType)
BY DEF TaskType

(* Task e is task a, moved: it keeps its conversation and its ghost. *)
Moved(e, a, p, x, o, b) ==
  /\ e \in TaskType /\ e.conv = a.conv /\ e.alone = a.alone
  /\ e.phase = p /\ e.cancelled = x /\ e.offer = o /\ e.batch = b

LEMMA Moving ==
  ASSUME NEW a \in TaskType, NEW p \in Phases, NEW o \in OfferType, NEW b \in Seq(RowType), NEW y \in BOOLEAN
  PROVE  /\ Moved([a EXCEPT !.phase = p], a, p, a.cancelled, a.offer, a.batch)
         /\ Moved([a EXCEPT !.phase = p, !.captured = y], a, p, a.cancelled, a.offer, a.batch)
         /\ Moved([a EXCEPT !.offer = o], a, a.phase, a.cancelled, o, a.batch)
         /\ Moved([a EXCEPT !.phase = p, !.offer = o], a, p, a.cancelled, o, a.batch)
         /\ Moved([a EXCEPT !.phase = p, !.batch = b], a, p, a.cancelled, a.offer, b)
         /\ Moved([a EXCEPT !.cancelled = y], a, a.phase, y, a.offer, a.batch)
BY DEF Moved, TaskType

Turned(t, p, x, o, b) == t \in Turns /\ \E e : task' = [task EXCEPT ![t] = e] /\ Moved(e, task[t], p, x, o, b)

LEMMA Turning ==
  ASSUME TaskTypes, NEW t, NEW p, NEW x, NEW o, NEW b, Turned(t, p, x, o, b)
  PROVE  /\ task' \in Seq(TaskType) /\ Len(task') = Len(task) /\ DOMAIN task' = Turns
         /\ \A s \in Turns : /\ task'[s].conv = task[s].conv /\ task'[s].alone = task[s].alone
                             /\ s # t => task'[s] = task[s]
         /\ task'[t].phase = p /\ task'[t].cancelled = x /\ task'[t].offer = o /\ task'[t].batch = b
<1>1. PICK e : task' = [task EXCEPT ![t] = e] /\ Moved(e, task[t], p, x, o, b)
  BY DEF Turned
<1>2. t \in Turns
  BY DEF Turned
<1>3. e \in TaskType /\ e.conv = task[t].conv /\ e.alone = task[t].alone
      /\ e.phase = p /\ e.cancelled = x /\ e.offer = o /\ e.batch = b
  BY <1>1 DEF Moved
<1>4. /\ task' \in Seq(TaskType) /\ Len(task') = Len(task) /\ DOMAIN task' = Turns
      /\ task'[t] = e /\ \A s \in Turns : s # t => task'[s] = task[s]
  BY <1>1, <1>2, <1>3 DEF TaskTypes, Turns
<1> QED BY <1>3, <1>4

LEMMA TurnOf ==
  ASSUME TaskTypes, NEW t \in Turns
  PROVE  /\ t \in 1..Len(task) /\ task[t] \in TaskType
         /\ task[t].conv \in Convs /\ task[t].phase \in Phases /\ task[t].captured \in BOOLEAN
         /\ task[t].cancelled \in BOOLEAN /\ task[t].alone \in BOOLEAN
         /\ task[t].offer \in OfferType /\ task[t].batch \in Seq(RowType)
<1>1. t \in 1..Len(task) /\ task[t] \in TaskType
  BY DEF TaskTypes, Turns
<1> QED BY <1>1, TaskOf

(* The event queue loses its first d events and gains es. *)
Flow(d, es) ==
  /\ es \in Seq(EventType)
  /\ \/ d = 0 /\ events' = events \o es
     \/ d = 1 /\ events # <<>> /\ events' = Tail(events) \o es
Flows(d, K) == \E es : Flow(d, es) /\ \A k \in DOMAIN es : es[k].kind \in K

LEMMA Flowing ==
  ASSUME events \in Seq(EventType), NEW d, NEW es, Flow(d, es)
  PROVE  /\ events' \in Seq(EventType) /\ d \in {0, 1} /\ Len(events) >= d
         /\ Len(events') = Len(events) - d + Len(es)
         /\ \A j \in DOMAIN events' : \/ j + d \in DOMAIN events /\ events'[j] = events[j + d]
                                      \/ /\ j > Len(events) - d /\ j - (Len(events) - d) \in DOMAIN es
                                         /\ events'[j] = es[j - (Len(events) - d)]
         /\ \A j \in DOMAIN events : j > d => j - d \in DOMAIN events' /\ events'[j - d] = events[j]
         /\ \A k \in DOMAIN es : /\ k + (Len(events) - d) \in DOMAIN events'
                                 /\ events'[k + (Len(events) - d)] = es[k]
<1>1. CASE d = 0 /\ events' = events \o es
  BY <1>1 DEF Flow
<1>2. CASE d = 1 /\ events # <<>> /\ events' = Tail(events) \o es
  BY <1>2 DEF Flow
<1> QED BY <1>1, <1>2 DEF Flow

LEMMA UpdatesAre ==
  ASSUME NEW S \in SUBSET Ids, NEW u \in Updates(S)
  PROVE  u \in Seq(EventType) /\ \A k \in DOMAIN u : u[k].kind = "updated"
<1>1. IsFiniteSet(S) /\ Cardinality(S) \in Nat
  <2>1. MaxProps \in Int /\ 1 \in Int
    BY GateAssumption
  <2>2. IsFiniteSet(Ids)
    BY <2>1, FS_Interval DEF Ids
  <2>3. IsFiniteSet(S)
    BY <2>2, FS_Subset
  <2> QED BY <2>3, FS_CardinalityType
<1>2. PICK q \in [1..Cardinality(S) -> S] : u = [k \in DOMAIN q |-> [kind |-> "updated", id |-> q[k]]]
  BY DEF Updates
<1>3. \A k \in 1..Cardinality(S) : u[k] \in EventType /\ u[k].kind = "updated"
  BY <1>2 DEF EventType, OfProposal
<1>4. u = [k \in 1..Cardinality(S) |-> u[k]]
  BY <1>2
<1> QED BY <1>1, <1>3, <1>4
----------------------------------------------------------------------------
(* What each step does to the tasks. *)

LEMMA KnownIds == ASSUME Types PROVE Known \in SUBSET Ids /\ Queued \subseteq Ids
<1>1. Queued \subseteq Ids
  BY DEF Types, GateTypes, Queued, ToSet
<1> QED BY <1>1 DEF Types, GateTypes, Known

LEMMA TaskSteps ==
  ASSUME Types, NEW t \in Turns
  PROVE  /\ StartDeferred(t) => Turned(t, "begin", task[t].cancelled, task[t].offer, task[t].batch)
         /\ Begin(t) => Turned(t, "send", task[t].cancelled, task[t].offer, task[t].batch)
         /\ Ask(t) => \E new \in Offers :
              Turned(t, task[t].phase, task[t].cancelled,
                     [st |-> "asked", id |-> nextId, new |-> new, peers |-> Known], task[t].batch)
         /\ Read(t) => \E o :
              /\ Turned(t, task[t].phase, task[t].cancelled, o, task[t].batch)
              /\ o = Free \/ (o.st = "read" /\ o.id = Offer(t).id)
         /\ Propose(t) => \E o :
              Turned(t, task[t].phase, task[t].cancelled, o, task[t].batch) /\ o.st \in {"write", "free"}
         /\ AutoWrite(t) => Turned(t, task[t].phase, task[t].cancelled, Free, task[t].batch)
         /\ Returns(t) => Turned(t, "closing", task[t].cancelled, task[t].offer, task[t].batch)
         /\ SeesCancel(t) => Turned(t, "closing", task[t].cancelled, Free, task[t].batch)
         /\ CaptureEnds(t) => Turned(t, "drain", task[t].cancelled, task[t].offer, task[t].batch)
         /\ Tell(t) => Turned(t, "done", task[t].cancelled, task[t].offer, <<>>)
<1>0. /\ task[t] \in TaskType /\ task[t].phase \in Phases /\ task[t].cancelled \in BOOLEAN
      /\ task[t].offer \in OfferType /\ task[t].batch \in Seq(RowType)
      /\ FALSE \in BOOLEAN /\ TRUE \in BOOLEAN /\ <<>> \in Seq(RowType)
      /\ {"begin", "send", "closing", "drain", "tell", "done", "aborted"} \subseteq Phases
  BY TurnOf DEF Types, Phases
<1>1. StartDeferred(t) => Turned(t, "begin", task[t].cancelled, task[t].offer, task[t].batch)
  <2>1. Moved([task[t] EXCEPT !.phase = "begin"], task[t], "begin", task[t].cancelled, task[t].offer, task[t].batch)
    BY <1>0, Moving
  <2> QED BY <2>1 DEF StartDeferred, Moves, Turned
<1>2. Begin(t) => Turned(t, "send", task[t].cancelled, task[t].offer, task[t].batch)
  <2>1. /\ Moved([task[t] EXCEPT !.phase = "send"], task[t], "send", task[t].cancelled, task[t].offer, task[t].batch)
        /\ Moved([task[t] EXCEPT !.phase = "send", !.captured = TRUE],
                 task[t], "send", task[t].cancelled, task[t].offer, task[t].batch)
    BY <1>0, Moving
  <2> QED BY <2>1, SMTT(30) DEF Begin, Moves, Turned
<1>3. ASSUME NEW o \in OfferType, SetOffer(t, o)
      PROVE  Turned(t, task[t].phase, task[t].cancelled, o, task[t].batch)
  <2>1. Moved([task[t] EXCEPT !.offer = o], task[t], task[t].phase, task[t].cancelled, o, task[t].batch)
    BY <1>0, Moving
  <2> QED BY <1>3, <2>1 DEF SetOffer, Turned
<1>4. Ask(t) => \E new \in Offers :
        Turned(t, task[t].phase, task[t].cancelled,
               [st |-> "asked", id |-> nextId, new |-> new, peers |-> Known], task[t].batch)
  <2> SUFFICES ASSUME Ask(t), NEW new \in Offers,
                      SetOffer(t, [st |-> "asked", id |-> nextId, new |-> new, peers |-> Known])
               PROVE  Turned(t, task[t].phase, task[t].cancelled,
                             [st |-> "asked", id |-> nextId, new |-> new, peers |-> Known], task[t].batch)
    BY DEF Ask
  <2>1. Known \in SUBSET Ids
    BY KnownIds
  <2>2. nextId \in Ids
    BY DEF Ask
  <2>3. [st |-> "asked", id |-> nextId, new |-> new, peers |-> Known] \in OfferType
    BY <2>1, <2>2, Offering, GateAssumption
  <2> QED BY <1>3, <2>3
<1>5. Read(t) => \E o : /\ Turned(t, task[t].phase, task[t].cancelled, o, task[t].batch)
                        /\ o = Free \/ (o.st = "read" /\ o.id = Offer(t).id)
  <2> SUFFICES ASSUME Read(t)
               PROVE  \E o : /\ Turned(t, task[t].phase, task[t].cancelled, o, task[t].batch)
                             /\ o = Free \/ (o.st = "read" /\ o.id = Offer(t).id)
    OBVIOUS
  <2> DEFINE o == IF Original = Offer(t).new THEN Free
                  ELSE [st |-> "read", id |-> Offer(t).id, new |-> Offer(t).new,
                        peers |-> Offer(t).peers, base |-> Original]
  <2>1. Offer(t) \in Unread
    BY <1>0, OfferKinds DEF Read, Offer
  <2>2. Offer(t).id \in Ids /\ Offer(t).new \in Offers /\ Offer(t).peers \in SUBSET Ids
    BY <2>1 DEF Unread
  <2>3. Original \in Contents
    BY GateAssumption DEF Types, GateTypes, Original
  <2>4. o \in OfferType
    BY <2>2, <2>3, Offering
  <2>5. SetOffer(t, o)
    BY DEF Read
  <2>6. Turned(t, task[t].phase, task[t].cancelled, o, task[t].batch)
    BY <1>3, <2>4, <2>5
  <2>7. o = Free \/ o = [st |-> "read", id |-> Offer(t).id, new |-> Offer(t).new,
                        peers |-> Offer(t).peers, base |-> Original]
    OBVIOUS
  <2> HIDE DEF o
  <2>8. o = Free \/ (o.st = "read" /\ o.id = Offer(t).id)
    BY <2>7
  <2> QED BY <2>6, <2>8
<1>6. Propose(t) => \E o : /\ Turned(t, task[t].phase, task[t].cancelled, o, task[t].batch)
                           /\ o.st \in {"write", "free"}
  <2> SUFFICES ASSUME Propose(t)
               PROVE  \E o : /\ Turned(t, task[t].phase, task[t].cancelled, o, task[t].batch)
                             /\ o.st \in {"write", "free"}
    OBVIOUS
  <2> DEFINE o == IF convMode[task[t].conv] = "AutoAccept" THEN [st |-> "write", new |-> Offer(t).new] ELSE Free
  <2>1. Offer(t).new \in Offers
    BY <1>0, OfferKinds DEF Propose, Offer, ReadOnce
  <2>2. o \in OfferType
    BY <2>1 DEF OfferType, Accepted
  <2>3. SetOffer(t, o)
    BY DEF Propose
  <2>4. o.st \in {"write", "free"}
    BY DEF Free
  <2>5. Turned(t, task[t].phase, task[t].cancelled, o, task[t].batch)
    BY <1>3, <2>2, <2>3
  <2> QED BY <2>4, <2>5
<1>7. AutoWrite(t) => Turned(t, task[t].phase, task[t].cancelled, Free, task[t].batch)
  BY <1>3 DEF AutoWrite, OfferType
<1>8. Returns(t) => Turned(t, "closing", task[t].cancelled, task[t].offer, task[t].batch)
  <2>1. Moved([task[t] EXCEPT !.phase = "closing"], task[t], "closing", task[t].cancelled, task[t].offer, task[t].batch)
    BY <1>0, Moving
  <2> QED BY <2>1 DEF Returns, Moves, Turned
<1>9. SeesCancel(t) => Turned(t, "closing", task[t].cancelled, Free, task[t].batch)
  <2>1. Free \in OfferType
    BY DEF OfferType
  <2>2. Moved([task[t] EXCEPT !.phase = "closing", !.offer = Free],
              task[t], "closing", task[t].cancelled, Free, task[t].batch)
    BY <1>0, <2>1, Moving
  <2> QED BY <2>2 DEF SeesCancel, Turned
<1>10. CaptureEnds(t) => Turned(t, "drain", task[t].cancelled, task[t].offer, task[t].batch)
  <2>1. Moved([task[t] EXCEPT !.phase = "drain", !.captured = FALSE],
              task[t], "drain", task[t].cancelled, task[t].offer, task[t].batch)
    BY <1>0, Moving
  <2> QED BY <2>1 DEF CaptureEnds, Turned
<1>11. Tell(t) => Turned(t, "done", task[t].cancelled, task[t].offer, <<>>)
  <2>1. Moved([task[t] EXCEPT !.phase = "done", !.batch = <<>>],
              task[t], "done", task[t].cancelled, task[t].offer, <<>>)
    BY <1>0, Moving
  <2> QED BY <2>1 DEF Tell, Turned
<1> QED BY <1>1, <1>2, <1>4, <1>5, <1>6, <1>7, <1>8, <1>9, <1>10, <1>11

(* The drain: the rows are those of what was deferred. *)
LEMMA DrainRows ==
  ASSUME Types, Recorded, NEW c \in Convs
  PROVE  /\ Rows(c) \in Seq(RowType) /\ DOMAIN Rows(c) = DOMAIN deferred[c]
         /\ \A k \in DOMAIN deferred[c] : Rows(c)[k].id = deferred[c][k]
         /\ RowIds(Rows(c)) = ToSet(deferred[c])
<1>1. deferred[c] \in Seq(Ids)
  BY DEF Types, GateTypes
<1>2. \A k \in DOMAIN deferred[c] : deferred[c][k] \in Ids /\ deferred[c][k] \in Known
  BY <1>1 DEF Known, Queued, ToSet
<1>3. \A k \in DOMAIN deferred[c] : Row(deferred[c][k]) \in RowType /\ Row(deferred[c][k]).id = deferred[c][k]
  BY <1>2, Rowing DEF Recorded
<1>4. Rows(c) = [k \in 1..Len(deferred[c]) |-> Row(deferred[c][k])] /\ DOMAIN deferred[c] = 1..Len(deferred[c])
  BY <1>1 DEF Rows
<1>5. Rows(c) \in Seq(RowType) /\ DOMAIN Rows(c) = DOMAIN deferred[c]
  <2>1. Len(deferred[c]) \in Nat
    BY <1>1
  <2> QED BY <1>3, <1>4, <2>1
<1> QED BY <1>3, <1>4, <1>5 DEF RowIds, ToSet

LEMMA Drains ==
  ASSUME Types, Recorded, NEW t \in Turns, Drain(t)
  PROVE  Turned(t, "tell", task[t].cancelled, task[t].offer, Rows(task[t].conv))
<1>1. task[t] \in TaskType /\ "tell" \in Phases /\ task[t].offer \in OfferType /\ task[t].conv \in Convs
  BY TurnOf DEF Types, Phases
<1>2. Rows(task[t].conv) \in Seq(RowType)
  BY <1>1, DrainRows
<1>3. Moved([task[t] EXCEPT !.phase = "tell", !.batch = Rows(task[t].conv)],
            task[t], "tell", task[t].cancelled, task[t].offer, Rows(task[t].conv))
  BY <1>1, <1>2, Moving
<1> QED BY <1>3 DEF Drain, Turned

LEMMA Cancels ==
  ASSUME Types, NEW c \in Convs, Cancel(c)
  PROVE  /\ handle[c] \in Turns
         /\ \/ /\ ~task[handle[c]].cancelled /\ handle' = handle
               /\ Turned(handle[c], task[handle[c]].phase, TRUE, task[handle[c]].offer, task[handle[c]].batch)
            \/ /\ task[handle[c]].cancelled /\ handle' = [handle EXCEPT ![c] = 0]
               /\ \/ task' = task
                  \/ /\ task[handle[c]].phase \notin {"tell", "done"}
                     /\ Turned(handle[c], "aborted", task[handle[c]].cancelled, Free, task[handle[c]].batch)
<1> DEFINE t == handle[c]
<1>1. t \in Turns
  BY DEF Types, TaskTypes, Cancel, Turns
<1>2. task[t] \in TaskType /\ "aborted" \in Phases /\ Free \in OfferType /\ TRUE \in BOOLEAN
      /\ task[t].offer \in OfferType /\ task[t].batch \in Seq(RowType)
  BY <1>1, TurnOf DEF Types, Phases, OfferType
<1>3. /\ Moved([task[t] EXCEPT !.cancelled = TRUE], task[t], task[t].phase, TRUE, task[t].offer, task[t].batch)
      /\ Moved([task[t] EXCEPT !.phase = "aborted", !.offer = Free],
               task[t], "aborted", task[t].cancelled, Free, task[t].batch)
  BY <1>2, Moving
<1> QED BY <1>1, <1>3 DEF Cancel, Turned

LEMMA Dispatching ==
  ASSUME Types, NEW c \in Convs, Dispatch(c)
  PROVE  LET n == Len(task) + 1
         IN /\ task' \in Seq(TaskType) /\ Len(task') = n /\ n <= MaxTurns
            /\ DOMAIN task' = Turns \cup {n} /\ n \notin Turns
            /\ \A s \in Turns :
                 /\ task'[s].conv = task[s].conv /\ task'[s].phase = task[s].phase
                 /\ task'[s].cancelled = task[s].cancelled /\ task'[s].offer = task[s].offer
                 /\ task'[s].batch = task[s].batch
                 /\ task'[s].alone = (task[s].alone /\ task[s].conv # c)
            /\ task'[n].conv = c /\ task'[n].phase = "spawned" /\ task'[n].cancelled = FALSE
            /\ task'[n].offer = Free /\ task'[n].batch = <<>>
            /\ task'[n].alone = (/\ \A t \in Turns : task[t].conv = c => ~Active(t)
                                 /\ \A i \in DOMAIN events : ~IsOf(events[i], c))
<1> DEFINE n == Len(task) + 1
           alone == /\ \A t \in Turns : task[t].conv = c => ~Active(t)
                    /\ \A i \in DOMAIN events : ~IsOf(events[i], c)
           new == [conv |-> c, phase |-> "spawned", captured |-> FALSE, cancelled |-> FALSE,
                   alone |-> alone, offer |-> Free, batch |-> <<>>]
           old == [t \in Turns |-> IF task[t].conv = c THEN [task[t] EXCEPT !.alone = FALSE] ELSE task[t]]
<1>1. task' = Append(old, new) /\ Len(task) < MaxTurns
  BY DEF Dispatch
<1>2. new \in TaskType
  BY DEF TaskType, Phases, OfferType
<1>3. Turns = 1..Len(task) /\ Len(task) \in Nat
  BY DEF Types, TaskTypes, Turns
<1>4. \A s \in Turns :
        /\ old[s] \in TaskType
        /\ old[s].conv = task[s].conv /\ old[s].phase = task[s].phase
        /\ old[s].cancelled = task[s].cancelled /\ old[s].offer = task[s].offer
        /\ old[s].batch = task[s].batch /\ old[s].alone = (task[s].alone /\ task[s].conv # c)
  <2> SUFFICES ASSUME NEW s \in Turns
               PROVE  /\ old[s] \in TaskType
                      /\ old[s].conv = task[s].conv /\ old[s].phase = task[s].phase
                      /\ old[s].cancelled = task[s].cancelled /\ old[s].offer = task[s].offer
                      /\ old[s].batch = task[s].batch /\ old[s].alone = (task[s].alone /\ task[s].conv # c)
    OBVIOUS
  <2>1. task[s] \in TaskType
    BY TurnOf DEF Types
  <2>2. old[s] = IF task[s].conv = c THEN [task[s] EXCEPT !.alone = FALSE] ELSE task[s]
    OBVIOUS
  <2> QED BY <2>1, <2>2 DEF TaskType
<1>5. old \in Seq(TaskType) /\ Len(old) = Len(task) /\ DOMAIN old = Turns
  <2>1. old = [s \in 1..Len(task) |-> old[s]] /\ \A s \in 1..Len(task) : old[s] \in TaskType
    BY <1>3, <1>4
  <2> HIDE DEF old
  <2> QED BY <1>3, <2>1, FunctionIsSeq
<1>6. /\ new.conv = c /\ new.phase = "spawned" /\ new.cancelled = FALSE
      /\ new.offer = Free /\ new.batch = <<>> /\ new.alone = alone
  OBVIOUS
<1> HIDE DEF old, new, alone
<1>7. /\ task' \in Seq(TaskType) /\ Len(task') = n /\ DOMAIN task' = Turns \cup {n} /\ n \notin Turns
      /\ task'[n] = new /\ \A s \in Turns : task'[s] = old[s]
  BY <1>1, <1>2, <1>3, <1>5
<1>8. n <= MaxTurns
  BY <1>1, <1>3, TurnAssumption
<1>9. task'[n].alone = (/\ \A t \in Turns : task[t].conv = c => ~Active(t)
                        /\ \A i \in DOMAIN events : ~IsOf(events[i], c))
  BY <1>6, <1>7 DEF alone
<1>10. \A s \in Turns :
                 /\ task'[s].conv = task[s].conv /\ task'[s].phase = task[s].phase
                 /\ task'[s].cancelled = task[s].cancelled /\ task'[s].offer = task[s].offer
                 /\ task'[s].batch = task[s].batch
                 /\ task'[s].alone = (task[s].alone /\ task[s].conv # c)
  BY <1>4, <1>7
<1> QED BY <1>6, <1>7, <1>8, <1>9, <1>10
----------------------------------------------------------------------------
(* What each step does to the event queue. *)

PlainKinds == {"created", "updated", "synced", "message", "review"}
Plain == \E d : Flows(d, PlainKinds) /\ (d = 1 => events[1].kind # "batch")

LEMMA NoFlow ==
  ASSUME Types
  PROVE  /\ events' = events => Flow(0, <<>>)
         /\ events # <<>> /\ Taken => Flow(1, <<>>)
         /\ \A e \in EventType : /\ events' = Append(events, e) => Flow(0, <<e>>)
                                 /\ events # <<>> /\ events' = Append(Tail(events), e) => Flow(1, <<e>>)
BY SMTT(30) DEF Types, Flow, Taken

(* What a turn proposes it announces only for the modal. *)
Announces(t) ==
  \E es :
    /\ Flow(0, es)
    /\ \A k \in DOMAIN es : es[k].kind \in {"created", "updated"}
    /\ \A k \in DOMAIN es :
         es[k].kind = "created" => es[k].id = Offer(t).id /\ convMode[task[t].conv] = "Interactive"

LEMMA TurnEvents ==
  ASSUME Types, Recorded, NEW t \in Turns
  PROVE  /\ Say(t) \/ Returns(t) \/ SeesCancel(t) \/ CaptureEnds(t) => Flows(0, {"message", "review"})
         /\ Propose(t) => Announces(t)
<1> DEFINE c == task[t].conv
<1>1. /\ c \in Convs /\ Message(c) \in EventType /\ Message(c).kind = "message"
      /\ [kind |-> "review", conv |-> c] \in EventType
  <2>1. c \in Convs
    BY TurnOf DEF Types
  <2> QED BY <2>1 DEF EventType, OfConv, Message
<1>2. UNCHANGED events => Flows(0, {"message", "review"})
  BY NoFlow DEF Flows
<1>3. events' = Append(events, Message(c)) => Flows(0, {"message", "review"})
  <2> HIDE DEF c
  <2>1. events' = Append(events, Message(c)) => Flow(0, <<Message(c)>>)
    BY <1>1, NoFlow
  <2> QED BY <1>1, <2>1 DEF Flows
<1>4. Say(t) => Flows(0, {"message", "review"})
  BY <1>3 DEF Say
<1>5. Returns(t) => Flows(0, {"message", "review"})
  BY <1>2, <1>3 DEF Returns
<1>6. SeesCancel(t) => Flows(0, {"message", "review"})
  BY <1>3 DEF SeesCancel
<1>7. CaptureEnds(t) => Flows(0, {"message", "review"})
  <2> SUFFICES ASSUME NEW warned \in BOOLEAN, NEW changed \in BOOLEAN,
                      events' = events \o (IF warned THEN <<Message(c)>> ELSE <<>>)
                                       \o (IF changed THEN <<[kind |-> "review", conv |-> c]>> ELSE <<>>)
               PROVE  Flows(0, {"message", "review"})
    BY DEF CaptureEnds
  <2> DEFINE m == Message(c)
             r == [kind |-> "review", conv |-> c]
             w == IF warned THEN <<m>> ELSE <<>>
             v == IF changed THEN <<r>> ELSE <<>>
  <2>1. m \in EventType /\ r \in EventType /\ m.kind = "message" /\ r.kind = "review"
    BY <1>1
  <2>2. events' = events \o w \o v
    OBVIOUS
  <2> HIDE DEF m, r
  <2>3. /\ w \in Seq(EventType) /\ \A k \in DOMAIN w : w[k].kind = "message"
        /\ v \in Seq(EventType) /\ \A k \in DOMAIN v : v[k].kind = "review"
    BY <2>1, OneOrNone
  <2> HIDE DEF w, v
  <2>4. events' = events \o (w \o v)
    <3>1. events \in Seq(EventType)
      BY DEF Types
    <3>2. (events \o w) \o v = events \o (w \o v)
      BY <2>3, <3>1, Association
    <3> QED BY <2>2, <3>2
  <2>5. w \o v \in Seq(EventType) /\ \A k \in DOMAIN (w \o v) : (w \o v)[k].kind \in {"message", "review"}
    BY <2>3
  <2> QED BY <2>4, <2>5 DEF Flows, Flow
<1>8. ASSUME Propose(t) PROVE Announces(t)
  <2> DEFINE id == Offer(t).id
             one == IF convMode[c] = "Interactive" THEN <<[kind |-> "created", id |-> id]>> ELSE <<>>
  <2>1. Offer(t) \in ReadOnce
    BY <1>8, TurnOf, OfferKinds DEF Propose, Offer, Types
  <2>2. id \in Ids
    BY <2>1 DEF ReadOnce
  <2>3. PICK u \in Updates(Paired(id, Offer(t).peers)) : events' = events \o one \o u
    BY <1>8 DEF Propose, Insert
  <2>4. Paired(id, Offer(t).peers) \subseteq Ids
    BY KnownIds DEF Paired
  <2>5. u \in Seq(EventType) /\ \A k \in DOMAIN u : u[k].kind = "updated"
    BY <2>4, UpdatesAre
  <2>6. /\ one \in Seq(EventType)
        /\ \A k \in DOMAIN one : one[k].kind = "created" /\ one[k].id = id /\ convMode[c] = "Interactive"
    <3> DEFINE e == [kind |-> "created", id |-> id]
    <3>1. e \in EventType /\ e.kind = "created" /\ e.id = id
      BY <2>2 DEF EventType, OfProposal
    <3> HIDE DEF e
    <3>2. one = IF convMode[c] = "Interactive" THEN <<e>> ELSE <<>>
      BY DEF e
    <3> HIDE DEF one, id, c
    <3> QED BY <3>1, <3>2
  <2> HIDE DEF one, id
  <2>7. events' = events \o (one \o u)
    BY <2>3, <2>5, <2>6 DEF Types
  <2>8. Flow(0, one \o u)
    BY <2>5, <2>6, <2>7 DEF Flow
  <2>9. \A k \in DOMAIN (one \o u) :
          \/ (one \o u)[k].kind = "updated"
          \/ (one \o u)[k].kind = "created" /\ (one \o u)[k].id = id /\ convMode[c] = "Interactive"
    BY <2>5, <2>6
  <2> QED BY <2>8, <2>9 DEF id, Announces
<1> QED BY <1>4, <1>5, <1>6, <1>7, <1>8

LEMMA TellEvents ==
  ASSUME Types, NEW t \in Turns, Tell(t)
  PROVE  LET c == task[t].conv
             done == [kind |-> "finished", conv |-> c]
         IN \/ task[t].batch = <<>> /\ Flow(0, <<done>>)
            \/ /\ task[t].batch # <<>>
               /\ Flow(0, <<[kind |-> "batch", conv |-> c, rows |-> task[t].batch], done>>)
<1> DEFINE c == task[t].conv
           done == [kind |-> "finished", conv |-> c]
           full == [kind |-> "batch", conv |-> c, rows |-> task[t].batch]
<1>1. c \in Convs /\ task[t].batch \in Seq(RowType)
  BY TurnOf DEF Types
<1>2. done \in EventType /\ full \in EventType
  BY <1>1 DEF EventType, OfConv, Batch
<1>3. events' = events \o (IF task[t].batch = <<>> THEN <<>> ELSE <<full>>) \o <<done>>
  BY DEF Tell
<1> HIDE DEF done, full
<1>4. events' = IF task[t].batch = <<>> THEN events \o <<done>> ELSE events \o <<full, done>>
  BY <1>2, <1>3 DEF Types
<1>5. <<done>> \in Seq(EventType) /\ <<full, done>> \in Seq(EventType)
  BY <1>2
<1>6. CASE task[t].batch = <<>>
  BY <1>4, <1>5, <1>6 DEF Flow, done
<1>7. CASE task[t].batch # <<>>
  BY <1>4, <1>5, <1>7 DEF Flow, done, full
<1> QED BY <1>6, <1>7

LEMMA HostEvents ==
  ASSUME Types, Recorded, HostEvent
  PROVE  /\ events # <<>> /\ Head(events) = events[1] /\ 1 \in DOMAIN events /\ events[1] \in EventType
         /\ OnUpdated => Flows(1, {"synced"})
         /\ ~OnUpdated => Flow(1, <<>>)
<1>1. events # <<>> /\ Head(events) = events[1] /\ 1 \in DOMAIN events /\ events[1] \in EventType
  BY DEF HostEvent, Types
<1>2. ~OnUpdated => Flow(1, <<>>)
  BY <1>1, NoFlow DEF HostEvent, OnCreated, OnSynced, OnBatch, OnMessage, OnReview, OnFinished
<1>3. ASSUME OnUpdated PROVE Flows(1, {"synced"})
  <2>1. CASE events' = Tail(events)
    BY <1>1, <2>1, NoFlow DEF Flows, Taken
  <2>2. CASE /\ Next1.id \in Known
             /\ events' = Append(Tail(events), [kind |-> "synced", row |-> Row(Next1.id)])
    <3> DEFINE e == [kind |-> "synced", row |-> Row(Next1.id)]
    <3>1. Row(Next1.id) \in RowType
      BY <2>2, KnownIds, Rowing DEF Recorded
    <3>2. e \in EventType /\ e.kind = "synced"
      BY <3>1 DEF EventType, Answer
    <3>3. Flow(1, <<e>>)
      BY <1>1, <2>2, <3>2, NoFlow
    <3> HIDE DEF e
    <3> QED BY <3>2, <3>3 DEF Flows
  <2> QED BY <1>3, <2>1, <2>2 DEF OnUpdated
<1> QED BY <1>1, <1>2, <1>3

----------------------------------------------------------------------------
(* What the steps do to a list of rows: they keep, add or drop proposals. *)

LEMMA RowOf ==
  ASSUME NEW r \in RowType
  PROVE  /\ r.id \in Ids /\ r.links \subseteq Ids
         /\ \A L \in SUBSET Ids : /\ [r EXCEPT !.links = L] \in RowType
                                  /\ [r EXCEPT !.links = L].id = r.id
         /\ [r EXCEPT !.superseded = TRUE] \in RowType /\ [r EXCEPT !.superseded = TRUE].id = r.id
BY DEF RowType

Alike(rs, rt) == DOMAIN rs = DOMAIN rt /\ \A k \in DOMAIN rs : rs[k].id = rt[k].id

LEMMA AlikeRows ==
  ASSUME NEW rs, NEW rt, Alike(rs, rt)
  PROVE  RowIds(rs) = RowIds(rt) /\ (Each(rs) <=> Each(rt))
BY DEF Alike, RowIds, Each

LEMMA RowIdsAre ==
  ASSUME NEW rs \in Seq(RowType)
  PROVE  RowIds(rs) \subseteq Ids /\ \A k \in DOMAIN rs : rs[k] \in RowType /\ rs[k].id \in RowIds(rs)
<1>1. \A k \in DOMAIN rs : rs[k] \in RowType /\ rs[k].id \in Ids
  <2>1. \A k \in DOMAIN rs : rs[k] \in RowType
    OBVIOUS
  <2> QED BY <2>1, RowOf
<1> QED BY <1>1 DEF RowIds

LEMMA MapRows ==
  ASSUME NEW rs \in Seq(RowType), NEW f, f = [k \in DOMAIN rs |-> f[k]],
         \A k \in DOMAIN rs : f[k] \in RowType /\ f[k].id = rs[k].id
  PROVE  f \in Seq(RowType) /\ Alike(f, rs)
<1>1. DOMAIN rs = 1..Len(rs) /\ Len(rs) \in Nat
  OBVIOUS
<1>2. f \in Seq(RowType) /\ DOMAIN f = DOMAIN rs
  BY <1>1, FunctionIsSeq
<1> QED BY <1>2 DEF Alike

LEMMA Outvoting ==
  ASSUME NEW rs \in Seq(RowType), NEW links
  PROVE  Outvoted(rs, links) \in Seq(RowType) /\ Alike(Outvoted(rs, links), rs)
<1> DEFINE f == Outvoted(rs, links)
<1>1. f = [k \in DOMAIN rs |-> f[k]]
  BY DEF Outvoted
<1>2. \A k \in DOMAIN rs : f[k] \in RowType /\ f[k].id = rs[k].id
  <2>1. \A k \in DOMAIN rs : f[k] = rs[k] \/ f[k] = [rs[k] EXCEPT !.superseded = TRUE]
    BY DEF Outvoted
  <2> QED BY <2>1, RowIdsAre, RowOf
<1> HIDE DEF f
<1> QED BY <1>1, <1>2, MapRows DEF f

LEMMA Linking ==
  ASSUME NEW rs \in Seq(RowType)
  PROVE  AllLinked(rs) \in Seq(RowType) /\ Alike(AllLinked(rs), rs)
<1> DEFINE f == AllLinked(rs)
<1>1. f = [k \in DOMAIN rs |-> f[k]]
  BY DEF AllLinked
<1>2. \A k \in DOMAIN rs : f[k] \in RowType /\ f[k].id = rs[k].id
  <2> SUFFICES ASSUME NEW k \in DOMAIN rs
               PROVE  f[k] \in RowType /\ f[k].id = rs[k].id
    OBVIOUS
  <2>1. f[k] = [rs[k] EXCEPT !.links = rs[k].links \cup (RowIds(rs) \ {rs[k].id})]
    BY DEF AllLinked
  <2>2. rs[k] \in RowType /\ rs[k].links \cup (RowIds(rs) \ {rs[k].id}) \in SUBSET Ids
    BY RowIdsAre, RowOf
  <2> HIDE DEF f
  <2> QED BY <2>1, <2>2, RowOf
<1> HIDE DEF f
<1> QED BY <1>1, <1>2, MapRows DEF f

LEMMA Syncing ==
  ASSUME Types, events # <<>>, OnSynced
  PROVE  rows' \in Seq(RowType) /\ Alike(rows', rows)
<1> DEFINE new == Next1.row
<1>1. new \in RowType
  <2>1. Next1 \in EventType
    BY DEF Types, Next1
  <2> QED BY <2>1, EventKinds DEF OnSynced
<1>2. rows \in Seq(RowType)
  BY DEF Types, HostTypes
<1>3. rows' = [k \in DOMAIN rows |-> rows'[k]]
  BY DEF OnSynced
<1>4. \A k \in DOMAIN rows : rows'[k] \in RowType /\ rows'[k].id = rows[k].id
  <2> SUFFICES ASSUME NEW k \in DOMAIN rows
               PROVE  rows'[k] \in RowType /\ rows'[k].id = rows[k].id
    OBVIOUS
  <2>1. \/ rows[k].id = new.id /\ rows'[k] = new
        \/ rows'[k] = [rows[k] EXCEPT !.links = rows[k].links \cup (new.links \ {rows[k].id})]
        \/ rows'[k] = rows[k]
    BY DEF OnSynced
  <2>2. rows[k] \in RowType /\ rows[k].links \cup (new.links \ {rows[k].id}) \in SUBSET Ids
    BY <1>1, <1>2, RowIdsAre, RowOf
  <2> HIDE DEF new
  <2>3. CASE rows[k].id = new.id /\ rows'[k] = new
    BY <1>1, <2>3
  <2>4. CASE rows'[k] = [rows[k] EXCEPT !.links = rows[k].links \cup (new.links \ {rows[k].id})]
    BY <2>2, <2>4, RowOf
  <2>5. CASE rows'[k] = rows[k]
    BY <2>2, <2>5
  <2> QED BY <2>1, <2>3, <2>4, <2>5
<1> QED BY <1>2, <1>3, <1>4, MapRows

LEMMA Merging ==
  ASSUME NEW old \in Seq(RowType), NEW new \in Seq(RowType),
         Each(old), Each(new), Disjoint(RowIds(old), RowIds(new))
  PROVE  LET all == Merged(old, new)
         IN all \in Seq(RowType) /\ Each(all) /\ RowIds(all) = RowIds(old) \cup RowIds(new)
<1>1. Merged(old, new) = AllLinked(old \o new)
  BY DEF Merged, Unlisted, Disjoint
<1>2. old \o new \in Seq(RowType)
  OBVIOUS
<1>3. RowIds(old \o new) = RowIds(old) \cup RowIds(new)
  <2>1. \A k \in DOMAIN old : k \in DOMAIN (old \o new) /\ (old \o new)[k] = old[k]
    OBVIOUS
  <2>2. \A k \in DOMAIN new : k + Len(old) \in DOMAIN (old \o new) /\ (old \o new)[k + Len(old)] = new[k]
    OBVIOUS
  <2>3. \A k \in DOMAIN (old \o new) :
          \/ k \in DOMAIN old /\ (old \o new)[k] = old[k]
          \/ k - Len(old) \in DOMAIN new /\ (old \o new)[k] = new[k - Len(old)]
    OBVIOUS
  <2>4. RowIds(old \o new) \subseteq RowIds(old) \cup RowIds(new)
    BY <2>3 DEF RowIds
  <2>5. RowIds(old) \cup RowIds(new) \subseteq RowIds(old \o new)
    BY <2>1, <2>2 DEF RowIds
  <2> QED BY <2>4, <2>5
<1>4. Each(old \o new)
  <2> SUFFICES ASSUME NEW k \in DOMAIN (old \o new), NEW l \in DOMAIN (old \o new),
                      (old \o new)[k].id = (old \o new)[l].id
               PROVE  k = l
    BY DEF Each
  <2>1. \/ k \in DOMAIN old /\ (old \o new)[k] = old[k]
        \/ k - Len(old) \in DOMAIN new /\ (old \o new)[k] = new[k - Len(old)]
    OBVIOUS
  <2>2. \/ l \in DOMAIN old /\ (old \o new)[l] = old[l]
        \/ l - Len(old) \in DOMAIN new /\ (old \o new)[l] = new[l - Len(old)]
    OBVIOUS
  <2>3. \A m \in DOMAIN old, n \in DOMAIN new : old[m].id # new[n].id
    BY DEF Disjoint, RowIds
  <2>4. k \in Int /\ l \in Int /\ Len(old) \in Int
    OBVIOUS
  <2>5. CASE k \in DOMAIN old /\ l \in DOMAIN old
    BY <2>1, <2>2, <2>5 DEF Each
  <2>6. CASE k \notin DOMAIN old /\ l \notin DOMAIN old
    <3>1. k - Len(old) = l - Len(old)
      BY <2>1, <2>2, <2>6 DEF Each
    <3> QED BY <2>4, <3>1
  <2> QED BY <2>1, <2>2, <2>3, <2>5, <2>6
<1> QED BY <1>1, <1>2, <1>3, <1>4, Linking, AlikeRows

LEMMA Leaving ==
  ASSUME rows \in Seq(RowType), Each(rows), NEW k \in DOMAIN rows
  PROVE  Leave(k) \in Seq(RowType) /\ Each(Leave(k)) /\ RowIds(Leave(k)) = RowIds(rows) \ {rows[k].id}
<1> DEFINE rs == Leave(k)
<1>1. /\ rs \in Seq(RowType) /\ Len(rs) = Len(rows) - 1
      /\ \A l \in DOMAIN rs : rs[l] = IF l < k THEN rows[l] ELSE rows[l + 1]
  <2> DEFINE p == SubSeq(rows, 1, k - 1)
             q == SubSeq(rows, k + 1, Len(rows))
  <2>1. p \in Seq(RowType) /\ Len(p) = k - 1 /\ \A l \in 1..(k - 1) : p[l] = rows[l]
    OBVIOUS
  <2>2. /\ q \in Seq(RowType) /\ Len(q) = Len(rows) - k
        /\ \A l \in 1..(Len(rows) - k) : q[l] = rows[l + k]
    OBVIOUS
  <2>3. rs = p \o q
    BY DEF Leave, RemoveAt
  <2>4. k \in 1..Len(rows)
    OBVIOUS
  <2> HIDE DEF rs, p, q
  <2>5. rs \in Seq(RowType) /\ Len(rs) = Len(rows) - 1
    BY <2>1, <2>2, <2>3, <2>4
  <2>6. \A l \in DOMAIN rs : IF l < k THEN l \in 1..(k - 1) /\ rs[l] = p[l]
                                      ELSE l - (k - 1) \in 1..(Len(rows) - k) /\ rs[l] = q[l - (k - 1)]
    BY <2>1, <2>2, <2>3, <2>4
  <2>7. \A l \in DOMAIN rs : l \in Int /\ (l - (k - 1)) + k = l + 1
    BY <2>4, <2>5
  <2> QED BY <2>1, <2>2, <2>5, <2>6, <2>7
<1> HIDE DEF rs
<1>2. DOMAIN rs = 1..(Len(rows) - 1) /\ DOMAIN rows = 1..Len(rows)
  BY <1>1
<1>3. Each(rs)
  BY <1>1, <1>2 DEF Each
<1>4. \A m \in DOMAIN rows : m # k => \E l \in DOMAIN rs : rs[l] = rows[m]
  <2> TAKE m \in DOMAIN rows
  <2>1. CASE m < k
    BY <1>1, <1>2, <2>1
  <2>2. CASE m > k
    <3>1. m - 1 \in DOMAIN rs /\ rs[m - 1] = rows[m]
      BY <1>1, <1>2, <2>2
    <3> QED BY <3>1
  <2> QED BY <1>2, <2>1, <2>2
<1>5. \A l \in DOMAIN rs : \E m \in DOMAIN rows : m # k /\ rs[l] = rows[m]
  BY <1>1, <1>2
<1>6. RowIds(rs) = RowIds(rows) \ {rows[k].id}
  BY <1>4, <1>5 DEF RowIds, Each
<1> QED BY <1>1, <1>3, <1>6 DEF rs

----------------------------------------------------------------------------
(* Which steps leave what alone. *)

gateCore == <<active, deferred, hold, prop, convMode, nextId>>

LEMMA GateQuiet ==
  ASSUME [Next]_vars
  PROVE  \/ \E t \in Turns : StartDeferred(t) \/ Begin(t) \/ Ask(t) \/ Propose(t) \/ Drain(t)
         \/ RemoteVerdict \/ GateFinalize \/ ReleaseHold
         \/ UNCHANGED gateCore
<1>1. ASSUME NEW t \in Turns, Read(t) \/ AutoWrite(t) \/ Say(t) \/ Returns(t) \/ SeesCancel(t) \/ CaptureEnds(t) \/ Tell(t)
      PROVE  UNCHANGED gateCore
  BY <1>1 DEF Read, AutoWrite, Say, Returns, SeesCancel, CaptureEnds, Tell, gateVars, gateCore
<1>2. HostEvent => UNCHANGED gateCore
  BY DEF HostEvent, OnCreated, OnUpdated, OnSynced, OnBatch, OnMessage, OnReview, OnFinished, gateRest, gateCore
<1>3. ASSUME NEW c \in Convs, Dispatch(c) \/ Cancel(c) \/ TurnReviewed(c)
      PROVE  UNCHANGED gateCore
  BY <1>3 DEF Dispatch, Cancel, TurnReviewed, gateVars, gateKept, gateCore
<1>4. Edit \/ OverlayFinish \/ OverlayDismiss \/ RemoteFinish => UNCHANGED gateCore
  BY DEF Edit, OverlayFinish, OverlayDismiss, RemoteFinish, FinishSingle, gateVars, gateCore
<1>5. ASSUME NEW k \in DOMAIN rows, RowAccept(k) \/ RowReject(k)
      PROVE  UNCHANGED gateCore
  BY <1>5 DEF RowAccept, RowReject, batchRest, gateCore
<1>6. BatchApply \/ BatchCancel => UNCHANGED gateCore
  BY DEF BatchApply, BatchCancel, batchRest, gateCore
<1>7. UNCHANGED vars => UNCHANGED gateCore
  BY DEF vars, gateVars, gateCore
<1> QED BY <1>1, <1>2, <1>3, <1>4, <1>5, <1>6, <1>7 DEF Next, Turn, User

LEMMA TaskQuiet ==
  ASSUME [Next]_vars
  PROVE  \/ \E t \in Turns : Turn(t) /\ UNCHANGED hostVars
         \/ \E c \in Convs : Dispatch(c) \/ Cancel(c)
         \/ HostEvent /\ OnFinished /\ UNCHANGED task
         \/ UNCHANGED <<task, handle>>
<1>1. ASSUME NEW t \in Turns, Turn(t)
      PROVE  UNCHANGED hostVars
  BY <1>1 DEF Turn, StartDeferred, Begin, Ask, Read, Propose, AutoWrite, Say, Returns, SeesCancel,
              CaptureEnds, Drain, Tell
<1>2. HostEvent => UNCHANGED task /\ (OnFinished \/ UNCHANGED handle)
  BY DEF HostEvent, OnCreated, OnUpdated, OnSynced, OnBatch, OnMessage, OnReview, OnFinished, hostVars
<1>3. ASSUME NEW c \in Convs, TurnReviewed(c)
      PROVE  UNCHANGED <<task, handle>>
  BY <1>3 DEF TurnReviewed
<1>4. Edit \/ OverlayFinish \/ OverlayDismiss \/ RemoteVerdict \/ RemoteFinish => UNCHANGED <<task, handle>>
  BY DEF Edit, OverlayFinish, OverlayDismiss, RemoteVerdict, RemoteFinish, FinishSingle, hostVars
<1>5. ASSUME NEW k \in DOMAIN rows, RowAccept(k) \/ RowReject(k)
      PROVE  UNCHANGED <<task, handle>>
  BY <1>5 DEF RowAccept, RowReject, batchRest
<1>6. BatchApply \/ BatchCancel \/ GateFinalize \/ ReleaseHold => UNCHANGED <<task, handle>>
  BY DEF BatchApply, BatchCancel, batchRest, GateFinalize, ReleaseHold
<1>7. UNCHANGED vars => UNCHANGED <<task, handle>>
  BY DEF vars, hostVars
<1> QED BY <1>1, <1>2, <1>3, <1>4, <1>5, <1>6, <1>7 DEF Next, User

LEMMA EventQuiet ==
  ASSUME [Next]_vars
  PROVE  \/ \E t \in Turns : \/ Propose(t) \/ Say(t) \/ Returns(t) \/ SeesCancel(t)
                             \/ CaptureEnds(t) \/ Tell(t)
         \/ HostEvent \/ RemoteVerdict \/ GateFinalize
         \/ UNCHANGED events
<1>1. ASSUME NEW t \in Turns, StartDeferred(t) \/ Begin(t) \/ Ask(t) \/ Read(t) \/ AutoWrite(t) \/ Drain(t)
      PROVE  UNCHANGED events
  BY <1>1 DEF StartDeferred, Begin, Ask, Read, AutoWrite, Drain, gateVars
<1>2. ASSUME NEW c \in Convs, Dispatch(c) \/ Cancel(c) \/ TurnReviewed(c)
      PROVE  UNCHANGED events
  BY <1>2 DEF Dispatch, Cancel, TurnReviewed, gateVars, gateKept
<1>3. Edit \/ OverlayFinish \/ OverlayDismiss \/ RemoteFinish => UNCHANGED events
  BY DEF Edit, OverlayFinish, OverlayDismiss, RemoteFinish, FinishSingle, gateVars
<1>4. ASSUME NEW k \in DOMAIN rows, RowAccept(k) \/ RowReject(k)
      PROVE  UNCHANGED events
  BY <1>4 DEF RowAccept, RowReject, batchRest
<1>5. BatchApply \/ BatchCancel \/ ReleaseHold => UNCHANGED events
  BY DEF BatchApply, BatchCancel, batchRest, ReleaseHold
<1>6. UNCHANGED vars => UNCHANGED events
  BY DEF vars, gateVars
<1> QED BY <1>1, <1>2, <1>3, <1>4, <1>5, <1>6 DEF Next, Turn, User

LEMMA RowsQuiet ==
  ASSUME [Next]_vars
  PROVE  \/ HostEvent /\ (OnSynced \/ OnBatch) /\ UNCHANGED releases
         \/ \E k \in DOMAIN rows : RowAccept(k) \/ RowReject(k)
         \/ BatchApply \/ BatchCancel \/ ReleaseHold
         \/ UNCHANGED <<rows, releases>>
<1>1. ASSUME NEW t \in Turns, Turn(t)
      PROVE  UNCHANGED <<rows, releases>>
  BY <1>1 DEF Turn, StartDeferred, Begin, Ask, Read, Propose, AutoWrite, Say, Returns, SeesCancel,
              CaptureEnds, Drain, Tell, hostVars
<1>2. HostEvent => UNCHANGED releases /\ (OnSynced \/ OnBatch \/ UNCHANGED rows)
  BY DEF HostEvent, OnCreated, OnUpdated, OnSynced, OnBatch, OnMessage, OnReview, OnFinished, hostVars
<1>3. ASSUME NEW c \in Convs, Dispatch(c) \/ Cancel(c) \/ TurnReviewed(c)
      PROVE  UNCHANGED <<rows, releases>>
  BY <1>3 DEF Dispatch, Cancel, TurnReviewed
<1>4. Edit \/ OverlayFinish \/ OverlayDismiss \/ RemoteVerdict \/ RemoteFinish => UNCHANGED <<rows, releases>>
  BY DEF Edit, OverlayFinish, OverlayDismiss, RemoteVerdict, RemoteFinish, FinishSingle, hostVars
<1>5. GateFinalize => UNCHANGED <<rows, releases>>
  BY DEF GateFinalize
<1>6. UNCHANGED vars => UNCHANGED <<rows, releases>>
  BY DEF vars, hostVars
<1> QED BY <1>1, <1>2, <1>3, <1>4, <1>5, <1>6 DEF Next, User

----------------------------------------------------------------------------
(* What each step does to what the gate knows of a proposal. *)

(* Proposal i stays what it was but for its verdict and its links. *)
Akin(i) ==
  /\ prop[i] \in Proposal =>
       /\ prop'[i] \in Proposal /\ prop'[i].conv = prop[i].conv /\ prop'[i].turn = prop[i].turn
  /\ prop[i] = <<>> => prop'[i] = <<>>
Recall == \A i \in Ids : Akin(i)

LEMMA ProposalOf ==
  ASSUME NEW p \in Proposal
  PROVE  /\ p.conv \in Convs /\ p.turn \in Nat /\ p.base \in Contents /\ p.new \in Contents /\ p.links \subseteq Ids
         /\ LET q == [p EXCEPT !.status = "Pending", !.links = {}]
            IN q \in Proposal /\ q.conv = p.conv /\ q.turn = p.turn
BY DEF Proposal, Statuses

LEMMA ProposalLinked ==
  ASSUME NEW p \in Proposal, NEW L \in SUBSET Ids
  PROVE  LET q == [p EXCEPT !.links = L] IN q \in Proposal /\ q.conv = p.conv /\ q.turn = p.turn
BY DEF Proposal

LEMMA ProposalJudged ==
  ASSUME NEW p \in Proposal, NEW s \in Statuses
  PROVE  LET q == [p EXCEPT !.status = s] IN q \in Proposal /\ q.conv = p.conv /\ q.turn = p.turn
BY DEF Proposal

LEMMA LinkedProps ==
  ASSUME Types, Recorded, NEW id \in Ids, NEW peers
  PROVE  /\ Linked(id, peers) = [q \in Ids |-> Linked(id, peers)[q]]
         /\ \A q \in Ids : \/ Linked(id, peers)[q] = prop[q]
                           \/ /\ prop[q] \in Proposal
                              /\ Linked(id, peers)[q] = [prop[q] EXCEPT !.links = prop[q].links \cup {id}]
BY DEF Linked, Paired, Recorded

LEMMA ProposeProp ==
  ASSUME Types, Recorded, NEW t \in Turns, Propose(t)
  PROVE  LET id == Offer(t).id
         IN /\ id \in Ids /\ prop' \in [Ids -> Proposal \cup {<<>>}]
            /\ \A i \in Ids \ {id} : Akin(i)
            /\ IF convMode[task[t].conv] = "AutoAccept" THEN Akin(id)
               ELSE prop'[id] \in Proposal /\ prop'[id].turn = t /\ prop'[id].conv = task[t].conv
<1> DEFINE id == Offer(t).id
           peers == Offer(t).peers
           p == [conv |-> task[t].conv, turn |-> t, base |-> Offer(t).base, new |-> Offer(t).new,
                 status |-> "Pending", links |-> peers]
           f == Linked(id, peers)
<1>1. Offer(t) \in ReadOnce
  BY TurnOf, OfferKinds DEF Propose, Offer, Types
<1>2. id \in Ids /\ peers \subseteq Ids /\ Offer(t).base \in Contents /\ Offer(t).new \in Contents
  BY <1>1, GateAssumption DEF ReadOnce
<1>3. p \in Proposal /\ p.turn = t /\ p.conv = task[t].conv
  <2>1. task[t].conv \in Convs /\ t \in Nat
    BY TurnOf DEF Types
  <2> QED BY <1>2, <2>1 DEF Proposal, Statuses
<1>4. \A q \in Ids : \/ f[q] = prop[q]
                     \/ /\ prop[q] \in Proposal /\ f[q] \in Proposal
                        /\ f[q].conv = prop[q].conv /\ f[q].turn = prop[q].turn
  <2> TAKE q \in Ids
  <2>1. CASE f[q] = prop[q]
    BY <2>1
  <2>2. CASE /\ prop[q] \in Proposal
             /\ f[q] = [prop[q] EXCEPT !.links = prop[q].links \cup {id}]
    <3>1. prop[q].links \cup {id} \in SUBSET Ids
      BY <1>2, <2>2, ProposalOf
    <3> HIDE DEF f, id
    <3> QED BY <2>2, <3>1, ProposalLinked
  <2> QED BY <1>2, <2>1, <2>2, LinkedProps
<1>5. f = [q \in Ids |-> f[q]] /\ \A q \in Ids : f[q] \in Proposal \cup {<<>>}
  BY <1>2, <1>4, LinkedProps DEF Types, GateTypes
<1>6. prop' = IF convMode[task[t].conv] = "AutoAccept" THEN f ELSE [f EXCEPT ![id] = p]
  BY <1>3 DEF Propose, Insert
<1> HIDE DEF f, p, id
<1>7. CASE convMode[task[t].conv] = "AutoAccept"
  <2>1. prop' \in [Ids -> Proposal \cup {<<>>}]
    BY <1>5, <1>6, <1>7
  <2>2. \A i \in Ids : Akin(i)
    BY <1>4, <1>6, <1>7, ProposalIsSome DEF Akin
  <2> QED BY <1>2, <1>7, <2>1, <2>2 DEF id
<1>8. CASE convMode[task[t].conv] # "AutoAccept"
  <2>1. prop' \in [Ids -> Proposal \cup {<<>>}] /\ prop'[id] = p
    BY <1>2, <1>3, <1>5, <1>6, <1>8
  <2>2. \A i \in Ids \ {id} : prop'[i] = f[i]
    BY <1>5, <1>6, <1>8
  <2>3. \A i \in Ids \ {id} : Akin(i)
    BY <1>4, <2>2, ProposalIsSome DEF Akin
  <2> QED BY <1>2, <1>3, <1>8, <2>1, <2>3 DEF id
<1> QED BY <1>7, <1>8

LEMMA AkinUpdate ==
  ASSUME Types, \A q \in Ids : \/ prop'[q] = prop[q]
                               \/ /\ prop[q] \in Proposal
                                  /\ \/ \E s \in Statuses : prop'[q] = [prop[q] EXCEPT !.status = s]
                                     \/ prop'[q] = Gone(q),
         prop' = [q \in Ids |-> prop'[q]]
  PROVE  prop' \in [Ids -> Proposal \cup {<<>>}] /\ Recall
<1>1. ASSUME NEW q \in Ids
      PROVE  Akin(q) /\ prop'[q] \in Proposal \cup {<<>>}
  <2>1. CASE prop'[q] = prop[q]
    BY <2>1 DEF Akin, Types, GateTypes
  <2>2. CASE prop[q] \in Proposal /\ \E s \in Statuses : prop'[q] = [prop[q] EXCEPT !.status = s]
    <3>1. PICK s \in Statuses : prop'[q] = [prop[q] EXCEPT !.status = s]
      BY <2>2, SMTT(30)
    <3> QED BY <2>2, <3>1, ProposalJudged, ProposalIsSome DEF Akin
  <2>3. CASE prop[q] \in Proposal /\ prop'[q] = Gone(q)
    BY <2>3, ProposalOf, ProposalIsSome DEF Akin, Gone
  <2> QED BY <2>1, <2>2, <2>3
<1> QED BY <1>1 DEF Recall

LEMMA PropSteps ==
  ASSUME Types, Recorded, HeldIffShown, [Next]_vars
  PROVE  /\ prop' \in [Ids -> Proposal \cup {<<>>}]
         /\ RemoteVerdict \/ GateFinalize \/ ReleaseHold \/ UNCHANGED prop => Recall
         /\ (\E t \in Turns : Propose(t)) \/ Recall
<1>0. prop \in [Ids -> Proposal \cup {<<>>}]
  BY DEF Types, GateTypes
<1>1. ASSUME UNCHANGED prop
      PROVE  prop' \in [Ids -> Proposal \cup {<<>>}] /\ Recall
  BY <1>0, <1>1 DEF Akin, Recall
<1>2. ASSUME NEW t \in Turns, StartDeferred(t) \/ Begin(t) \/ Ask(t) \/ Drain(t)
      PROVE  UNCHANGED prop
  BY <1>2 DEF StartDeferred, Begin, Ask, Drain
<1>3. ASSUME NEW t \in Turns, Propose(t)
      PROVE  prop' \in [Ids -> Proposal \cup {<<>>}]
  BY <1>3, ProposeProp
<1>4. ASSUME RemoteVerdict
      PROVE  prop' \in [Ids -> Proposal \cup {<<>>}] /\ Recall
  <2>1. PICK id \in active, s \in Statuses : prop' = [prop EXCEPT ![id].status = s]
    BY <1>4 DEF RemoteVerdict, Verdict, Statuses
  <2>2. id \in Ids /\ prop[id] \in Proposal
    BY DEF Types, GateTypes, Recorded, Known
  <2>3. \A q \in Ids : prop'[q] = IF q = id THEN [prop[q] EXCEPT !.status = s] ELSE prop[q]
    BY <1>0, <2>1
  <2> QED BY <1>0, <2>1, <2>2, <2>3, AkinUpdate
<1>5. ASSUME GateFinalize
      PROVE  prop' \in [Ids -> Proposal \cup {<<>>}] /\ Recall
  <2>1. CASE UNCHANGED prop
    BY <1>1, <2>1
  <2>2. ASSUME NEW id \in active,
               prop' = [q \in Ids |-> IF q \in Losers(id) THEN [prop[q] EXCEPT !.status = "Superseded"]
                                      ELSE IF q = id THEN Gone(q) ELSE prop[q]]
        PROVE  prop' \in [Ids -> Proposal \cup {<<>>}] /\ Recall
    <3>1. \A q \in Losers(id) \cup {id} : q \in Ids => prop[q] \in Proposal
      BY DEF Losers, Recorded, Known
    <3>2. "Superseded" \in Statuses
      BY DEF Statuses
    <3> QED BY <2>2, <3>1, <3>2, AkinUpdate
  <2> QED BY <1>5, <2>1, <2>2 DEF GateFinalize, Finalize
<1>6. ASSUME ReleaseHold
      PROVE  prop' \in [Ids -> Proposal \cup {<<>>}] /\ Recall
  <2>1. PICK id \in releases : prop' = [prop EXCEPT ![id] = Gone(id)]
    BY <1>6 DEF ReleaseHold
  <2>2. id \in Ids /\ prop[id] \in Proposal
    BY DEF Types, HostTypes, HeldIffShown, Recorded, Known
  <2>3. \A q \in Ids : prop'[q] = IF q = id THEN Gone(q) ELSE prop[q]
    BY <1>0, <2>1
  <2> QED BY <1>0, <2>1, <2>2, <2>3, AkinUpdate
<1> QED BY <1>1, <1>2, <1>3, <1>4, <1>5, <1>6, GateQuiet DEF gateCore

----------------------------------------------------------------------------
(* The types. *)

LEMMA DiskQuiet ==
  ASSUME [Next]_vars
  PROVE  \/ \E t \in Turns : AutoWrite(t) \/ SeesCancel(t)
         \/ \E c \in Convs : Cancel(c)
         \/ Edit \/ OverlayFinish \/ RemoteFinish \/ BatchApply
         \/ \E k \in DOMAIN rows : RowAccept(k)
         \/ UNCHANGED disk
<1>1. ASSUME NEW t \in Turns, Turn(t)
      PROVE  AutoWrite(t) \/ SeesCancel(t) \/ UNCHANGED disk
  BY <1>1 DEF Turn, StartDeferred, Begin, Ask, Read, Propose, Insert, Say, Returns, CaptureEnds,
              Drain, Tell, gateVars
<1>2. HostEvent => UNCHANGED disk
  BY DEF HostEvent, OnCreated, OnUpdated, OnSynced, OnBatch, OnMessage, OnReview, OnFinished, gateRest
<1>3. ASSUME NEW c \in Convs, Dispatch(c) \/ TurnReviewed(c)
      PROVE  UNCHANGED disk
  BY <1>3 DEF Dispatch, TurnReviewed, gateVars
<1>4. OverlayDismiss \/ RemoteVerdict \/ BatchCancel \/ GateFinalize \/ ReleaseHold => UNCHANGED disk
  BY DEF OverlayDismiss, RemoteVerdict, Verdict, BatchCancel, GateFinalize, Finalize, ReleaseHold, gateVars
<1>5. ASSUME NEW k \in DOMAIN rows, RowReject(k)
      PROVE  UNCHANGED disk
  BY <1>5 DEF RowReject
<1>6. UNCHANGED vars => UNCHANGED disk
  BY DEF vars, gateVars
<1> QED BY <1>1, <1>2, <1>3, <1>4, <1>5, <1>6 DEF Next, User

LEMMA DiskType ==
  ASSUME Types, Recorded, HeldIffShown, [Next]_vars
  PROVE  disk' \in Contents \cup {Absent}
<1>1. \A t \in Turns : Offer(t).st = "write" => Offer(t).new \in Contents
  BY TurnOf, OfferKinds, GateAssumption DEF Types, Offer, Accepted
<1>2. \A t \in Turns : MayStillLand(t) => disk' \in Contents \cup {Absent}
  BY <1>1 DEF MayStillLand, Types, GateTypes
<1>3. \A id \in Ids : \A x : prop[id] \in Proposal => Final(id, x) \in Contents
  BY ProposalOf DEF Final
<1>4. \A id \in Ids : \A x : prop[id] \in Proposal /\ FinishSingle(id, x) => disk' \in Contents \cup {Absent}
  BY <1>3 DEF FinishSingle, Applies, Written, Refused, Types, GateTypes
<1>5. \A id \in active : id \in Ids /\ prop[id] \in Proposal
  BY DEF Types, GateTypes, Recorded, Known
<1>6. \A k \in DOMAIN rows : prop[rows[k].id] \in Proposal
  BY DEF HeldIffShown, RowIds, Recorded, Known
<1>7. ASSUME NEW t \in Turns, AutoWrite(t) \/ SeesCancel(t)
      PROVE  disk' \in Contents \cup {Absent}
  BY <1>1, <1>2, <1>7 DEF AutoWrite, SeesCancel
<1>8. ASSUME NEW c \in Convs, Cancel(c)
      PROVE  disk' \in Contents \cup {Absent}
  BY <1>2, <1>8, Cancels DEF Cancel, Types, GateTypes
<1>9. Edit => disk' \in Contents \cup {Absent}
  BY DEF Edit
<1>10. OverlayFinish => disk' \in Contents \cup {Absent}
  BY <1>4 DEF OverlayFinish, Recorded, Types, HostTypes
<1>11. RemoteFinish => disk' \in Contents \cup {Absent}
  BY <1>4, <1>5 DEF RemoteFinish
<1>12. ASSUME NEW k \in DOMAIN rows, RowAccept(k)
       PROVE  disk' \in Contents \cup {Absent}
  <2>1. disk' = prop[rows[k].id].new \/ disk' = disk
    BY <1>12 DEF RowAccept, Written
  <2>2. prop[rows[k].id].new \in Contents
    BY <1>6, ProposalOf
  <2> QED BY <2>1, <2>2 DEF Types, GateTypes
<1>13. BatchApply => disk' \in Contents \cup {Absent}
  <2>1. Len(rows) \in 0..Len(rows)
    BY DEF Types, HostTypes
  <2> QED BY <2>1 DEF BatchApply
<1> QED BY <1>7, <1>8, <1>9, <1>10, <1>11, <1>12, <1>13, DiskQuiet DEF Types, GateTypes

LEMMA GateTypesStep ==
  ASSUME Types, Recorded, HeldIffShown, [Next]_vars
  PROVE  GateTypes'
<1>0. GateTypes
  BY DEF Types
<1>1. prop' \in [Ids -> Proposal \cup {<<>>}] /\ disk' \in Contents \cup {Absent}
  BY PropSteps, DiskType
<1>2. ASSUME NEW t \in Turns
      PROVE  task[t].conv \in Convs
  BY TurnOf DEF Types
<1>3. ASSUME NEW t \in Turns, StartDeferred(t) \/ Begin(t)
      PROVE  GateTypes'
  BY <1>0, <1>1, <1>2, <1>3 DEF StartDeferred, Begin, SetMode, GateTypes, Modes
<1>4. ASSUME NEW t \in Turns, Ask(t)
      PROVE  GateTypes'
  BY <1>0, <1>1, <1>4, GateAssumption DEF Ask, GateTypes, Ids
<1>5. ASSUME NEW t \in Turns, Propose(t)
      PROVE  GateTypes'
  <2> DEFINE c == task[t].conv
             id == Offer(t).id
  <2>1. id \in Ids /\ c \in Convs
    BY <1>2, <1>5, ProposeProp
  <2>2. active' \subseteq Ids
    BY <1>0, <1>5, <2>1 DEF Propose, Insert, GateTypes
  <2>3. deferred' \in [Convs -> Seq(Ids)]
    <3>1. deferred' = deferred \/ deferred' = [deferred EXCEPT ![c] = Append(deferred[c], id)]
      BY <1>5 DEF Propose, Insert
    <3> HIDE DEF id, c
    <3>2. deferred \in [Convs -> Seq(Ids)]
      BY <1>0 DEF GateTypes
    <3>3. Append(deferred[c], id) \in Seq(Ids)
      BY <2>1, <3>2
    <3> QED BY <3>1, <3>2, <3>3
  <2> QED BY <1>0, <1>1, <1>5, <2>2, <2>3 DEF Propose, Insert, GateTypes
<1>6. ASSUME NEW t \in Turns, Drain(t)
      PROVE  GateTypes'
  <2>1. hold' \subseteq Ids
    BY <1>0, <1>2, <1>6 DEF Drain, Take, Held, GateTypes, ToSet
  <2>2. deferred' \in [Convs -> Seq(Ids)] /\ convMode' \in [Convs -> Modes]
    BY <1>0, <1>2, <1>6 DEF Drain, Take, GateTypes, Modes
  <2> QED BY <1>0, <1>1, <1>6, <2>1, <2>2 DEF Drain, GateTypes
<1>7. RemoteVerdict => GateTypes'
  BY <1>0, <1>1 DEF RemoteVerdict, Verdict, GateTypes
<1>8. GateFinalize => GateTypes'
  <2>1. GateFinalize => active' \subseteq active /\ UNCHANGED <<deferred, hold, convMode, nextId>>
    BY DEF GateFinalize, Finalize
  <2> QED BY <1>0, <1>1, <2>1 DEF GateTypes
<1>9. ReleaseHold => GateTypes'
  BY <1>0, <1>1 DEF ReleaseHold, GateTypes
<1>10. UNCHANGED gateCore => GateTypes'
  BY <1>0, <1>1 DEF gateCore, GateTypes
<1> QED BY <1>3, <1>4, <1>5, <1>6, <1>7, <1>8, <1>9, <1>10, GateQuiet

LEMMA TaskTypesStep ==
  ASSUME Types, Recorded, [Next]_vars
  PROVE  TaskTypes'
<1>0. TaskTypes
  BY DEF Types
<1>1. ASSUME NEW t, NEW p, NEW x, NEW o, NEW b, Turned(t, p, x, o, b), handle' = handle
      PROVE  TaskTypes'
  BY <1>0, <1>1, Turning DEF TaskTypes
<1>2. ASSUME NEW t \in Turns, Turn(t), UNCHANGED hostVars
      PROVE  TaskTypes'
  <2>1. handle' = handle
    BY <1>2 DEF hostVars
  <2>2. CASE Say(t)
    BY <1>0, <2>1, <2>2 DEF Say, TaskTypes
  <2>3. CASE Drain(t)
    BY <1>1, <2>1, <2>3, Drains
  <2> QED BY <1>1, <1>2, <2>1, <2>2, <2>3, TaskSteps DEF Turn
<1>3. ASSUME NEW c \in Convs, Dispatch(c)
      PROVE  TaskTypes'
  <2>1. task' \in Seq(TaskType) /\ Len(task') = Len(task) + 1 /\ Len(task') <= MaxTurns
    BY <1>3, Dispatching
  <2>2. handle' = [handle EXCEPT ![c] = Len(task) + 1] /\ Len(task) \in Nat
    BY <1>0, <1>3 DEF Dispatch, TaskTypes
  <2> QED BY <1>0, <2>1, <2>2 DEF TaskTypes
<1>4. ASSUME NEW c \in Convs, Cancel(c)
      PROVE  TaskTypes'
  <2>1. task' \in Seq(TaskType) /\ Len(task') = Len(task)
    BY <1>0, <1>4, Cancels, Turning DEF TaskTypes
  <2>2. handle' = handle \/ handle' = [handle EXCEPT ![c] = 0]
    BY <1>4, Cancels
  <2> QED BY <1>0, <2>1, <2>2 DEF TaskTypes
<1>5. ASSUME HostEvent, OnFinished, UNCHANGED task
      PROVE  TaskTypes'
  <2>1. handle' = [handle EXCEPT ![Next1.conv] = 0] /\ 0 \in 0..Len(task)
    BY <1>0, <1>5 DEF OnFinished, TaskTypes
  <2> QED BY <1>0, <1>5, <2>1 DEF TaskTypes
<1>6. UNCHANGED <<task, handle>> => TaskTypes'
  BY <1>0 DEF TaskTypes
<1> QED BY <1>2, <1>3, <1>4, <1>5, <1>6, TaskQuiet

LEMMA EventKindSteps ==
  ASSUME Types, Recorded, [Next]_vars
  PROVE  \/ \E t \in Turns : Propose(t) /\ Announces(t)
         \/ \E t \in Turns : Tell(t) /\ Flows(0, {"batch", "finished"})
         \/ HostEvent /\ Flows(1, {"synced"})
         \/ Flows(0, {"updated", "message", "review"})
<1> DEFINE Other == Flows(0, {"updated", "message", "review"})
<1>1. ASSUME NEW t \in Turns, Say(t) \/ Returns(t) \/ SeesCancel(t) \/ CaptureEnds(t)
      PROVE  Other
  BY <1>1, TurnEvents DEF Flows
<1>2. ASSUME NEW t \in Turns, Tell(t)
      PROVE  Flows(0, {"batch", "finished"})
  <2> DEFINE full == [kind |-> "batch", conv |-> task[t].conv, rows |-> task[t].batch]
             done == [kind |-> "finished", conv |-> task[t].conv]
  <2>1. full.kind = "batch" /\ done.kind = "finished"
    OBVIOUS
  <2>2. Flow(0, <<done>>) \/ Flow(0, <<full, done>>)
    BY <1>2, TellEvents
  <2> HIDE DEF full, done
  <2>3. CASE Flow(0, <<done>>)
    BY <2>1, <2>3 DEF Flows
  <2>4. CASE Flow(0, <<full, done>>)
    <3>1. \A k \in DOMAIN <<full, done>> : <<full, done>>[k] \in {full, done}
      OBVIOUS
    <3>2. \A k \in DOMAIN <<full, done>> : <<full, done>>[k].kind \in {"batch", "finished"}
      BY <2>1, <3>1
    <3> QED BY <2>4, <3>2 DEF Flows
  <2> QED BY <2>2, <2>3, <2>4
<1>3. HostEvent => Flows(1, {"synced"})
  BY HostEvents DEF Flows
<1>4. ASSUME RemoteVerdict
      PROVE  Other
  <2>1. PICK id \in active : events' = Append(events, [kind |-> "updated", id |-> id])
    BY <1>4 DEF RemoteVerdict, Verdict
  <2> DEFINE e == [kind |-> "updated", id |-> id]
  <2>2. e \in EventType /\ e.kind = "updated"
    BY DEF Types, GateTypes, EventType, OfProposal
  <2>3. Flow(0, <<e>>)
    BY <2>1, <2>2, NoFlow
  <2> HIDE DEF e
  <2> QED BY <2>2, <2>3 DEF Flows
<1>5. UNCHANGED events => Other
  BY NoFlow DEF Flows
<1>6. ASSUME NEW id, Finalize(id)
      PROVE  Other
  <2>1. Losers(id) \subseteq Ids
    BY KnownIds DEF Losers
  <2>2. ASSUME NEW u \in Updates(Losers(id)), events' = events \o u
        PROVE  Other
    <3>1. u \in Seq(EventType) /\ \A k \in DOMAIN u : u[k].kind = "updated"
      BY <2>1, UpdatesAre
    <3> QED BY <2>2, <3>1 DEF Flow, Flows
  <2> QED BY <1>5, <1>6, <2>2 DEF Finalize
<1> QED BY <1>1, <1>2, <1>3, <1>4, <1>5, <1>6, TurnEvents, EventQuiet DEF GateFinalize

LEMMA EventSteps ==
  ASSUME Types, Recorded, [Next]_vars
  PROVE  (\E t \in Turns : Tell(t)) \/ (HostEvent /\ OnBatch) \/ Plain
<1>1. ASSUME NEW t \in Turns, Announces(t)
      PROVE  Plain
  <2>1. Flows(0, PlainKinds)
    BY <1>1 DEF Announces, Flows, PlainKinds
  <2> QED BY <2>1 DEF Plain
<1>2. ASSUME HostEvent, ~OnBatch, Flows(1, {"synced"})
      PROVE  Plain
  <2>1. events[1].kind # "batch"
    BY <1>2, HostEvents DEF HostEvent, OnCreated, OnUpdated, OnSynced, OnMessage, OnReview, OnFinished, Next1
  <2>2. Flows(1, PlainKinds)
    BY <1>2 DEF Flows, PlainKinds
  <2> QED BY <2>1, <2>2 DEF Plain
<1>3. ASSUME Flows(0, {"updated", "message", "review"})
      PROVE  Plain
  <2>1. Flows(0, PlainKinds)
    BY <1>3 DEF Flows, PlainKinds
  <2> QED BY <2>1 DEF Plain
<1> QED BY <1>1, <1>2, <1>3, EventKindSteps

LEMMA EventTypesStep ==
  ASSUME Types, Recorded, [Next]_vars
  PROVE  events' \in Seq(EventType)
<1>1. events \in Seq(EventType)
  BY DEF Types
<1>2. \A d, es : Flow(d, es) => events' \in Seq(EventType)
  BY <1>1, Flowing
<1>3. ASSUME NEW t \in Turns, Tell(t)
      PROVE  events' \in Seq(EventType)
  BY <1>2, <1>3, TellEvents
<1>4. HostEvent => events' \in Seq(EventType)
  BY <1>2, HostEvents DEF Flows
<1> QED BY <1>2, <1>3, <1>4, EventSteps DEF Plain, Flows

(* Proposals S leave the list, to be released. *)
Settles(S) ==
  /\ S \subseteq RowIds(rows) /\ releases' = releases \cup S /\ UNCHANGED <<active, deferred, hold, prop, task, events>>
  /\ rows' \in Seq(RowType) /\ Each(rows') /\ RowIds(rows') = RowIds(rows) \ S
(* The batch at the head of the queue is listed. *)
Listed ==
  /\ HostEvent /\ OnBatch /\ UNCHANGED <<active, deferred, hold, prop, task, releases>> /\ 1 \in Batches
  /\ rows' \in Seq(RowType) /\ Each(rows')
  /\ RowIds(rows') = RowIds(rows) \cup RowIds(events[1].rows)
RowsStill == UNCHANGED releases /\ rows' \in Seq(RowType) /\ Alike(rows', rows)

LEMMA Settling ==
  ASSUME Types, OnePlace, NEW k \in DOMAIN rows, RowAccept(k) \/ RowReject(k)
  PROVE  Settles({rows[k].id})
<1>1. rows \in Seq(RowType) /\ Each(rows)
  BY DEF Types, HostTypes, OnePlace
<1>2. Leave(k) \in Seq(RowType) /\ Each(Leave(k)) /\ RowIds(Leave(k)) = RowIds(rows) \ {rows[k].id}
  BY <1>1, Leaving
<1>3. \A links : /\ Outvoted(Leave(k), links) \in Seq(RowType) /\ Each(Outvoted(Leave(k), links))
                 /\ RowIds(Outvoted(Leave(k), links)) = RowIds(rows) \ {rows[k].id}
  BY <1>2, Outvoting, AlikeRows
<1>4. /\ releases' = releases \cup {rows[k].id}
      /\ rows' = Leave(k) \/ rows' = Outvoted(Leave(k), rows[k].links)
  BY DEF RowAccept, RowReject
<1>5. {rows[k].id} \subseteq RowIds(rows)
  BY DEF RowIds
<1>6. UNCHANGED <<active, deferred, hold, prop, task, events>>
  BY DEF RowAccept, RowReject, batchRest
<1> QED BY <1>2, <1>3, <1>4, <1>5, <1>6 DEF Settles

LEMMA Listing ==
  ASSUME Types, OnePlace, HostEvent, OnBatch
  PROVE  Listed
<1>1. Head(events) = events[1] /\ 1 \in DOMAIN events /\ events[1] \in EventType
  BY DEF HostEvent, Types
<1>2. 1 \in Batches /\ rows' = Merged(rows, events[1].rows)
  BY <1>1 DEF OnBatch, Next1, Batches
<1>3. rows \in Seq(RowType) /\ events[1].rows \in Seq(RowType)
  BY <1>1, <1>2, EventKinds DEF Batches, Types, HostTypes
<1>4. Each(rows) /\ Each(events[1].rows) /\ Disjoint(RowIds(rows), RowIds(events[1].rows))
  BY <1>2 DEF OnePlace, Disjoint
<1>5. UNCHANGED <<active, deferred, hold, prop, task, releases>>
  BY DEF OnBatch, gateRest
<1> QED BY <1>2, <1>3, <1>4, <1>5, Merging DEF Listed

LEMMA RowSteps ==
  ASSUME Types, OnePlace, [Next]_vars
  PROVE  RowsStill \/ Listed \/ (\E S : Settles(S)) \/ (ReleaseHold /\ UNCHANGED rows)
<1>0. rows \in Seq(RowType) /\ Each(rows)
  BY DEF Types, HostTypes, OnePlace
<1>1. ASSUME UNCHANGED <<rows, releases>>
      PROVE  RowsStill
  BY <1>0, <1>1 DEF RowsStill, Alike
<1>2. ASSUME HostEvent, OnSynced, UNCHANGED releases
      PROVE  RowsStill
  BY <1>2, Syncing DEF RowsStill, HostEvent
<1>3. HostEvent /\ OnBatch => Listed
  BY Listing
<1>4. ASSUME BatchApply \/ BatchCancel
      PROVE  Settles(RowIds(rows))
  <2>1. rows' = <<>> /\ releases' = releases \cup RowIds(rows)
    BY <1>4 DEF BatchApply, BatchCancel
  <2>2. <<>> \in Seq(RowType) /\ Each(<<>>) /\ RowIds(<<>>) = {}
    BY DEF Each, RowIds
  <2>3. UNCHANGED <<active, deferred, hold, prop, task, events>>
    BY <1>4 DEF BatchApply, BatchCancel, batchRest
  <2> QED BY <2>1, <2>2, <2>3 DEF Settles
<1>5. ReleaseHold => UNCHANGED rows
  BY DEF ReleaseHold
<1> QED BY <1>1, <1>2, <1>3, <1>4, <1>5, RowsQuiet, Settling

LEMMA HostTypesStep ==
  ASSUME Types, Recorded, OnePlace, [Next]_vars
  PROVE  HostTypes'
<1>0. HostTypes
  BY DEF Types
<1>1. rows' \in Seq(RowType) /\ releases' \subseteq Ids
  <2>1. RowIds(rows) \subseteq Ids
    BY <1>0, RowIdsAre DEF HostTypes
  <2> QED BY <1>0, <2>1, RowSteps DEF RowsStill, Listed, Settles, ReleaseHold, HostTypes
<1>2. UNCHANGED <<streaming, inReview, overlay, finals>> => HostTypes'
  BY <1>0, <1>1 DEF HostTypes
<1>3. ASSUME NEW t \in Turns, Turn(t)
      PROVE  UNCHANGED <<streaming, inReview, overlay, finals>>
  BY <1>3 DEF Turn, StartDeferred, Begin, Ask, Read, Propose, AutoWrite, Say, Returns, SeesCancel,
              CaptureEnds, Drain, Tell, hostVars
<1>4. ASSUME HostEvent
      PROVE  HostTypes'
  <2>1. Next1 \in EventType
    BY <1>4, HostEvents DEF Next1
  <2>2. OnCreated => HostTypes'
    BY <1>0, <1>1, <2>1, EventKinds DEF OnCreated, HostTypes
  <2>3. OnMessage => HostTypes'
    BY <1>0, <1>1 DEF OnMessage, HostTypes
  <2>4. OnReview => HostTypes'
    BY <1>0, <1>1, <2>1, EventKinds DEF OnReview, HostTypes
  <2>5. OnUpdated \/ OnSynced \/ OnBatch \/ OnFinished => UNCHANGED <<streaming, inReview, overlay, finals>>
    BY DEF OnUpdated, OnSynced, OnBatch, OnFinished, hostVars
  <2> QED BY <1>2, <1>4, <2>2, <2>3, <2>4, <2>5 DEF HostEvent
<1>5. ASSUME NEW c \in Convs, Dispatch(c) \/ Cancel(c) \/ TurnReviewed(c)
      PROVE  HostTypes'
  BY <1>0, <1>1, <1>5 DEF Dispatch, Cancel, TurnReviewed, HostTypes
<1>6. OverlayFinish \/ OverlayDismiss => HostTypes'
  BY <1>0, <1>1 DEF OverlayFinish, OverlayDismiss, FinishSingle, HostTypes
<1>7. RemoteFinish => HostTypes'
  BY <1>0, <1>1 DEF RemoteFinish, FinishSingle, HostTypes, Types, GateTypes
<1>8. GateFinalize => HostTypes'
  BY <1>0, <1>1 DEF GateFinalize, HostTypes
<1>9. Edit \/ RemoteVerdict \/ BatchApply \/ BatchCancel \/ ReleaseHold
        => UNCHANGED <<streaming, inReview, overlay, finals>>
  BY DEF Edit, RemoteVerdict, BatchApply, BatchCancel, ReleaseHold, batchRest, hostVars
<1>10. ASSUME NEW k \in DOMAIN rows, RowAccept(k) \/ RowReject(k)
       PROVE  UNCHANGED <<streaming, inReview, overlay, finals>>
  BY <1>10 DEF RowAccept, RowReject, batchRest
<1>11. UNCHANGED vars => UNCHANGED <<streaming, inReview, overlay, finals>>
  BY DEF vars, hostVars
<1> QED BY <1>2, <1>3, <1>4, <1>5, <1>6, <1>7, <1>8, <1>9, <1>10, <1>11 DEF Next, User

LEMMA TypesStep ==
  ASSUME Inv, [Next]_vars
  PROVE  Types'
BY GateTypesStep, TaskTypesStep, EventTypesStep, HostTypesStep DEF Inv, Types

----------------------------------------------------------------------------
(* What each step does to the places of the gate. *)

Opens(id) == active' = active \cup {id} /\ UNCHANGED <<deferred, hold>>
Defers(c, id) ==
  /\ deferred' = [deferred EXCEPT ![c] = Append(deferred[c], id)] /\ Queued' = Queued \cup {id}
  /\ UNCHANGED <<active, hold>>
Forgets(id) == id \in active /\ active' = active \ {id} /\ UNCHANGED <<deferred, hold>>
Hands(c) ==
  /\ deferred' = [deferred EXCEPT ![c] = <<>>] /\ Queued' = Queued \ ToSet(deferred[c])
  /\ hold' = hold \cup ToSet(deferred[c]) /\ UNCHANGED active
Releases(id) ==
  /\ id \in releases /\ releases' = releases \ {id} /\ hold' = hold \ {id}
  /\ UNCHANGED <<active, deferred, task, events, rows>>

LEMMA NewId ==
  ASSUME Inv, NEW t \in Turns, Propose(t)
  PROVE  Offer(t).id \in Ids /\ Offer(t).id \notin Known /\ prop[Offer(t).id] = <<>>
<1>1. Offer(t).id \in Ids
  BY ProposeProp DEF Inv
<1>2. prop[Offer(t).id] = <<>>
  BY DEF Propose, Offer, Asking, Inv, Fresh
<1> QED BY <1>1, <1>2, ProposalIsSome DEF Inv, Recorded

LEMMA QueuedIs ==
  ASSUME Types
  PROVE  \A i : i \in Queued <=> \E c \in Convs : \E k \in DOMAIN deferred[c] : deferred[c][k] = i
<1>1. \A c \in Convs : deferred[c] \in Seq(Ids)
  BY DEF Types, GateTypes
<1> QED BY <1>1 DEF Queued, ToSet

LEMMA Deferring ==
  ASSUME Types, NEW c \in Convs, NEW id \in Ids, deferred' = [deferred EXCEPT ![c] = Append(deferred[c], id)]
  PROVE  Queued' = Queued \cup {id}
<1>1. /\ \A d \in Convs : deferred[d] \in Seq(Ids)
      /\ \A d \in Convs : deferred'[d] = IF d = c THEN Append(deferred[c], id) ELSE deferred[d]
  BY DEF Types, GateTypes
<1>2. ToSet(deferred'[c]) = ToSet(deferred[c]) \cup {id}
  <2>1. /\ DOMAIN deferred'[c] = DOMAIN deferred[c] \cup {Len(deferred[c]) + 1}
        /\ deferred'[c][Len(deferred[c]) + 1] = id
        /\ \A k \in DOMAIN deferred[c] : deferred'[c][k] = deferred[c][k]
    <3>1. deferred[c] \in Seq(Ids) /\ deferred'[c] = Append(deferred[c], id)
      BY <1>1
    <3> DEFINE q == deferred[c]
               r == deferred'[c]
    <3> HIDE DEF q, r
    <3>2. q \in Seq(Ids) /\ r = Append(q, id)
      BY <3>1 DEF q, r
    <3>3. DOMAIN r = DOMAIN q \cup {Len(q) + 1} /\ r[Len(q) + 1] = id /\ \A k \in DOMAIN q : r[k] = q[k]
      BY <3>2
    <3> QED BY <3>3 DEF q, r
  <2> QED BY <2>1 DEF ToSet
<1>3. \A d \in Convs : d # c => ToSet(deferred'[d]) = ToSet(deferred[d])
  BY <1>1
<1> QED BY <1>2, <1>3 DEF Queued

LEMMA Handing ==
  ASSUME Types, Apart, NEW c \in Convs, deferred' = [deferred EXCEPT ![c] = <<>>]
  PROVE  Queued' = Queued \ ToSet(deferred[c])
<1>1. \A d \in Convs : deferred'[d] = IF d = c THEN <<>> ELSE deferred[d]
  BY DEF Types, GateTypes
<1>2. ToSet(deferred'[c]) = {} /\ \A d \in Convs : d # c => ToSet(deferred'[d]) = ToSet(deferred[d])
  BY <1>1 DEF ToSet
<1>3. \A d \in Convs : d # c => ToSet(deferred[d]) \cap ToSet(deferred[c]) = {}
  BY DEF Apart, ToSet
<1> QED BY <1>2, <1>3 DEF Queued

LEMMA DrainHands ==
  ASSUME Inv, NEW t \in Turns, Drain(t)
  PROVE  Hands(task[t].conv) /\ UNCHANGED prop
<1>1. task[t].conv \in Convs
  BY TurnOf DEF Inv, Types
<1> QED BY <1>1, Handing DEF Drain, Take, Held, Hands, Inv

LEMMA GateSteps ==
  ASSUME Inv, [Next]_vars
  PROVE  \/ \E t \in Turns : /\ Propose(t) /\ convMode[task[t].conv] = "Interactive"
                             /\ Opens(Offer(t).id)
         \/ \E t \in Turns : /\ Propose(t) /\ convMode[task[t].conv] = "Deferred"
                             /\ Defers(task[t].conv, Offer(t).id)
         \/ /\ Recall
            /\ \/ \E t \in Turns : Drain(t) /\ Hands(task[t].conv)
               \/ GateFinalize /\ \E id : Forgets(id)
               \/ ReleaseHold /\ \E id : Releases(id)
               \/ UNCHANGED <<active, deferred, hold>>
<1>1. ASSUME NEW t \in Turns, Propose(t)
      PROVE  \/ Opens(Offer(t).id) /\ convMode[task[t].conv] = "Interactive"
             \/ Defers(task[t].conv, Offer(t).id) /\ convMode[task[t].conv] = "Deferred"
             \/ UNCHANGED <<active, deferred, hold>> /\ Recall
  <2> DEFINE c == task[t].conv
             id == Offer(t).id
  <2>1. /\ active' = IF convMode[c] = "Interactive" THEN active \cup {id} ELSE active
        /\ deferred' = IF convMode[c] = "Deferred" THEN [deferred EXCEPT ![c] = Append(deferred[c], id)] ELSE deferred
        /\ hold' = hold
    BY <1>1 DEF Propose, Insert
  <2>2. c \in Convs /\ id \in Ids
    BY <1>1, NewId, TurnOf DEF Inv, Types
  <2> HIDE DEF c, id
  <2>3. convMode[c] = "Deferred" => Defers(c, id)
    BY <2>1, <2>2, Deferring DEF Defers, Inv
  <2>4. convMode[c] = "Interactive" => Opens(id)
    BY <2>1 DEF Opens
  <2>5. convMode[c] \notin {"Deferred", "Interactive"} => Recall
    <3>1. convMode[c] \in Modes
      BY <2>2 DEF Inv, Types, GateTypes
    <3> QED BY <1>1, <3>1, ProposeProp DEF Inv, Recall, Modes, c
  <2> QED BY <2>1, <2>3, <2>4, <2>5 DEF c, id
<1>2. ASSUME NEW t \in Turns, Drain(t)
      PROVE  Hands(task[t].conv) /\ UNCHANGED prop
  BY <1>2, DrainHands
<1>3. ASSUME NEW t \in Turns, StartDeferred(t) \/ Begin(t) \/ Ask(t)
      PROVE  UNCHANGED <<active, deferred, hold, prop>>
  BY <1>3 DEF StartDeferred, Begin, Ask
<1>4. RemoteVerdict => UNCHANGED <<active, deferred, hold>>
  BY DEF RemoteVerdict, Verdict
<1>5. GateFinalize => (\E id : Forgets(id)) \/ UNCHANGED <<active, deferred, hold>>
  BY DEF GateFinalize, Finalize, Forgets
<1>6. ReleaseHold => \E id : Releases(id)
  BY DEF ReleaseHold, Releases
<1>7. RemoteVerdict \/ GateFinalize \/ ReleaseHold \/ UNCHANGED prop => Recall
  BY PropSteps DEF Inv
<1> QED BY <1>1, <1>2, <1>3, <1>4, <1>5, <1>6, <1>7, GateQuiet DEF gateCore

LEMMA ApartStep ==
  ASSUME Inv, [Next]_vars
  PROVE  Apart'
<1>0. Types /\ Apart /\ Types'
  BY TypesStep DEF Inv
<1>1. \A c \in Convs : deferred[c] \in Seq(Ids)
  BY <1>0 DEF Types, GateTypes
<1>2. UNCHANGED deferred => Queued' = Queued
  BY DEF Queued
<1>3. ASSUME UNCHANGED deferred, Queued \cap (active' \cup hold') = {}, active' \cap hold' = {}
      PROVE  Apart'
  BY <1>0, <1>2, <1>3 DEF Apart
<1>4. ASSUME NEW t \in Turns, Propose(t), Opens(Offer(t).id)
      PROVE  Apart'
  BY <1>0, <1>3, <1>4, NewId DEF Opens, Apart, Known
<1>5. ASSUME NEW t \in Turns, Propose(t), Defers(task[t].conv, Offer(t).id)
      PROVE  Apart'
  <2> DEFINE c == task[t].conv
             id == Offer(t).id
  <2>1. c \in Convs /\ id \in Ids /\ id \notin Known
    BY <1>0, <1>5, NewId, TurnOf DEF Types
  <2>2. deferred' = [deferred EXCEPT ![c] = Append(deferred[c], id)] /\ deferred \in [Convs -> Seq(Ids)]
    BY <1>0, <1>5 DEF Defers, Types, GateTypes
  <2>3. \A d \in Convs : \A k \in DOMAIN deferred[d] : deferred[d][k] # id
    BY <1>0, <2>1, QueuedIs DEF Known
  <2> HIDE DEF c, id
  <2>4. \A d \in Convs : \A k : k \in DOMAIN deferred'[d] =>
          \/ k \in DOMAIN deferred[d] /\ deferred'[d][k] = deferred[d][k]
          \/ d = c /\ k = Len(deferred[c]) + 1 /\ deferred'[d][k] = id
    BY <2>1, <2>2
  <2>5. \A d, e \in Convs : \A i \in DOMAIN deferred'[d], j \in DOMAIN deferred'[e] :
          deferred'[d][i] = deferred'[e][j] => d = e /\ i = j
    BY <1>0, <2>3, <2>4 DEF Apart
  <2>6. Queued' = Queued \cup {id} /\ UNCHANGED <<active, hold>>
    BY <1>5 DEF Defers, id
  <2> QED BY <1>0, <2>1, <2>5, <2>6 DEF Apart, Known
<1>6. ASSUME NEW t \in Turns, Drain(t), Hands(task[t].conv)
      PROVE  Apart'
  <2> DEFINE c == task[t].conv
  <2>1. c \in Convs /\ deferred' = [deferred EXCEPT ![c] = <<>>] /\ deferred \in [Convs -> Seq(Ids)]
    BY <1>0, <1>6, TurnOf DEF Hands, Types, GateTypes
  <2>2. ToSet(deferred[c]) \subseteq Queued
    BY <2>1 DEF Queued
  <2> HIDE DEF c
  <2>3. \A d \in Convs : \A k : k \in DOMAIN deferred'[d] => k \in DOMAIN deferred[d] /\ deferred'[d][k] = deferred[d][k]
    BY <2>1
  <2>4. \A d, e \in Convs : \A i \in DOMAIN deferred'[d], j \in DOMAIN deferred'[e] :
          deferred'[d][i] = deferred'[e][j] => d = e /\ i = j
    BY <1>0, <2>3 DEF Apart
  <2>5. Queued' = Queued \ ToSet(deferred[c]) /\ hold' = hold \cup ToSet(deferred[c]) /\ active' = active
    BY <1>6 DEF Hands, c
  <2> QED BY <1>0, <2>2, <2>4, <2>5 DEF Apart
<1>7. ASSUME NEW id, Forgets(id)
      PROVE  Apart'
  BY <1>0, <1>3, <1>7 DEF Forgets, Apart
<1>8. ASSUME NEW id, Releases(id)
      PROVE  Apart'
  BY <1>0, <1>3, <1>8 DEF Releases, Apart
<1>9. UNCHANGED <<active, deferred, hold>> => Apart'
  BY <1>0, <1>3 DEF Apart
<1> QED BY <1>4, <1>5, <1>6, <1>7, <1>8, <1>9, GateSteps

----------------------------------------------------------------------------
(* What each step does to the lists of rows, from the drain to the host. *)

TasksKeep ==
  /\ Turns \subseteq DOMAIN task'
  /\ \A t \in DOMAIN task' : IF t \in Turns THEN task'[t].batch = task[t].batch ELSE task'[t].batch = <<>>
(* The queue moves up by d; no batch comes. *)
QueueKeeps(d) ==
  /\ d \in {0, 1}
  /\ \A j \in Batches' : j + d \in Batches /\ events'[j] = events[j + d]
  /\ \A j \in Batches : j > d => j - d \in Batches' /\ events'[j - d] = events[j]
Collects(t) ==
  /\ t \in Turns /\ task[t].batch = <<>> /\ task[t].conv \in Convs /\ DOMAIN task' = Turns
  /\ task'[t].batch = Rows(task[t].conv) /\ \A s \in Turns : s # t => task'[s].batch = task[s].batch
(* The batch of t becomes the event n. *)
Posts(t, n) ==
  /\ t \in Turns /\ DOMAIN task' = Turns
  /\ task'[t].batch = <<>> /\ \A s \in Turns : s # t => task'[s].batch = task[s].batch
  /\ n \notin Batches
  /\ \A j \in Batches' : \/ j \in Batches /\ events'[j] = events[j]
                         \/ j = n /\ events'[j].rows = task[t].batch
  /\ \A j \in Batches : j \in Batches' /\ events'[j] = events[j]
  /\ task[t].batch = <<>> \/ n \in Batches'

LEMMA BatchRows ==
  ASSUME Types
  PROVE  /\ Batches \subseteq Nat
         /\ \A j \in Batches : events[j].rows \in Seq(RowType)
         /\ \A t \in Turns : task[t].batch \in Seq(RowType)
         /\ \A i : i \in InFlight <=> \/ \E t \in Turns : i \in RowIds(task[t].batch)
                                      \/ \E j \in Batches : i \in RowIds(events[j].rows)
<1>1. \A j \in Batches : j \in Nat /\ events[j] \in EventType /\ events[j].kind = "batch"
  BY DEF Types, Batches
<1>2. \A j \in Batches : events[j].rows \in Seq(RowType)
  BY <1>1, EventKinds
<1>3. \A t \in Turns : task[t].batch \in Seq(RowType)
  BY TurnOf DEF Types
<1>4. \A i : i \in InFlight <=> \/ \E t \in Turns : i \in RowIds(task[t].batch)
                                \/ \E j \in Batches : i \in RowIds(events[j].rows)
  BY DEF InFlight, Batches
<1> QED BY <1>1, <1>2, <1>3, <1>4

LEMMA NoRows == RowIds(<<>>) = {} /\ Each(<<>>)
BY DEF RowIds, Each

LEMMA DrainCollects ==
  ASSUME Inv, NEW t \in Turns, Drain(t)
  PROVE  Collects(t) /\ UNCHANGED <<events, rows, releases>>
<1>0. TaskTypes /\ Types
  BY DEF Inv, Types
<1>1. Turned(t, "tell", task[t].cancelled, task[t].offer, Rows(task[t].conv))
  BY Drains DEF Inv
<1>2. /\ DOMAIN task' = Turns /\ task'[t].batch = Rows(task[t].conv)
      /\ \A s \in Turns : s # t => task'[s] = task[s]
  BY <1>0, <1>1, Turning
<1>3. task[t].batch = <<>> /\ task[t].conv \in Convs
  BY <1>0, TurnOf DEF Drain, Inv, Phased
<1>4. UNCHANGED <<events, rows, releases>>
  BY DEF Drain, hostVars
<1> QED BY <1>2, <1>3, <1>4 DEF Collects

LEMMA TaskLists ==
  ASSUME Inv, [Next]_vars
  PROVE  \/ TasksKeep
         \/ \E t \in Turns : Drain(t) \/ Tell(t)
<1>0. TaskTypes /\ Types
  BY DEF Inv, Types
<1>1. ASSUME NEW t, NEW p, NEW x, NEW o, Turned(t, p, x, o, task[t].batch)
      PROVE  TasksKeep
  <2>1. DOMAIN task' = Turns /\ task'[t].batch = task[t].batch /\ \A s \in Turns : s # t => task'[s] = task[s]
    BY <1>0, <1>1, Turning
  <2> QED BY <2>1 DEF TasksKeep
<1>2. ASSUME NEW t \in Turns, Turn(t)
      PROVE  TasksKeep \/ Drain(t) \/ Tell(t)
  <2>1. CASE Say(t)
    BY <2>1 DEF Say, TasksKeep, Turns
  <2> QED BY <1>0, <1>1, <1>2, <2>1, TaskSteps DEF Turn
<1>3. ASSUME NEW c \in Convs, Dispatch(c)
      PROVE  TasksKeep
  <2> DEFINE n == Len(task) + 1
  <2>1. /\ DOMAIN task' = Turns \cup {n} /\ n \notin Turns /\ task'[n].batch = <<>>
        /\ \A s \in Turns : task'[s].batch = task[s].batch
    BY <1>0, <1>3, Dispatching
  <2> QED BY <2>1 DEF TasksKeep
<1>4. ASSUME NEW c \in Convs, Cancel(c)
      PROVE  TasksKeep
  <2>1. CASE task' = task
    BY <2>1 DEF TasksKeep, Turns
  <2> QED BY <1>0, <1>1, <1>4, <2>1, Cancels
<1>5. UNCHANGED task => TasksKeep
  BY DEF TasksKeep, Turns
<1> QED BY <1>2, <1>3, <1>4, <1>5, TaskQuiet

LEMMA QueueLists ==
  ASSUME Inv, NEW d, Flows(d, PlainKinds)
  PROVE  QueueKeeps(d)
<1>1. PICK es : Flow(d, es) /\ \A k \in DOMAIN es : es[k].kind \in PlainKinds
  BY DEF Flows
<1>2. events \in Seq(EventType) /\ "batch" \notin PlainKinds
  BY DEF Inv, Types, PlainKinds
<1> QED BY <1>1, <1>2, Flowing DEF QueueKeeps, Batches

LEMMA TellPosts ==
  ASSUME Inv, NEW t \in Turns, Tell(t)
  PROVE  Posts(t, Len(events) + 1) /\ UNCHANGED <<rows, releases>>
<1> DEFINE n == Len(events) + 1
           c == task[t].conv
           full == [kind |-> "batch", conv |-> c, rows |-> task[t].batch]
           done == [kind |-> "finished", conv |-> c]
<1>0. Types /\ TaskTypes /\ events \in Seq(EventType)
  BY DEF Inv, Types
<1>1. DOMAIN task' = Turns /\ task'[t].batch = <<>> /\ \A s \in Turns : s # t => task'[s].batch = task[s].batch
  <2>1. Turned(t, "done", task[t].cancelled, task[t].offer, <<>>)
    BY <1>0, TaskSteps
  <2> QED BY <1>0, <2>1, Turning
<1>2. done.kind = "finished" /\ full.kind = "batch" /\ full.rows = task[t].batch
  OBVIOUS
<1>3. \/ task[t].batch = <<>> /\ Flow(0, <<done>>)
      \/ task[t].batch # <<>> /\ Flow(0, <<full, done>>)
  BY <1>0, TellEvents
<1> HIDE DEF full, done
<1>4. n \notin Batches /\ \A j \in Batches : j \in 1..Len(events)
  BY <1>0 DEF Batches
<1>5. /\ \A j \in Batches : j \in Batches' /\ events'[j] = events[j]
      /\ \A j \in Batches' : \/ j \in Batches /\ events'[j] = events[j]
                             \/ j = n /\ events'[j].rows = task[t].batch
      /\ task[t].batch = <<>> \/ n \in Batches'
  <2>1. CASE task[t].batch = <<>> /\ events' = events \o <<done>>
    BY <1>0, <1>2, <2>1 DEF Batches
  <2>2. CASE task[t].batch # <<>> /\ events' = events \o <<full, done>>
    <3>0. full \in EventType /\ done \in EventType
      <4>1. c \in Convs /\ task[t].batch \in Seq(RowType)
        BY <1>0, TurnOf
      <4> QED BY <4>1 DEF full, done, EventType, OfConv, Batch
    <3>1. DOMAIN events' = DOMAIN events \cup {n, n + 1} /\ events'[n] = full /\ events'[n + 1] = done
          /\ \A j \in DOMAIN events : events'[j] = events[j]
      BY <1>0, <2>2, <3>0, AppendTwo
    <3> QED BY <1>2, <3>1 DEF Batches
  <2> QED BY <1>3, <2>1, <2>2 DEF Flow
<1>6. UNCHANGED <<rows, releases>>
  BY DEF Tell, hostVars
<1> QED BY <1>1, <1>4, <1>5, <1>6 DEF Posts

(* Rows that move up the queue, are settled or released are in one place still. *)
LEMMA OnePlaceKept ==
  ASSUME Types', OnePlace, TasksKeep, NEW d, QueueKeeps(d),
         Each(rows'), Disjoint(RowIds(rows'), releases'),
         RowIds(rows') \cup releases' \subseteq RowIds(rows) \cup releases
  PROVE  OnePlace'
<1>1. \A t \in DOMAIN task' : \/ t \in Turns /\ task'[t].batch = task[t].batch
                              \/ task'[t].batch = <<>>
  BY DEF TasksKeep
<1>2. \A j \in Batches' : j + d \in Batches /\ events'[j] = events[j + d]
  BY DEF QueueKeeps
<1>3. \A j, k \in Batches' : j # k => j + d # k + d
  BY DEF QueueKeeps, Batches, Types
<1>4. \A t \in DOMAIN task' : Each(task'[t].batch) /\ Disjoint(RowIds(task'[t].batch), RowIds(rows') \cup releases')
  BY <1>1, NoRows DEF OnePlace, Disjoint
<1>5. \A j \in Batches' : Each(events'[j].rows) /\ Disjoint(RowIds(events'[j].rows), RowIds(rows') \cup releases')
  BY <1>2 DEF OnePlace, Disjoint
<1>6. \A s, t \in DOMAIN task' : s # t => Disjoint(RowIds(task'[s].batch), RowIds(task'[t].batch))
  BY <1>1, NoRows DEF OnePlace, Disjoint
<1>7. \A j, k \in Batches' : j # k => Disjoint(RowIds(events'[j].rows), RowIds(events'[k].rows))
  BY <1>2, <1>3 DEF OnePlace
<1>8. \A t \in DOMAIN task', j \in Batches' : Disjoint(RowIds(task'[t].batch), RowIds(events'[j].rows))
  BY <1>1, <1>2, NoRows DEF OnePlace, Disjoint
<1> QED BY <1>4, <1>5, <1>6, <1>7, <1>8 DEF OnePlace, Turns, Disjoint

LEMMA OnePlaceListed ==
  ASSUME Types, OnePlace, TasksKeep, QueueKeeps(1), Listed
  PROVE  OnePlace'
<1> DEFINE new == RowIds(events[1].rows)
<1>1. \A t \in DOMAIN task' : \/ t \in Turns /\ task'[t].batch = task[t].batch
                              \/ task'[t].batch = <<>>
  BY DEF TasksKeep
<1>2. \A j \in Batches' : j + 1 \in Batches /\ j + 1 # 1 /\ events'[j] = events[j + 1]
  <2>1. events \in Seq(EventType) /\ events # <<>> /\ events' = Tail(events)
    BY DEF Types, Listed, HostEvent, OnBatch, Taken
  <2>2. \A j \in Batches' : j >= 1 /\ j \in Nat
    BY <2>1 DEF Batches
  <2> QED BY <2>2 DEF QueueKeeps
<1>3. \A j, k \in Batches' : j # k => j + 1 # k + 1
  BY DEF Batches, Types, Listed, OnBatch, Taken, HostEvent
<1>4. RowIds(rows') = RowIds(rows) \cup new /\ releases' = releases /\ 1 \in Batches /\ Each(rows')
  BY DEF Listed
<1>5. /\ Disjoint(new, releases) /\ \A t \in Turns : Disjoint(RowIds(task[t].batch), new)
      /\ \A j \in Batches : j # 1 => Disjoint(RowIds(events[j].rows), new)
  BY <1>4 DEF OnePlace, Disjoint
<1> HIDE DEF new
<1>6. \A t \in DOMAIN task' : Each(task'[t].batch) /\ Disjoint(RowIds(task'[t].batch), RowIds(rows') \cup releases')
  BY <1>1, <1>4, <1>5, NoRows DEF OnePlace, Disjoint
<1>7. \A j \in Batches' : Each(events'[j].rows) /\ Disjoint(RowIds(events'[j].rows), RowIds(rows') \cup releases')
  BY <1>2, <1>4, <1>5 DEF OnePlace, Disjoint
<1>8. \A s, t \in DOMAIN task' : s # t => Disjoint(RowIds(task'[s].batch), RowIds(task'[t].batch))
  BY <1>1, NoRows DEF OnePlace, Disjoint
<1>9. \A j, k \in Batches' : j # k => Disjoint(RowIds(events'[j].rows), RowIds(events'[k].rows))
  BY <1>2, <1>3 DEF OnePlace
<1>10. \A t \in DOMAIN task', j \in Batches' : Disjoint(RowIds(task'[t].batch), RowIds(events'[j].rows))
  BY <1>1, <1>2, NoRows DEF OnePlace, Disjoint
<1>11. Disjoint(RowIds(rows'), releases')
  BY <1>4, <1>5 DEF OnePlace, Disjoint
<1> QED BY <1>4, <1>6, <1>7, <1>8, <1>9, <1>10, <1>11 DEF OnePlace, Turns, Disjoint

LEMMA OnePlacePosted ==
  ASSUME Types, OnePlace, NEW t, NEW n, Posts(t, n), UNCHANGED <<rows, releases>>
  PROVE  OnePlace'
<1> DEFINE new == RowIds(task[t].batch)
<1>1. \A s \in DOMAIN task' : /\ s \in Turns
                              /\ task'[s].batch = <<>> \/ (s # t /\ task'[s].batch = task[s].batch)
  BY DEF Posts
<1>2. \A j \in Batches' : \/ j \in Batches /\ events'[j] = events[j]
                          \/ j = n /\ n \notin Batches /\ events'[j].rows = task[t].batch
  BY DEF Posts
<1>3. t \in Turns
  BY DEF Posts
<1>4. \A s \in DOMAIN task' : Each(task'[s].batch) /\ Disjoint(RowIds(task'[s].batch), RowIds(rows') \cup releases')
  BY <1>1, NoRows DEF OnePlace, Disjoint
<1>5. \A j \in Batches' : Each(events'[j].rows) /\ Disjoint(RowIds(events'[j].rows), RowIds(rows') \cup releases')
  BY <1>2, <1>3 DEF OnePlace
<1>6. \A r, s \in DOMAIN task' : r # s => Disjoint(RowIds(task'[r].batch), RowIds(task'[s].batch))
  BY <1>1, NoRows DEF OnePlace, Disjoint
<1>7. \A j, k \in Batches' : j # k => Disjoint(RowIds(events'[j].rows), RowIds(events'[k].rows))
  BY <1>2, <1>3 DEF OnePlace, Disjoint
<1>8. \A s \in DOMAIN task', j \in Batches' : Disjoint(RowIds(task'[s].batch), RowIds(events'[j].rows))
  BY <1>1, <1>2, <1>3, NoRows DEF OnePlace, Disjoint
<1> QED BY <1>4, <1>5, <1>6, <1>7, <1>8 DEF OnePlace, Turns, Disjoint

LEMMA OnePlaceCollected ==
  ASSUME Types, Recorded, Apart, HeldIffShown, OnePlace,
         NEW t, Collects(t), UNCHANGED <<events, rows, releases>>
  PROVE  OnePlace'
<1> DEFINE c == task[t].conv
           new == ToSet(deferred[c])
<1>1. \A s \in DOMAIN task' : /\ s \in Turns
                              /\ \/ s = t /\ task'[s].batch = Rows(c)
                                 \/ s # t /\ task'[s].batch = task[s].batch
  BY DEF Collects
<1>2. c \in Convs /\ t \in Turns
  BY DEF Collects
<1>3. new \subseteq Queued
  BY <1>2 DEF Queued
<1>4. Disjoint(new, hold)
  BY <1>3 DEF Apart, Disjoint
<1>5. RowIds(Rows(c)) = new
  BY <1>2, DrainRows
<1>6. Each(Rows(c))
  <2>1. \A k, l \in DOMAIN Rows(c) : /\ Rows(c)[k].id = deferred[c][k] /\ Rows(c)[l].id = deferred[c][l]
                                     /\ k \in DOMAIN deferred[c] /\ l \in DOMAIN deferred[c]
    BY <1>2, DrainRows
  <2> QED BY <1>2, <2>1 DEF Each, Apart
<1>7. /\ Disjoint(new, RowIds(rows) \cup releases)
      /\ \A s \in Turns : Disjoint(new, RowIds(task[s].batch))
      /\ \A j \in Batches : Disjoint(new, RowIds(events[j].rows))
  BY <1>4, BatchRows DEF HeldIffShown, Disjoint
<1> HIDE DEF new, c
<1>8. \A s \in DOMAIN task' : Each(task'[s].batch) /\ Disjoint(RowIds(task'[s].batch), RowIds(rows') \cup releases')
  BY <1>1, <1>5, <1>6, <1>7 DEF OnePlace, Disjoint
<1>9. \A r, s \in DOMAIN task' : r # s => Disjoint(RowIds(task'[r].batch), RowIds(task'[s].batch))
  BY <1>1, <1>5, <1>7 DEF OnePlace, Disjoint
<1>10. Batches' = Batches /\ events' = events
  BY DEF Batches
<1>11. \A s \in DOMAIN task', j \in Batches' : Disjoint(RowIds(task'[s].batch), RowIds(events'[j].rows))
  BY <1>1, <1>5, <1>7, <1>10 DEF OnePlace, Disjoint
<1> QED BY <1>8, <1>9, <1>10, <1>11 DEF OnePlace, Turns, Disjoint

LEMMA BatchRowsNext ==
  ASSUME Types'
  PROVE  \A i : i \in InFlight' <=> \/ \E t \in DOMAIN task' : i \in RowIds(task'[t].batch)
                                    \/ \E j \in Batches' : i \in RowIds(events'[j].rows)
BY DEF InFlight, Batches, Turns

LEMMA FlightKept ==
  ASSUME Types, Types', TasksKeep, NEW d, QueueKeeps(d), d = 1 => 1 \notin Batches
  PROVE  InFlight' = InFlight
<1>1. \A i : (\E t \in DOMAIN task' : i \in RowIds(task'[t].batch)) <=> \E t \in Turns : i \in RowIds(task[t].batch)
  BY NoRows DEF TasksKeep
<1>2. \A j \in Batches : j > d
  BY DEF Batches, Types, QueueKeeps
<1>3. \A i : (\E j \in Batches' : i \in RowIds(events'[j].rows)) => \E j \in Batches : i \in RowIds(events[j].rows)
  BY DEF QueueKeeps
<1>4. \A i : (\E j \in Batches : i \in RowIds(events[j].rows)) => \E j \in Batches' : i \in RowIds(events'[j].rows)
  BY <1>2 DEF QueueKeeps
<1> QED BY <1>1, <1>3, <1>4, BatchRows, BatchRowsNext

LEMMA FlightListed ==
  ASSUME Types, Types', OnePlace, TasksKeep, QueueKeeps(1), Listed
  PROVE  InFlight' = InFlight \ RowIds(events[1].rows)
<1>1. \A i : (\E t \in DOMAIN task' : i \in RowIds(task'[t].batch)) <=> \E t \in Turns : i \in RowIds(task[t].batch)
  BY NoRows DEF TasksKeep
<1>2. 1 \in Batches /\ \A j \in Batches : j = 1 \/ j > 1
  BY DEF Batches, Types, Listed
<1>3. \A j \in Batches' : j + 1 \in Batches /\ j + 1 # 1 /\ events'[j] = events[j + 1]
  <2>1. \A j \in Batches' : j >= 1 /\ j \in Nat
    BY DEF Types, Batches
  <2> QED BY <2>1 DEF QueueKeeps
<1>4. \A i : (\E j \in Batches' : i \in RowIds(events'[j].rows)) =>
             \E j \in Batches : j # 1 /\ i \in RowIds(events[j].rows)
  BY <1>3
<1>5. \A i : (\E j \in Batches : j # 1 /\ i \in RowIds(events[j].rows)) =>
             \E j \in Batches' : i \in RowIds(events'[j].rows)
  BY <1>2 DEF QueueKeeps
<1>6. /\ \A t \in Turns : Disjoint(RowIds(task[t].batch), RowIds(events[1].rows))
      /\ \A j \in Batches : j # 1 => Disjoint(RowIds(events[j].rows), RowIds(events[1].rows))
  BY <1>2 DEF OnePlace
<1> QED BY <1>1, <1>2, <1>4, <1>5, <1>6, BatchRows, BatchRowsNext DEF Disjoint

LEMMA FlightPosted ==
  ASSUME Types, Types', NEW t, NEW n, Posts(t, n)
  PROVE  InFlight' = InFlight
<1>1. ASSUME NEW i \in InFlight
      PROVE  i \in InFlight'
  <2>1. CASE \E s \in Turns : s # t /\ i \in RowIds(task[s].batch)
    BY <2>1, BatchRowsNext DEF Posts
  <2>2. CASE i \in RowIds(task[t].batch)
    <3>1. n \in Batches' /\ n \notin Batches
      BY <2>2, NoRows DEF Posts
    <3>2. events'[n].rows = task[t].batch
      BY <3>1 DEF Posts
    <3> QED BY <2>2, <3>1, <3>2, BatchRowsNext
  <2>3. CASE \E j \in Batches : i \in RowIds(events[j].rows)
    BY <2>3, BatchRowsNext DEF Posts
  <2> QED BY <2>1, <2>2, <2>3, BatchRows
<1>2. ASSUME NEW i \in InFlight'
      PROVE  i \in InFlight
  <2>1. CASE \E s \in DOMAIN task' : i \in RowIds(task'[s].batch)
    BY <2>1, BatchRows, NoRows DEF Posts
  <2>2. CASE \E j \in Batches' : i \in RowIds(events'[j].rows)
    BY <2>2, BatchRows DEF Posts
  <2> QED BY <2>1, <2>2, BatchRowsNext
<1> QED BY <1>1, <1>2

LEMMA FlightCollected ==
  ASSUME Types, Types', Recorded, NEW t, Collects(t), UNCHANGED events
  PROVE  InFlight' = InFlight \cup ToSet(deferred[task[t].conv])
<1>1. RowIds(Rows(task[t].conv)) = ToSet(deferred[task[t].conv])
  BY DrainRows DEF Collects
<1>2. \A i : (\E s \in DOMAIN task' : i \in RowIds(task'[s].batch)) <=>
             \/ \E s \in Turns : i \in RowIds(task[s].batch)
             \/ i \in ToSet(deferred[task[t].conv])
  BY <1>1, NoRows DEF Collects
<1>3. Batches' = Batches /\ events' = events
  BY DEF Batches
<1> QED BY <1>2, <1>3, BatchRows, BatchRowsNext

(* What a step does to the lists, and to the places of the gate. *)
ListsKeep == UNCHANGED releases /\ RowIds(rows') = RowIds(rows) /\ InFlight' = InFlight
DrainMoves(t) ==
  /\ Drain(t) /\ Hands(task[t].conv) /\ UNCHANGED <<prop, releases>> /\ RowIds(rows') = RowIds(rows)
  /\ InFlight' = InFlight \cup ToSet(deferred[task[t].conv])
ListMoves ==
  /\ Listed /\ InFlight' = InFlight \ RowIds(events[1].rows)
  /\ RowIds(events[1].rows) \subseteq InFlight
SettleMoves(S) == Settles(S) /\ InFlight' = InFlight
ReleaseMoves(id) == Releases(id) /\ InFlight' = InFlight /\ Recall
GateMoves ==
  /\ ListsKeep /\ UNCHANGED hold
  /\ \/ \E t \in Turns : /\ Propose(t) /\ convMode[task[t].conv] = "Interactive"
                         /\ Opens(Offer(t).id)
     \/ \E t \in Turns : /\ Propose(t) /\ convMode[task[t].conv] = "Deferred"
                         /\ Defers(task[t].conv, Offer(t).id)
     \/ Recall /\ ((\E id : Forgets(id)) \/ UNCHANGED <<active, deferred>>)

LEMMA Places ==
  ASSUME Inv, [Next]_vars
  PROVE  /\ OnePlace'
         /\ \/ \E t \in Turns : DrainMoves(t)
            \/ ListMoves
            \/ \E S : SettleMoves(S)
            \/ \E id : ReleaseMoves(id)
            \/ GateMoves
<1>0. Types /\ Types' /\ OnePlace /\ Recorded /\ Apart /\ HeldIffShown
  BY TypesStep DEF Inv
<1>1. ASSUME NEW t \in Turns, Drain(t)
      PROVE  OnePlace' /\ DrainMoves(t)
  <2>1. Collects(t) /\ UNCHANGED <<events, rows, releases>>
    BY <1>1, DrainCollects
  <2>2. InFlight' = InFlight \cup ToSet(deferred[task[t].conv])
    BY <1>0, <2>1, FlightCollected
  <2>3. Hands(task[t].conv) /\ UNCHANGED prop
    BY <1>1, DrainHands
  <2> QED BY <1>0, <1>1, <2>1, <2>2, <2>3, OnePlaceCollected DEF DrainMoves
<1>2. ASSUME NEW t \in Turns, Tell(t)
      PROVE  OnePlace' /\ ListsKeep
  <2>1. Posts(t, Len(events) + 1) /\ UNCHANGED <<rows, releases>>
    BY <1>2, TellPosts
  <2> QED BY <1>0, <2>1, OnePlacePosted, FlightPosted DEF ListsKeep
<1>3. ASSUME TasksKeep, HostEvent, OnBatch
      PROVE  OnePlace' /\ ListMoves
  <2>1. Listed
    BY <1>0, <1>3, Listing
  <2>2. Flows(1, PlainKinds)
    <3>1. ~OnUpdated
      BY <1>3 DEF OnBatch, OnUpdated
    <3> QED BY <1>0, <1>3, <3>1, HostEvents DEF Flows
  <2>3. QueueKeeps(1)
    BY <2>2, QueueLists
  <2>4. InFlight' = InFlight \ RowIds(events[1].rows)
    BY <1>0, <1>3, <2>1, <2>3, FlightListed
  <2>5. RowIds(events[1].rows) \subseteq InFlight
    BY <1>0, <2>1, BatchRows DEF Listed
  <2> QED BY <1>0, <1>3, <2>1, <2>3, <2>4, <2>5, OnePlaceListed DEF ListMoves
<1>4. ASSUME TasksKeep, Plain, ~(HostEvent /\ OnBatch)
      PROVE  /\ OnePlace'
             /\ ListsKeep \/ (\E S : SettleMoves(S)) \/ ReleaseHold
  <2>1. PICK d : Flows(d, PlainKinds) /\ (d = 1 => events[1].kind # "batch")
    BY <1>4 DEF Plain
  <2>2. QueueKeeps(d)
    BY <2>1, QueueLists
  <2>3. InFlight' = InFlight
    BY <1>0, <1>4, <2>1, <2>2, FlightKept DEF Batches
  <2>4. CASE RowsStill
    <3>1. UNCHANGED releases /\ RowIds(rows') = RowIds(rows) /\ Each(rows')
      BY <1>0, <2>4, AlikeRows DEF RowsStill, OnePlace
    <3>2. Disjoint(RowIds(rows'), releases')
      BY <1>0, <3>1 DEF OnePlace, Disjoint
    <3> QED BY <1>0, <1>4, <2>2, <2>3, <3>1, <3>2, OnePlaceKept DEF ListsKeep
  <2>5. ASSUME NEW S, Settles(S)
        PROVE  OnePlace' /\ SettleMoves(S)
    <3>1. /\ Each(rows') /\ RowIds(rows') \cup releases' \subseteq RowIds(rows) \cup releases
          /\ Disjoint(RowIds(rows'), releases')
      BY <1>0, <2>5 DEF Settles, OnePlace, Disjoint
    <3> QED BY <1>0, <1>4, <2>2, <2>3, <2>5, <3>1, OnePlaceKept DEF SettleMoves
  <2>6. CASE ReleaseHold /\ UNCHANGED rows
    <3>1. PICK id : Releases(id)
      BY <2>6 DEF ReleaseHold, Releases
    <3>2. /\ Each(rows') /\ RowIds(rows') \cup releases' \subseteq RowIds(rows) \cup releases
          /\ Disjoint(RowIds(rows'), releases')
      BY <1>0, <2>6, <3>1 DEF Releases, OnePlace, Disjoint
    <3> QED BY <1>0, <1>4, <2>2, <2>6, <3>2, OnePlaceKept
  <2> QED BY <1>0, <1>4, <2>4, <2>5, <2>6, RowSteps DEF Listed
<1>5. ASSUME ReleaseHold
      PROVE  \E id : ReleaseMoves(id)
  <2>1. PICK id : Releases(id)
    BY <1>5 DEF ReleaseHold, Releases
  <2>2. InFlight' = InFlight
    BY <2>1 DEF Releases, InFlight, Turns
  <2> QED BY <1>0, <1>5, <2>1, <2>2, PropSteps DEF ReleaseMoves
<1>6. ASSUME ListsKeep
      PROVE  GateMoves \/ ReleaseHold \/ \E t \in Turns : Drain(t)
  BY <1>6, GateSteps DEF GateMoves, Opens, Defers, Forgets
<1>7. OnePlace' /\ (ListsKeep \/ ListMoves \/ (\E S : SettleMoves(S)) \/ ReleaseHold \/ \E t \in Turns : Drain(t))
  BY <1>1, <1>2, <1>3, <1>4, TaskLists, EventSteps, <1>0
<1> QED BY <1>1, <1>5, <1>6, <1>7

LEMMA HeldStep ==
  ASSUME Inv, [Next]_vars
  PROVE  HeldIffShown'
<1>0. hold = RowIds(rows) \cup InFlight \cup releases /\ OnePlace
  BY DEF Inv, HeldIffShown
<1>1. ASSUME NEW t \in Turns, DrainMoves(t)
      PROVE  HeldIffShown'
  BY <1>0, <1>1 DEF DrainMoves, Hands, HeldIffShown
<1>2. ListMoves => HeldIffShown'
  BY <1>0 DEF ListMoves, Listed, HeldIffShown
<1>3. ASSUME NEW S, SettleMoves(S)
      PROVE  HeldIffShown'
  BY <1>0, <1>3 DEF SettleMoves, Settles, HeldIffShown
<1>4. ASSUME NEW id, ReleaseMoves(id)
      PROVE  HeldIffShown'
  <2>1. id \notin RowIds(rows) /\ id \notin InFlight
    BY <1>0, <1>4, BatchRows DEF ReleaseMoves, Releases, OnePlace, Disjoint, Inv
  <2> QED BY <1>0, <1>4, <2>1 DEF ReleaseMoves, Releases, HeldIffShown
<1>5. GateMoves => HeldIffShown'
  BY <1>0 DEF GateMoves, ListsKeep, HeldIffShown
<1> QED BY <1>1, <1>2, <1>3, <1>4, <1>5, Places

----------------------------------------------------------------------------
(* What is recorded stays so, what is asked for is new, and what a task
   carries goes with its phase. *)

LEMMA RecordStays ==
  ASSUME Inv, [Next]_vars, NEW i \in Ids, prop[i] \in Proposal
  PROVE  prop'[i] \in Proposal
<1>1. CASE Recall
  BY <1>1 DEF Recall, Akin
<1>2. ASSUME NEW t \in Turns, Propose(t)
      PROVE  prop'[i] \in Proposal
  <2>1. i # Offer(t).id
    BY <1>2, NewId, ProposalIsSome
  <2> QED BY <1>2, <2>1, ProposeProp DEF Akin, Inv
<1> QED BY <1>1, <1>2, PropSteps DEF Inv

LEMMA RecordedStep ==
  ASSUME Inv, [Next]_vars
  PROVE  Recorded'
<1>0. Types /\ Types' /\ Recorded
  BY TypesStep DEF Inv
<1>1. \A i \in Known' : prop'[i] \in Proposal
  <2>0. Known \subseteq Ids
    BY <1>0, KnownIds
  <2>1. ASSUME NEW t \in Turns, Propose(t), convMode[task[t].conv] # "AutoAccept"
        PROVE  prop'[Offer(t).id] \in Proposal
    BY <1>0, <2>1, ProposeProp
  <2>2. ASSUME NEW t \in Turns, Propose(t), convMode[task[t].conv] = "Interactive", Opens(Offer(t).id)
        PROVE  \A i \in Known' : prop'[i] \in Proposal
    BY <1>0, <2>0, <2>1, <2>2, RecordStays DEF Opens, Known, Queued, Recorded
  <2>3. ASSUME NEW t \in Turns, Propose(t), convMode[task[t].conv] = "Deferred", Defers(task[t].conv, Offer(t).id)
        PROVE  \A i \in Known' : prop'[i] \in Proposal
    BY <1>0, <2>0, <2>1, <2>3, RecordStays DEF Defers, Known, Recorded
  <2>4. Known' \subseteq Known => \A i \in Known' : prop'[i] \in Proposal
    BY <1>0, <2>0, RecordStays DEF Recorded
  <2>5. ASSUME NEW t \in Turns, Drain(t), Hands(task[t].conv)
        PROVE  Known' \subseteq Known
    <3>1. ToSet(deferred[task[t].conv]) \subseteq Queued
      BY <1>0, TurnOf DEF Queued, Types
    <3> QED BY <2>5, <3>1 DEF Hands, Known
  <2>6. \A id : Forgets(id) \/ Releases(id) => Known' \subseteq Known
    BY DEF Forgets, Releases, Known, Queued
  <2>7. UNCHANGED <<active, deferred, hold>> => Known' \subseteq Known
    BY DEF Known, Queued
  <2> QED BY <2>2, <2>3, <2>4, <2>5, <2>6, <2>7, GateSteps
<1>2. overlay' # 0 => prop'[overlay'] \in Proposal
  <2>1. CASE overlay' \in {0, overlay}
    BY <1>0, <2>1, RecordStays DEF Recorded, Types, HostTypes
  <2>2. CASE HostEvent /\ OnCreated
    <3>1. events[1].kind = "created" /\ 1 \in DOMAIN events /\ events[1].id \in Ids
      BY <1>0, <2>2, HostEvents, EventKinds DEF OnCreated, Next1
    <3>2. overlay' \in {0, overlay, events[1].id}
      BY <1>0, <2>2, HostEvents DEF OnCreated, Next1
    <3> QED BY <1>0, <2>1, <3>1, <3>2, RecordStays DEF Recorded
  <2>3. (HostEvent /\ OnCreated) \/ overlay' \in {0, overlay}
    <3>1. ASSUME NEW t \in Turns, Turn(t)
          PROVE  overlay' = overlay
      BY <3>1 DEF Turn, StartDeferred, Begin, Ask, Read, Propose, AutoWrite, Say, Returns, SeesCancel,
                  CaptureEnds, Drain, Tell, hostVars
    <3>2. HostEvent => OnCreated \/ overlay' = overlay
      BY DEF HostEvent, OnUpdated, OnSynced, OnBatch, OnMessage, OnReview, OnFinished, hostVars
    <3>3. ASSUME NEW c \in Convs, Dispatch(c) \/ Cancel(c) \/ TurnReviewed(c)
          PROVE  overlay' = overlay
      BY <3>3 DEF Dispatch, Cancel, TurnReviewed
    <3>4. OverlayFinish \/ OverlayDismiss => overlay' = 0
      BY DEF OverlayFinish, OverlayDismiss
    <3>5. Edit \/ RemoteVerdict \/ RemoteFinish \/ BatchApply \/ BatchCancel \/ GateFinalize \/ ReleaseHold
            => overlay' = overlay
      BY DEF Edit, RemoteVerdict, RemoteFinish, BatchApply, BatchCancel, GateFinalize, ReleaseHold,
             batchRest, hostVars
    <3>6. ASSUME NEW k \in DOMAIN rows, RowAccept(k) \/ RowReject(k)
          PROVE  overlay' = overlay
      BY <3>6 DEF RowAccept, RowReject, batchRest
    <3>7. UNCHANGED vars => overlay' = overlay
      BY DEF vars, hostVars
    <3> QED BY <3>1, <3>2, <3>3, <3>4, <3>5, <3>6, <3>7 DEF Next, User
  <2> QED BY <2>1, <2>2, <2>3
<1>3. \A j \in DOMAIN events' : events'[j].kind = "created" => prop'[events'[j].id] \in Proposal
  <2>0. events \in Seq(EventType)
    BY <1>0 DEF Types
  <2>1. \A j \in DOMAIN events : events[j].kind = "created" => prop'[events[j].id] \in Proposal
    <3>1. \A j \in DOMAIN events : events[j].kind = "created" => events[j].id \in Ids
      BY <2>0, EventKinds
    <3> QED BY <1>0, <3>1, RecordStays DEF Recorded
  <2>2. ASSUME NEW d, NEW es, Flow(d, es),
               \A k \in DOMAIN es : es[k].kind = "created" => prop'[es[k].id] \in Proposal
        PROVE  \A j \in DOMAIN events' : events'[j].kind = "created" => prop'[events'[j].id] \in Proposal
    BY <2>0, <2>1, <2>2, Flowing
  <2>3. ASSUME NEW t \in Turns, Propose(t)
        PROVE  \A j \in DOMAIN events' : events'[j].kind = "created" => prop'[events'[j].id] \in Proposal
    <3>1. convMode[task[t].conv] = "Interactive" => prop'[Offer(t).id] \in Proposal
      BY <1>0, <2>3, ProposeProp
    <3> QED BY <1>0, <2>2, <2>3, <3>1, TurnEvents DEF Announces
  <2>4. ASSUME NEW d, NEW K, Flows(d, K), "created" \notin K
        PROVE  \A j \in DOMAIN events' : events'[j].kind = "created" => prop'[events'[j].id] \in Proposal
    BY <2>2, <2>4 DEF Flows
  <2> QED BY <1>0, <2>3, <2>4, EventKindSteps
<1> QED BY <1>1, <1>2, <1>3 DEF Recorded

(* Who asks after a step asked before it for the same id, or takes a new one. *)
LEMMA OfferSteps ==
  ASSUME Inv, [Next]_vars, NEW t \in DOMAIN task'
  PROVE  \/ t \notin Turns /\ task'[t].offer = Free
         \/ /\ t \in Turns
            /\ \/ task'[t].offer = task[t].offer
               \/ task'[t].offer.st \in {"free", "write"}
               \/ Read(t) /\ task'[t].offer.id = task[t].offer.id
               \/ Ask(t) /\ task'[t].offer.id = nextId
<1> DEFINE Goal == \/ t \notin Turns /\ task'[t].offer = Free
                   \/ /\ t \in Turns
                      /\ \/ task'[t].offer = task[t].offer
                         \/ task'[t].offer.st \in {"free", "write"}
                         \/ Read(t) /\ task'[t].offer.id = task[t].offer.id
                         \/ Ask(t) /\ task'[t].offer.id = nextId
<1>0. Types /\ TaskTypes /\ Free.st = "free"
  BY DEF Inv, Types, Free
<1>1. ASSUME NEW s, NEW p, NEW x, NEW o, NEW b, Turned(s, p, x, o, b)
      PROVE  t \in Turns /\ (s # t => task'[t].offer = task[t].offer) /\ (s = t => task'[t].offer = o)
  BY <1>0, <1>1, Turning
<1>2. UNCHANGED task => Goal
  BY DEF Turns
<1>3. ASSUME NEW s, NEW p, NEW x, NEW b, Turned(s, p, x, task[s].offer, b) \/ Turned(s, p, x, Free, b)
      PROVE  Goal
  BY <1>0, <1>1, <1>3
<1>4. ASSUME NEW s \in Turns, Ask(s)
      PROVE  Goal
  <2>1. PICK new \in Offers :
          Turned(s, task[s].phase, task[s].cancelled,
                 [st |-> "asked", id |-> nextId, new |-> new, peers |-> Known], task[s].batch)
    BY <1>0, <1>4, TaskSteps
  <2> DEFINE o == [st |-> "asked", id |-> nextId, new |-> new, peers |-> Known]
  <2>2. o.id = nextId /\ Turned(s, task[s].phase, task[s].cancelled, o, task[s].batch)
    BY <2>1
  <2> HIDE DEF o
  <2> QED BY <1>1, <1>4, <2>2
<1>5. ASSUME NEW s \in Turns, Read(s)
      PROVE  Goal
  <2>1. PICK o : /\ Turned(s, task[s].phase, task[s].cancelled, o, task[s].batch)
                 /\ o = Free \/ (o.st = "read" /\ o.id = task[s].offer.id)
    BY <1>0, <1>5, TaskSteps DEF Offer
  <2> QED BY <1>0, <1>1, <1>5, <2>1
<1>6. ASSUME NEW s \in Turns, Propose(s)
      PROVE  Goal
  <2>1. PICK o : /\ Turned(s, task[s].phase, task[s].cancelled, o, task[s].batch)
                 /\ o.st \in {"write", "free"}
    BY <1>0, <1>6, TaskSteps
  <2> QED BY <1>1, <2>1
<1>7. ASSUME NEW s \in Turns, Turn(s)
      PROVE  Goal
  <2>1. Say(s) => Goal
    BY <1>2 DEF Say
  <2>2. Drain(s) => Goal
    BY <1>0, <1>3, Drains DEF Inv
  <2>3. StartDeferred(s) \/ Begin(s) \/ AutoWrite(s) \/ Returns(s) \/ SeesCancel(s) \/ CaptureEnds(s) \/ Tell(s)
          => Goal
    BY <1>0, <1>3, TaskSteps
  <2> QED BY <1>4, <1>5, <1>6, <1>7, <2>1, <2>2, <2>3 DEF Turn
<1>8. ASSUME NEW c \in Convs, Dispatch(c)
      PROVE  Goal
  <2> DEFINE n == Len(task) + 1
  <2>1. /\ DOMAIN task' = Turns \cup {n} /\ n \notin Turns /\ task'[n].offer = Free
        /\ \A s \in Turns : task'[s].offer = task[s].offer
    BY <1>0, <1>8, Dispatching
  <2> QED BY <2>1
<1>9. ASSUME NEW c \in Convs, Cancel(c)
      PROVE  Goal
  BY <1>0, <1>2, <1>3, <1>9, Cancels
<1> QED BY <1>2, <1>7, <1>8, <1>9, TaskQuiet

LEMMA FreshStep ==
  ASSUME Inv, [Next]_vars
  PROVE  Fresh'
<1>0. Types /\ Types' /\ Fresh /\ TaskTypes
  BY TypesStep DEF Inv, Types
<1>1. nextId \in Nat /\ nextId' \in Nat /\ nextId <= nextId'
  <2>1. nextId \in Nat /\ nextId' \in Nat
    BY <1>0, GateAssumption DEF Types, GateTypes
  <2>2. nextId' = nextId \/ nextId' = nextId + 1
    BY GateQuiet DEF StartDeferred, Begin, Ask, Propose, Insert, Drain, RemoteVerdict, Verdict,
                     GateFinalize, Finalize, ReleaseHold, gateCore
  <2> QED BY <2>1, <2>2
<1>2. \A t \in Turns : Asking(t) => task[t].offer.id \in Ids
  BY <1>0, TurnOf, OfferKinds DEF Asking, Unread, ReadOnce
<1>3. \A i \in Ids : prop'[i] # <<>> => i < nextId'
  <2>1. CASE Recall
    BY <1>0, <1>1, <2>1 DEF Recall, Akin, Fresh, Ids, Types, GateTypes
  <2>2. ASSUME NEW t \in Turns, Propose(t)
        PROVE  \A i \in Ids : prop'[i] # <<>> => i < nextId'
    <3>1. Offer(t).id < nextId
      BY <1>0, <2>2 DEF Propose, Offer, Asking, Fresh
    <3>2. \A i \in Ids \ {Offer(t).id} : prop'[i] # <<>> => i < nextId
      BY <1>0, <2>2, ProposeProp DEF Akin, Fresh, Inv, Types, GateTypes
    <3> QED BY <1>1, <3>1, <3>2 DEF Ids
  <2> QED BY <2>1, <2>2, PropSteps DEF Inv
<1>4. \A t \in Turns : Ask(t) => nextId' = nextId + 1 /\ nextId \in Ids /\ prop' = prop /\ prop[nextId] = <<>>
  BY <1>0, <1>1 DEF Ask, Fresh
<1>5. ASSUME NEW t \in DOMAIN task', task'[t].offer.st \in {"asked", "read"}
      PROVE  /\ t \in Turns
             /\ \/ Asking(t) /\ ~Propose(t) /\ task'[t].offer.id = task[t].offer.id
                \/ Ask(t) /\ task'[t].offer.id = nextId
  <2>0. Free.st = "free"
    BY DEF Free
  <2>1. t \in Turns
    BY <1>5, <2>0, OfferSteps
  <2>2. ~Propose(t)
    <3>1. ASSUME Propose(t) PROVE FALSE
      <4>1. PICK o : /\ Turned(t, task[t].phase, task[t].cancelled, o, task[t].batch)
                     /\ o.st \in {"write", "free"}
        BY <1>0, <2>1, <3>1, TaskSteps
      <4>2. task'[t].offer = o
        BY <1>0, <4>1, Turning
      <4> QED BY <1>5, <4>1, <4>2
    <3> QED BY <3>1
  <2>3. Read(t) => Asking(t)
    BY DEF Read, Offer, Asking
  <2> QED BY <1>5, <2>0, <2>1, <2>2, <2>3, OfferSteps DEF Asking
<1>6. ASSUME NEW t \in DOMAIN task', task'[t].offer.st \in {"asked", "read"}
      PROVE  task'[t].offer.id < nextId' /\ prop'[task'[t].offer.id] = <<>>
  <2>1. CASE Ask(t) /\ task'[t].offer.id = nextId
    BY <1>1, <1>4, <1>5, <1>6, <2>1
  <2>2. CASE Asking(t) /\ ~Propose(t) /\ t \in Turns /\ task'[t].offer.id = task[t].offer.id
    <3> DEFINE i == task[t].offer.id
    <3>1. i \in Ids /\ i < nextId /\ prop[i] = <<>>
      BY <1>0, <1>2, <2>2 DEF Fresh
    <3>2. prop'[i] = <<>>
      <4>1. CASE Recall
        BY <3>1, <4>1 DEF Recall, Akin
      <4>2. ASSUME NEW s \in Turns, Propose(s)
            PROVE  prop'[i] = <<>>
        <5>1. Asking(s) /\ s # t
          BY <2>2, <4>2 DEF Propose, Offer, Asking
        <5>2. Offer(s).id # i
          BY <1>0, <2>2, <5>1 DEF Fresh, Offer
        <5> QED BY <3>1, <4>2, <5>2, ProposeProp DEF Akin, Inv
      <4> QED BY <4>1, <4>2, PropSteps DEF Inv
    <3> QED BY <1>1, <2>2, <3>1, <3>2 DEF Ids
  <2> QED BY <1>5, <1>6, <2>1, <2>2
<1>7. ASSUME NEW s \in DOMAIN task', NEW t \in DOMAIN task',
             task'[s].offer.st \in {"asked", "read"}, task'[t].offer.st \in {"asked", "read"},
             task'[s].offer.id = task'[t].offer.id
      PROVE  s = t
  <2>1. \A r \in Turns : Asking(r) => task[r].offer.id # nextId
    BY <1>0, <1>1, <1>2 DEF Fresh, Ids
  <2>2. Ask(s) /\ Ask(t) => s = t
    <3>1. ASSUME Ask(s), Ask(t), s # t PROVE FALSE
      <4>1. s \in Turns /\ t \in Turns
        BY <1>5, <1>7
      <4>2. PICK new \in Offers :
              Turned(s, task[s].phase, task[s].cancelled,
                     [st |-> "asked", id |-> nextId, new |-> new, peers |-> Known], task[s].batch)
        BY <1>0, <3>1, <4>1, TaskSteps
      <4>3. task'[t] = task[t]
        BY <1>0, <3>1, <4>1, <4>2, Turning
      <4>4. task[t].offer = Free
        BY <3>1 DEF Ask, Offer
      <4> QED BY <1>7, <4>3, <4>4 DEF Free
    <3> QED BY <3>1
  <2> QED BY <1>0, <1>5, <1>7, <2>1, <2>2 DEF Fresh
<1> QED BY <1>3, <1>6, <1>7 DEF Fresh, Asking, Turns

LEMMA PhasedStep ==
  ASSUME Inv, [Next]_vars
  PROVE  Phased'
<1>0. Types /\ TaskTypes /\ Phased /\ Recorded
  BY DEF Inv, Types
<1>1. ASSUME NEW s, NEW p, NEW x, NEW o, NEW b, Turned(s, p, x, o, b),
             o # Free => p = "send", b # <<>> => p = "tell"
      PROVE  Phased'
  <2>1. /\ DOMAIN task' = Turns /\ s \in Turns /\ \A t \in Turns : t # s => task'[t] = task[t]
        /\ task'[s].phase = p /\ task'[s].offer = o /\ task'[s].batch = b
    <3>1. s \in Turns
      BY <1>1 DEF Turned
    <3> QED BY <1>0, <1>1, <3>1, Turning
  <2> QED BY <1>0, <1>1, <2>1 DEF Phased, Turns
<1>2. UNCHANGED task => Phased'
  BY <1>0 DEF Phased, Turns
<1>3. \A s \in Turns : /\ task[s].phase # "send" => task[s].offer = Free
                       /\ task[s].phase # "tell" => task[s].batch = <<>>
  BY <1>0 DEF Phased
<1>4. ASSUME NEW s \in Turns, StartDeferred(s) \/ Begin(s)
      PROVE  Phased'
  <2>1. task[s].phase \in {"spawned", "begin"}
    BY <1>4 DEF StartDeferred, Begin
  <2>2. task[s].offer = Free /\ task[s].batch = <<>>
    BY <1>3, <2>1
  <2> QED BY <1>0, <1>1, <1>4, <2>2, TaskSteps
<1>5. ASSUME NEW s \in Turns, Ask(s) \/ Read(s) \/ Propose(s) \/ AutoWrite(s)
      PROVE  Phased'
  <2>1. task[s].phase = "send"
    <3>1. Ask(s) => task[s].phase = "send"
      BY DEF Ask
    <3>2. ~Ask(s) => task[s].offer # Free
      BY <1>5 DEF Read, Propose, AutoWrite, Offer, Free
    <3> QED BY <1>3, <3>1, <3>2
  <2>2. task[s].batch = <<>>
    BY <1>3, <2>1
  <2> QED BY <1>0, <1>1, <1>5, <2>1, <2>2, TaskSteps
<1>6. ASSUME NEW s \in Turns, Returns(s) \/ SeesCancel(s) \/ CaptureEnds(s)
      PROVE  Phased'
  <2>1. task[s].phase \in {"send", "closing"} /\ (~SeesCancel(s) => task[s].offer = Free)
    BY <1>3, <1>6 DEF Returns, SeesCancel, CaptureEnds, Offer
  <2>2. task[s].batch = <<>>
    BY <1>3, <2>1
  <2> QED BY <1>0, <1>1, <1>6, <2>1, <2>2, TaskSteps
<1>7. ASSUME NEW s \in Turns, Drain(s) \/ Tell(s)
      PROVE  Phased'
  <2>1. task[s].phase \in {"drain", "tell"}
    BY <1>7 DEF Drain, Tell
  <2>2. task[s].offer = Free
    BY <1>3, <2>1
  <2>3. Drain(s) => Phased'
    BY <1>0, <1>1, <2>2, Drains
  <2>4. Tell(s) => Phased'
    BY <1>0, <1>1, <2>2, TaskSteps
  <2> QED BY <1>7, <2>3, <2>4
<1>8. ASSUME NEW c \in Convs, Dispatch(c)
      PROVE  Phased'
  <2> DEFINE n == Len(task) + 1
  <2>1. /\ DOMAIN task' = Turns \cup {n} /\ n \notin Turns /\ task'[n].offer = Free /\ task'[n].batch = <<>>
        /\ \A s \in Turns : /\ task'[s].offer = task[s].offer /\ task'[s].batch = task[s].batch
                            /\ task'[s].phase = task[s].phase
    BY <1>0, <1>8, Dispatching
  <2> HIDE DEF n
  <2> QED BY <1>0, <2>1 DEF Phased, Turns
<1>9. ASSUME NEW c \in Convs, Cancel(c)
      PROVE  Phased'
  <2> DEFINE t == handle[c]
  <2>1. t \in Turns
    BY <1>0, <1>9, Cancels
  <2>2. Turned(t, task[t].phase, TRUE, task[t].offer, task[t].batch) => Phased'
    BY <1>1, <1>3, <2>1
  <2>3. task[t].phase \notin {"tell", "done"} /\ Turned(t, "aborted", task[t].cancelled, Free, task[t].batch) => Phased'
    BY <1>1, <1>3, <2>1
  <2> QED BY <1>0, <1>2, <1>9, <2>2, <2>3, Cancels
<1>10. \A s \in Turns : Say(s) => Phased'
  BY <1>2 DEF Say
<1> QED BY <1>2, <1>4, <1>5, <1>6, <1>7, <1>8, <1>9, <1>10, TaskQuiet DEF Turn

LEMMA InitInv == ASSUME Init PROVE Inv
<1>1. task = <<>> /\ events = <<>> /\ rows = <<>> /\ Turns = {} /\ Batches = {} /\ RowIds(rows) = {}
  BY DEF Init, GateInit, Turns, Batches, RowIds
<1>2. Queued = {} /\ Known = {} /\ InFlight = {}
  <2>1. Queued = {}
    BY DEF Init, GateInit, Queued, ToSet
  <2> QED BY <1>1, <2>1 DEF Init, GateInit, Known, InFlight
<1>3. GateTypes
  BY GateAssumption DEF Init, GateInit, GateTypes, Modes
<1>4. TaskTypes
  BY <1>1, TurnAssumption DEF Init, TaskTypes
<1>5. HostTypes
  BY <1>1 DEF Init, HostTypes
<1>6. Types
  BY <1>1, <1>3, <1>4, <1>5 DEF Types
<1>7. Recorded /\ Phased /\ HeldIffShown
  BY <1>1, <1>2 DEF Init, GateInit, Recorded, Phased, HeldIffShown
<1>8. Fresh
  BY <1>1 DEF Init, GateInit, Fresh
<1>9. OnePlace
  BY <1>1, NoRows DEF Init, OnePlace, Disjoint
<1>10. Apart
  BY <1>2 DEF Init, GateInit, Apart
<1> QED BY <1>6, <1>7, <1>8, <1>9, <1>10 DEF Inv

LEMMA NextInv == ASSUME Inv, [Next]_vars PROVE Inv'
BY TypesStep, RecordedStep, FreshStep, PhasedStep, Places, ApartStep, HeldStep DEF Inv

LEMMA Inductive == Spec => []Inv
<1> QED BY InitInv, NextInv, PTL DEF Spec

LEMMA InvTypes == ASSUME Inv PROVE TypeOK
<1>1. Types /\ Apart /\ GateTypes /\ TaskTypes /\ HostTypes
  BY DEF Inv, Types
<1>2. ToSet(rows) \subseteq RowType
  BY <1>1 DEF HostTypes, ToSet
<1>3. \A t \in Turns : task[t].conv \in Convs /\ task[t].phase \in Phases /\ ToSet(task[t].batch) \subseteq RowType
  BY <1>1, TurnOf DEF ToSet
<1>4. handle \in [Convs -> 0..MaxTurns]
  <2>1. Len(task) \in Nat /\ Len(task) <= MaxTurns /\ MaxTurns \in Nat
    BY <1>1, TurnAssumption DEF TaskTypes
  <2>2. \A c \in Convs : handle[c] \in 0..MaxTurns
    BY <1>1, <2>1 DEF TaskTypes
  <2> QED BY <1>1, <2>2 DEF TaskTypes
<1> QED BY <1>1, <1>2, <1>3, <1>4 DEF GateTypes, TaskTypes, HostTypes, TypeOK

(* Every state of the gate, the tasks and the host has its type, and a proposal
   is in one place of the gate at a time (write_gate.rs:325). *)
THEOREM TypeCorrect == Spec => []TypeOK
BY Inductive, InvTypes, PTL

(* What the gate holds as under review is what the host lists, is about to list
   or is about to release (write_gate.rs:55, review.rs:578). *)
THEOREM HeldIsShown == Spec => []HeldIffShown
<1>1. Inv => HeldIffShown
  BY DEF Inv
<1> QED BY <1>1, Inductive, PTL

----------------------------------------------------------------------------
(* The review inbox the user is promised, step by step. *)

Given == {i \in Ids : prop[i] # <<>>}

LEMMA Inboxed ==
  ASSUME Inv
  PROVE  /\ Waiting \subseteq Given /\ Shown \subseteq Given /\ Disjoint(Waiting, Shown)
         /\ Disjoint(InFlight, RowIds(rows)) /\ Disjoint(active, RowIds(rows))
         /\ Disjoint(Queued, InFlight \cup active \cup RowIds(rows))
<1>1. Types /\ Recorded /\ OnePlace /\ Apart /\ HeldIffShown
  BY DEF Inv
<1>2. Known \subseteq Given
  BY <1>1, KnownIds, ProposalIsSome DEF Recorded, Given
<1>3. Disjoint(InFlight, RowIds(rows))
  BY <1>1, BatchRows DEF OnePlace, Disjoint
<1>4. Waiting \cup Shown \subseteq Known
  BY <1>1 DEF Waiting, Shown, Known, HeldIffShown
<1>5. Disjoint(active, RowIds(rows)) /\ Disjoint(active, InFlight) /\ Disjoint(Queued, InFlight \cup active \cup RowIds(rows))
  BY <1>1 DEF Apart, HeldIffShown, Disjoint
<1>6. Disjoint(Waiting, Shown)
  BY <1>3, <1>5 DEF Waiting, Shown, Disjoint
<1> QED BY <1>2, <1>3, <1>4, <1>5, <1>6

LEMMA GivenKept ==
  ASSUME Types, Recall \/ UNCHANGED prop
  PROVE  Given' = Given
<1>1. \A i \in Ids : prop[i] = <<>> \/ prop[i] \in Proposal
  BY DEF Types, GateTypes
<1>2. \A i \in Ids : prop'[i] # <<>> <=> prop[i] # <<>>
  BY <1>1, ProposalIsSome DEF Recall, Akin
<1> QED BY <1>2 DEF Given, Ids

LEMMA GivenGrows ==
  ASSUME Inv, NEW t \in Turns, Propose(t), convMode[task[t].conv] # "AutoAccept"
  PROVE  /\ Given' = Given \cup {Offer(t).id} /\ Offer(t).id \notin Given /\ Offer(t).id \in Ids
<1> DEFINE id == Offer(t).id
<1>1. Types /\ Recorded /\ id \in Ids /\ prop[id] = <<>>
  BY NewId DEF Inv
<1>2. prop'[id] \in Proposal /\ \A i \in Ids \ {id} : Akin(i)
  BY <1>1, ProposeProp
<1>3. \A i \in Ids : prop[i] = <<>> \/ prop[i] \in Proposal
  BY <1>1 DEF Types, GateTypes
<1>4. \A i \in Ids : prop'[i] # <<>> <=> prop[i] # <<>> \/ i = id
  BY <1>2, <1>3, ProposalIsSome DEF Akin
<1>5. Given' = Given \cup {id} /\ id \notin Given
  BY <1>1, <1>4 DEF Given, Ids
<1> QED BY <1>1, <1>5

LEMMA InboxStep ==
  ASSUME Inv, [Next]_vars
  PROVE  [Inbox!Next]_(Inbox!inbox)
<1>0. Types
  BY DEF Inv
<1>1. /\ Waiting \subseteq Given /\ Shown \subseteq Given /\ Waiting \cap Shown = {}
      /\ InFlight \cap RowIds(rows) = {} /\ active \cap RowIds(rows) = {}
      /\ Queued \cap (InFlight \cup active \cup RowIds(rows)) = {}
  BY Inboxed DEF Disjoint
<1>2. Closed = Given \ (Waiting \cup Shown) /\ Closed' = Given' \ (Waiting' \cup Shown')
  BY DEF Closed, Given
<1>3. ASSUME Waiting' = Waiting, Shown' = Shown, Given' = Given
      PROVE  UNCHANGED Inbox!inbox
  BY <1>2, <1>3 DEF Inbox!inbox
<1>4. ASSUME NEW S, S \subseteq Shown, Waiting' = Waiting, Shown' = Shown \ S, Given' = Given
      PROVE  Inbox!Next
  <2>1. Closed' = Closed \cup S
    BY <1>1, <1>2, <1>4
  <2>2. Inbox!Close(S)
    BY <1>4, <2>1 DEF Inbox!Close
  <2> QED BY <1>4, <2>2 DEF Inbox!Next
<1>5. ASSUME NEW S, S \subseteq Waiting, Waiting' = Waiting \ S, Shown' = Shown \cup S, Given' = Given
      PROVE  Inbox!Next
  <2>1. Closed' = Closed
    BY <1>1, <1>2, <1>5
  <2>2. Inbox!Show(S)
    BY <1>5, <2>1 DEF Inbox!Show
  <2> QED BY <1>5, <2>2 DEF Inbox!Next
<1>6. ASSUME NEW i \in Ids, i \notin Given, Given' = Given \cup {i},
             \/ Waiting' = Waiting \cup {i} /\ Shown' = Shown
             \/ Shown' = Shown \cup {i} /\ Waiting' = Waiting
      PROVE  Inbox!Next
  <2>1. Closed' = Closed /\ i \notin Waiting \cup Shown \cup Closed
    BY <1>1, <1>2, <1>6
  <2>2. Inbox!Submit(i)
    BY <1>6, <2>1 DEF Inbox!Submit
  <2> QED BY <2>2 DEF Inbox!Next
<1>7. UNCHANGED deferred => Queued' = Queued
  BY DEF Queued
<1>8. ASSUME NEW t \in Turns, DrainMoves(t)
      PROVE  UNCHANGED Inbox!inbox
  <2> DEFINE D == ToSet(deferred[task[t].conv])
  <2>1. /\ Queued' = Queued \ D /\ UNCHANGED active /\ RowIds(rows') = RowIds(rows)
        /\ InFlight' = InFlight \cup D /\ UNCHANGED prop
    BY <1>8 DEF DrainMoves, Hands
  <2>2. D \subseteq Queued
    BY <1>0, TurnOf DEF Types, Queued
  <2> HIDE DEF D
  <2>3. Waiting' = Waiting /\ Shown' = Shown
    BY <1>1, <2>1, <2>2 DEF Waiting, Shown
  <2> QED BY <1>0, <1>3, <2>1, <2>3, GivenKept
<1>9. ASSUME ListMoves
      PROVE  Inbox!Next
  <2> DEFINE L == RowIds(events[1].rows)
  <2>1. /\ RowIds(rows') = RowIds(rows) \cup L /\ InFlight' = InFlight \ L /\ L \subseteq InFlight
        /\ UNCHANGED <<active, deferred, prop>>
    BY <1>9 DEF ListMoves, Listed
  <2> HIDE DEF L
  <2>2. L \subseteq Waiting /\ Waiting' = Waiting \ L /\ Shown' = Shown \cup L
    BY <1>1, <1>7, <2>1 DEF Waiting, Shown
  <2> QED BY <1>0, <1>5, <2>1, <2>2, GivenKept
<1>10. ASSUME NEW S, SettleMoves(S)
       PROVE  Inbox!Next
  <2>1. /\ S \subseteq RowIds(rows) /\ RowIds(rows') = RowIds(rows) \ S /\ InFlight' = InFlight
        /\ UNCHANGED <<active, deferred, prop>>
    BY <1>10 DEF SettleMoves, Settles
  <2>2. S \subseteq Shown /\ Waiting' = Waiting /\ Shown' = Shown \ S
    BY <1>1, <1>7, <2>1 DEF Waiting, Shown
  <2> QED BY <1>0, <1>4, <2>1, <2>2, GivenKept
<1>11. ASSUME NEW id, ReleaseMoves(id)
       PROVE  UNCHANGED Inbox!inbox
  <2>1. Waiting' = Waiting /\ Shown' = Shown
    BY <1>7, <1>11 DEF ReleaseMoves, Releases, Waiting, Shown
  <2> QED BY <1>0, <1>3, <1>11, <2>1, GivenKept DEF ReleaseMoves
<1>12. ASSUME GateMoves
       PROVE  Inbox!Next \/ UNCHANGED Inbox!inbox
  <2>1. RowIds(rows') = RowIds(rows) /\ InFlight' = InFlight
    BY <1>12 DEF GateMoves, ListsKeep
  <2>2. ASSUME NEW t \in Turns, Propose(t), convMode[task[t].conv] = "Interactive", Opens(Offer(t).id)
        PROVE  Inbox!Next
    <3>1. Waiting' = Waiting /\ Shown' = Shown \cup {Offer(t).id}
      BY <1>7, <2>1, <2>2 DEF Opens, Waiting, Shown
    <3> QED BY <1>6, <2>2, <3>1, GivenGrows
  <2>3. ASSUME NEW t \in Turns, Propose(t), convMode[task[t].conv] = "Deferred", Defers(task[t].conv, Offer(t).id)
        PROVE  Inbox!Next
    <3>1. Waiting' = Waiting \cup {Offer(t).id} /\ Shown' = Shown
      BY <2>1, <2>3 DEF Defers, Waiting, Shown
    <3> QED BY <1>6, <2>3, <3>1, GivenGrows
  <2>4. ASSUME Recall, NEW id, Forgets(id)
        PROVE  Inbox!Next
    <3>1. {id} \subseteq Shown /\ Waiting' = Waiting /\ Shown' = Shown \ {id}
      BY <1>1, <1>7, <2>1, <2>4 DEF Forgets, Waiting, Shown
    <3> QED BY <1>0, <1>4, <2>4, <3>1, GivenKept
  <2>5. ASSUME Recall, UNCHANGED <<active, deferred>>
        PROVE  UNCHANGED Inbox!inbox
    <3>1. Waiting' = Waiting /\ Shown' = Shown
      BY <1>7, <2>1, <2>5 DEF Waiting, Shown
    <3> QED BY <1>0, <1>3, <2>5, <3>1, GivenKept
  <2> QED BY <1>12, <2>2, <2>3, <2>4, <2>5 DEF GateMoves
<1> QED BY <1>8, <1>9, <1>10, <1>11, <1>12, Places

(* Every proposal waits or is shown, is shown before it is settled and settled
   at most once: the gate and the host implement the inbox the user is promised
   (write_gate.rs:325, review.rs:446). *)
THEOREM ImplementsInbox == Spec => InboxSpec
<1>1. Init => Inbox!Init
  <2> SUFFICES ASSUME Init PROVE Inbox!Init
    OBVIOUS
  <2>1. RowIds(rows) = {} /\ InFlight = {} /\ Queued = {}
    <3>1. Queued = {}
      BY DEF Init, GateInit, Queued, ToSet
    <3> QED BY <3>1 DEF Init, GateInit, RowIds, InFlight, Turns
  <2>2. active = {} /\ \A i \in Ids : prop[i] = <<>>
    BY DEF Init, GateInit
  <2> QED BY <2>1, <2>2 DEF Inbox!Init, Waiting, Shown, Closed
<1> QED BY <1>1, Inductive, InboxStep, PTL DEF Spec, InboxSpec, Inbox!Spec

----------------------------------------------------------------------------
(* How a turn goes from phase to phase. *)

Leads(t, p) ==
  \/ p = task[t].phase
  \/ StartDeferred(t) /\ p = "begin"
  \/ Begin(t) /\ p = "send"
  \/ task[t].phase \in {"send", "closing"} /\ p \in {"closing", "drain"}
  \/ Drain(t) /\ p = "tell"
  \/ Tell(t) /\ p = "done"
  \/ task[t].phase \notin {"tell", "done"} /\ p = "aborted"

LEMMA TurnMoves ==
  ASSUME Types, Recorded, [Next]_vars
  PROVE  \/ \E t \in Turns : \E p, x, o, b : Turned(t, p, x, o, b) /\ (task[t].cancelled => x) /\ Leads(t, p)
         \/ UNCHANGED task
         \/ \E c \in Convs : Dispatch(c)
<1> DEFINE Goes == \E t \in Turns : \E p, x, o, b : Turned(t, p, x, o, b) /\ (task[t].cancelled => x) /\ Leads(t, p)
<1>1. ASSUME NEW t \in Turns, Turn(t)
      PROVE  Goes \/ UNCHANGED task
  <2>1. Leads(t, task[t].phase)
    BY DEF Leads
  <2>2. ASSUME Ask(t) \/ Read(t) \/ Propose(t) \/ AutoWrite(t)
        PROVE  \E o : Turned(t, task[t].phase, task[t].cancelled, o, task[t].batch)
    BY <2>2, TaskSteps
  <2>3. StartDeferred(t) => Goes
    <3> SUFFICES ASSUME StartDeferred(t) PROVE Goes
      OBVIOUS
    <3>1. Leads(t, "begin") /\ Turned(t, "begin", task[t].cancelled, task[t].offer, task[t].batch)
      BY TaskSteps DEF Leads
    <3> QED BY <3>1
  <2>4. Begin(t) => Goes
    <3> SUFFICES ASSUME Begin(t) PROVE Goes
      OBVIOUS
    <3>1. Leads(t, "send") /\ Turned(t, "send", task[t].cancelled, task[t].offer, task[t].batch)
      BY TaskSteps DEF Leads
    <3> QED BY <3>1
  <2>5. ASSUME Returns(t) \/ SeesCancel(t)
        PROVE  Goes
    <3>1. Leads(t, "closing") /\ \E o : Turned(t, "closing", task[t].cancelled, o, task[t].batch)
      BY <2>5, TaskSteps DEF Leads, Returns, SeesCancel
    <3> QED BY <3>1
  <2>6. ASSUME CaptureEnds(t)
        PROVE  Goes
    <3>1. Leads(t, "drain") /\ Turned(t, "drain", task[t].cancelled, task[t].offer, task[t].batch)
      BY <2>6, TaskSteps DEF Leads, CaptureEnds
    <3> QED BY <3>1
  <2>7. ASSUME Drain(t)
        PROVE  Goes
    <3>1. Leads(t, "tell") /\ Turned(t, "tell", task[t].cancelled, task[t].offer, Rows(task[t].conv))
      BY <2>7, Drains DEF Leads
    <3> QED BY <3>1
  <2>8. ASSUME Tell(t)
        PROVE  Goes
    <3>1. Leads(t, "done") /\ Turned(t, "done", task[t].cancelled, task[t].offer, <<>>)
      BY <2>8, TaskSteps DEF Leads
    <3> QED BY <3>1
  <2>9. Say(t) => UNCHANGED task
    BY DEF Say
  <2> QED BY <1>1, <2>1, <2>2, <2>3, <2>4, <2>5, <2>6, <2>7, <2>8, <2>9 DEF Turn
<1>2. ASSUME NEW c \in Convs, Cancel(c)
      PROVE  Goes \/ UNCHANGED task
  <2> DEFINE t == handle[c]
  <2>1. t \in Turns /\ Leads(t, task[t].phase)
    BY <1>2, Cancels DEF Leads
  <2>2. Turned(t, task[t].phase, TRUE, task[t].offer, task[t].batch) => Goes
    BY <2>1
  <2>3. task[t].phase \notin {"tell", "done"} => Leads(t, "aborted")
    BY DEF Leads
  <2>4. /\ task[t].phase \notin {"tell", "done"}
        /\ Turned(t, "aborted", task[t].cancelled, Free, task[t].batch)
        => Goes
    BY <2>1, <2>3
  <2> QED BY <1>2, <2>2, <2>4, Cancels
<1> QED BY <1>1, <1>2, TaskQuiet

LEMMA OldTurns ==
  ASSUME Types, Recorded, [Next]_vars, NEW t \in Turns
  PROVE  /\ t \in DOMAIN task' /\ task'[t].conv = task[t].conv
         /\ task'[t].alone => task[t].alone
         /\ task[t].cancelled => task'[t].cancelled
         /\ Leads(t, task'[t].phase)
<1>0. TaskTypes /\ t \in Nat /\ Leads(t, task[t].phase)
  BY TurnOf DEF Types, Leads
<1>1. ASSUME NEW s \in Turns, NEW p, NEW x, NEW o, NEW b,
             Turned(s, p, x, o, b), task[s].cancelled => x, Leads(s, p)
      PROVE  /\ t \in DOMAIN task' /\ task'[t].conv = task[t].conv
             /\ task'[t].alone = task[t].alone /\ (task[t].cancelled => task'[t].cancelled)
             /\ Leads(t, task'[t].phase)
  <2>1. CASE s = t
    BY <1>0, <1>1, <2>1, Turning
  <2>2. CASE s # t
    BY <1>0, <1>1, <2>2, Turning
  <2> QED BY <2>1, <2>2
<1>2. ASSUME NEW c \in Convs, Dispatch(c)
      PROVE  /\ t \in DOMAIN task' /\ task'[t].conv = task[t].conv
             /\ (task'[t].alone => task[t].alone) /\ (task[t].cancelled => task'[t].cancelled)
             /\ Leads(t, task'[t].phase)
  BY <1>0, <1>2, Dispatching
<1>3. CASE UNCHANGED task
  BY <1>0, <1>3 DEF Turns
<1> QED BY <1>1, <1>2, <1>3, TurnMoves

LEMMA NewTurns ==
  ASSUME Types, Recorded, [Next]_vars, NEW t \in DOMAIN task', t \notin Turns
  PROVE  \E c \in Convs : Dispatch(c) /\ t = Len(task) + 1
<1>1. \A s \in Turns : \A p, x, o, b : Turned(s, p, x, o, b) => DOMAIN task' = Turns
  BY Turning DEF Types
<1>2. ASSUME NEW c \in Convs, Dispatch(c)
      PROVE  t = Len(task) + 1
  <2>1. DOMAIN task' = Turns \cup {Len(task) + 1}
    BY <1>2, Dispatching
  <2> QED BY <2>1
<1> QED BY <1>1, <1>2, TurnMoves DEF Turns

LEMMA ModeSteps ==
  ASSUME [Next]_vars
  PROVE  \/ UNCHANGED convMode
         \/ \E t \in Turns : /\ StartDeferred(t) \/ Begin(t)
                             /\ \E m \in {"Deferred", "AutoAccept"} : convMode' = [convMode EXCEPT ![task[t].conv] = m]
         \/ \E t \in Turns : Drain(t) /\ convMode' = [convMode EXCEPT ![task[t].conv] = "Interactive"]
<1>1. ASSUME NEW t \in Turns, StartDeferred(t) \/ Begin(t)
      PROVE  \/ UNCHANGED convMode
             \/ \E m \in {"Deferred", "AutoAccept"} : convMode' = [convMode EXCEPT ![task[t].conv] = m]
  BY <1>1 DEF StartDeferred, Begin, SetMode
<1>2. ASSUME NEW t \in Turns, Drain(t)
      PROVE  convMode' = [convMode EXCEPT ![task[t].conv] = "Interactive"]
  BY <1>2 DEF Drain, Take
<1>3. ASSUME NEW t \in Turns, Ask(t) \/ Propose(t)
      PROVE  UNCHANGED convMode
  BY <1>3 DEF Ask, Propose, Insert
<1>4. RemoteVerdict \/ GateFinalize \/ ReleaseHold => UNCHANGED convMode
  BY DEF RemoteVerdict, Verdict, GateFinalize, Finalize, ReleaseHold
<1>5. UNCHANGED gateCore => UNCHANGED convMode
  BY DEF gateCore
<1> QED BY <1>1, <1>2, <1>3, <1>4, <1>5, GateQuiet

----------------------------------------------------------------------------
(* Whose a proposal is, and what a turn alone in its conversation may rely on. *)

(* A proposal is of a turn of its conversation; only its conversation has it
   deferred. *)
Origin ==
  /\ \A i \in Ids : prop[i] \in Proposal => prop[i].turn \in Turns /\ task[prop[i].turn].conv = prop[i].conv
  /\ \A c \in Convs : \A k \in DOMAIN deferred[c] : prop[deferred[c][k]].conv = c

(* A turn that is alone: no other is on its way, no other resets its override,
   and nobody has told the host that it is over. *)
ByItself == \A s, t \in Turns : task[t].alone /\ s # t /\ task[s].conv = task[t].conv => ~Active(s)
Overridden ==
  \A t \in Turns : task[t].alone /\ task[t].phase \in {"begin", "send", "closing", "drain"} =>
                     convMode[task[t].conv] # "Interactive"
Over(e, c) == e.kind = "finished" /\ e.conv = c
NotOver == \A t \in Turns : task[t].alone /\ Active(t) => \A j \in DOMAIN events : ~Over(events[j], task[t].conv)

Owned == Origin /\ EndedTurnsDrained
Lone == ByItself /\ Overridden /\ NotOver /\ CancelReaches /\ NoSurpriseModal

(* A proposal the gate knows after a step it knew before, or its turn proposed it. *)
LEMMA PropOrigin ==
  ASSUME Inv, [Next]_vars, NEW i \in Ids, prop'[i] \in Proposal
  PROVE  \/ prop[i] \in Proposal /\ prop'[i].turn = prop[i].turn /\ prop'[i].conv = prop[i].conv
         \/ \E t \in Turns : /\ Propose(t) /\ i = Offer(t).id
                             /\ prop'[i].turn = t /\ prop'[i].conv = task[t].conv
<1>0. Types /\ Recorded /\ HeldIffShown
  BY DEF Inv
<1>1. prop[i] = <<>> \/ prop[i] \in Proposal
  BY <1>0 DEF Types, GateTypes
<1>2. Akin(i) => prop[i] \in Proposal /\ prop'[i].turn = prop[i].turn /\ prop'[i].conv = prop[i].conv
  BY <1>1, ProposalIsSome DEF Akin
<1>3. ASSUME NEW t \in Turns, Propose(t), ~Akin(i)
      PROVE  i = Offer(t).id /\ prop'[i].turn = t /\ prop'[i].conv = task[t].conv
  BY <1>0, <1>3, ProposeProp
<1>4. Recall => Akin(i)
  BY DEF Recall
<1> QED BY <1>0, <1>2, <1>3, <1>4, PropSteps

LEMMA KeptOrigin ==
  ASSUME Inv, [Next]_vars, NEW i \in Ids, prop[i] \in Proposal
  PROVE  prop'[i] \in Proposal /\ prop'[i].turn = prop[i].turn /\ prop'[i].conv = prop[i].conv
<1>0. Types /\ Recorded /\ HeldIffShown
  BY DEF Inv
<1>1. Akin(i) => prop'[i] \in Proposal /\ prop'[i].turn = prop[i].turn /\ prop'[i].conv = prop[i].conv
  BY DEF Akin
<1>2. ASSUME NEW t \in Turns, Propose(t)
      PROVE  Akin(i)
  <2>1. i # Offer(t).id
    BY <1>2, NewId, ProposalIsSome
  <2> QED BY <1>0, <1>2, <2>1, ProposeProp
<1>3. Recall => Akin(i)
  BY DEF Recall
<1> QED BY <1>0, <1>1, <1>2, <1>3, PropSteps

LEMMA ProposesDeferred ==
  ASSUME Inv, NEW t \in Turns, Propose(t), convMode[task[t].conv] # "AutoAccept"
  PROVE  LET i == Offer(t).id
         IN i \in Ids /\ prop'[i] \in Proposal /\ prop'[i].turn = t /\ prop'[i].conv = task[t].conv
<1>1. Types /\ Recorded
  BY DEF Inv
<1> QED BY <1>1, ProposeProp

(* How what is deferred changes. *)
LEMMA DeferredSteps ==
  ASSUME Inv, [Next]_vars, NEW c \in Convs
  PROVE  \/ deferred'[c] = deferred[c]
         \/ \E t \in Turns : /\ Propose(t) /\ convMode[task[t].conv] = "Deferred" /\ task[t].conv = c
                             /\ deferred'[c] = Append(deferred[c], Offer(t).id)
         \/ \E t \in Turns : Drain(t) /\ task[t].conv = c /\ deferred'[c] = <<>>
<1>0. Types /\ deferred \in [Convs -> Seq(Ids)]
  BY DEF Inv, Types, GateTypes
<1>1. ASSUME NEW t \in Turns, Defers(task[t].conv, Offer(t).id)
      PROVE  IF task[t].conv = c THEN deferred'[c] = Append(deferred[c], Offer(t).id) ELSE deferred'[c] = deferred[c]
  BY <1>0, <1>1 DEF Defers
<1>2. ASSUME NEW t \in Turns, Hands(task[t].conv)
      PROVE  IF task[t].conv = c THEN deferred'[c] = <<>> ELSE deferred'[c] = deferred[c]
  BY <1>0, <1>2 DEF Hands
<1>3. UNCHANGED deferred => deferred'[c] = deferred[c]
  OBVIOUS
<1> QED BY <1>1, <1>2, <1>3, GateSteps DEF Opens, Forgets, Releases

LEMMA OriginStep ==
  ASSUME Inv, Origin, [Next]_vars
  PROVE  Origin'
<1>0. Types /\ Recorded /\ deferred \in [Convs -> Seq(Ids)]
  BY DEF Inv, Types, GateTypes
<1>1. ASSUME NEW i \in Ids, prop'[i] \in Proposal
      PROVE  prop'[i].turn \in DOMAIN task' /\ task'[prop'[i].turn].conv = prop'[i].conv
  <2>1. CASE prop[i] \in Proposal /\ prop'[i].turn = prop[i].turn /\ prop'[i].conv = prop[i].conv
    BY <1>0, <2>1, OldTurns DEF Origin
  <2>2. ASSUME NEW t \in Turns, prop'[i].turn = t, prop'[i].conv = task[t].conv
        PROVE  prop'[i].turn \in DOMAIN task' /\ task'[prop'[i].turn].conv = prop'[i].conv
    BY <1>0, <2>2, OldTurns
  <2> QED BY <1>1, <2>1, <2>2, PropOrigin
<1>2. ASSUME NEW c \in Convs, NEW k \in DOMAIN deferred[c]
      PROVE  prop'[deferred[c][k]].conv = c
  <2>1. deferred[c][k] \in Known /\ deferred[c][k] \in Ids
    BY <1>0, QueuedIs DEF Known
  <2>2. prop[deferred[c][k]] \in Proposal /\ prop[deferred[c][k]].conv = c
    BY <1>0, <2>1 DEF Recorded, Origin
  <2> QED BY <2>1, <2>2, KeptOrigin
<1>3. ASSUME NEW c \in Convs, NEW k \in DOMAIN deferred'[c]
      PROVE  prop'[deferred'[c][k]].conv = c
  <2>0. deferred[c] \in Seq(Ids)
    BY <1>0
  <2>1. CASE deferred'[c] = deferred[c]
    BY <1>2, <1>3, <2>1
  <2>2. ASSUME NEW t \in Turns, Propose(t), convMode[task[t].conv] = "Deferred", task[t].conv = c,
               deferred'[c] = Append(deferred[c], Offer(t).id)
        PROVE  prop'[deferred'[c][k]].conv = c
    <3>1. Offer(t).id \in Ids /\ prop'[Offer(t).id].conv = c
      BY <2>2, ProposesDeferred
    <3>2. \/ k \in DOMAIN deferred[c] /\ deferred'[c][k] = deferred[c][k]
          \/ deferred'[c][k] = Offer(t).id
      BY <1>3, <2>0, <2>2, <3>1
    <3> QED BY <1>2, <3>1, <3>2
  <2>3. deferred'[c] # <<>>
    BY <1>3
  <2> QED BY <2>1, <2>2, <2>3, DeferredSteps
<1> QED BY <1>1, <1>3 DEF Origin, Turns

LEMMA DrainedStep ==
  ASSUME Inv, Origin, EndedTurnsDrained, [Next]_vars
  PROVE  EndedTurnsDrained'
<1>0. Types /\ Types' /\ Recorded /\ Phased /\ deferred \in [Convs -> Seq(Ids)]
  BY TypesStep DEF Inv, Types, GateTypes
<1>1. ASSUME NEW i \in Queued'
      PROVE  task'[prop'[i].turn].phase \in {"send", "closing", "drain", "aborted"}
  <2>1. PICK c \in Convs : \E k \in DOMAIN deferred'[c] : deferred'[c][k] = i
    <3>1. \E c \in Convs : i \in ToSet(deferred'[c])
      BY DEF Queued
    <3> QED BY <3>1 DEF ToSet
  <2>2. ASSUME NEW t \in Turns, Propose(t), convMode[task[t].conv] = "Deferred", i = Offer(t).id
        PROVE  task'[prop'[i].turn].phase = "send"
    <3>1. prop'[i].turn = t
      BY <2>2, ProposesDeferred
    <3>2. task[t].phase = "send"
      <4>1. task[t].offer # Free
        BY <2>2 DEF Propose, Offer, Free
      <4> QED BY <1>0, <4>1 DEF Phased
    <3>3. \E o : Turned(t, task[t].phase, task[t].cancelled, o, task[t].batch)
      BY <1>0, <2>2, TaskSteps, SMTT(30)
    <3> QED BY <1>0, <3>1, <3>2, <3>3, Turning DEF Types
  <2>3. ASSUME NEW l \in DOMAIN deferred[c], deferred[c][l] = i,
               ~\E t \in Turns : Drain(t) /\ task[t].conv = c
        PROVE  task'[prop'[i].turn].phase \in {"send", "closing", "drain", "aborted"}
    <3> DEFINE t == prop[i].turn
    <3>1. i \in Queued /\ i \in Known /\ i \in Ids
      BY <1>0, <2>3, QueuedIs DEF Known
    <3>2. prop[i] \in Proposal
      BY <1>0, <3>1 DEF Recorded
    <3>3. t \in Turns /\ task[t].conv = c /\ prop'[i].turn = t
      BY <2>3, <3>1, <3>2, KeptOrigin DEF Origin
    <3>4. task[t].phase \in {"send", "closing", "drain", "aborted"}
      BY <3>1 DEF EndedTurnsDrained
    <3>5. Leads(t, task'[t].phase)
      BY <1>0, <3>3, OldTurns
    <3>6. ~Drain(t)
      BY <2>3, <3>3
    <3> QED BY <3>3, <3>4, <3>5, <3>6 DEF Leads, StartDeferred, Begin, Tell
  <2>4. CASE deferred'[c] = deferred[c] /\ ~\E t \in Turns : Drain(t) /\ task[t].conv = c
    BY <2>1, <2>3, <2>4
  <2>5. ASSUME NEW t \in Turns, Drain(t), task[t].conv = c
        PROVE  FALSE
    <3>1. deferred'[c] = <<>>
      BY <1>0, <2>5, DrainHands DEF Hands
    <3> QED BY <2>1, <3>1
  <2>6. ASSUME NEW t \in Turns, Propose(t), convMode[task[t].conv] = "Deferred", task[t].conv = c,
               deferred'[c] = Append(deferred[c], Offer(t).id)
        PROVE  \/ i = Offer(t).id
               \/ \E l \in DOMAIN deferred[c] : deferred[c][l] = i
    <3>1. Offer(t).id \in Ids /\ deferred[c] \in Seq(Ids)
      BY <1>0, <2>6, NewId
    <3> QED BY <2>1, <2>6, <3>1
  <2> QED BY <2>2, <2>3, <2>4, <2>5, <2>6, DeferredSteps
<1> QED BY <1>1 DEF EndedTurnsDrained

(* Dispatching leaves no other turn of the conversation alone. *)
LEMMA DispatchAlone ==
  ASSUME Types, NEW c \in Convs, Dispatch(c)
  PROVE  LET n == Len(task) + 1
         IN /\ DOMAIN task' = Turns \cup {n} /\ n \notin Turns
            /\ task'[n].conv = c /\ task'[n].phase = "spawned"
            /\ \A s \in Turns : /\ task'[s].conv = task[s].conv /\ task'[s].phase = task[s].phase
                                /\ task[s].conv = c => ~task'[s].alone
            /\ task'[n].alone => /\ \A t \in Turns : task[t].conv = c => ~Active(t)
                                 /\ \A i \in DOMAIN events : ~IsOf(events[i], c)
            /\ handle' = [handle EXCEPT ![c] = n] /\ UNCHANGED <<events, active, prop>>
<1>1. handle' = [handle EXCEPT ![c] = Len(task) + 1] /\ UNCHANGED <<events, active, prop>>
  BY DEF Dispatch, gateVars
<1> QED BY <1>1, Dispatching

LEMMA ActiveBefore ==
  ASSUME Types, Recorded, [Next]_vars, NEW t \in Turns, Active(t)'
  PROVE  Active(t) /\ task'[t].phase \notin {"done", "aborted"}
<1>1. Leads(t, task'[t].phase) /\ task'[t].phase \notin {"done", "aborted"}
  BY OldTurns DEF Active
<1> QED BY <1>1 DEF Leads, Active, StartDeferred, Begin, Drain

LEMMA ByItselfStep ==
  ASSUME Inv, ByItself, [Next]_vars
  PROVE  ByItself'
<1>0. Types /\ Recorded
  BY DEF Inv
<1>1. ASSUME NEW s \in DOMAIN task', NEW t \in DOMAIN task',
             task'[t].alone, s # t, task'[s].conv = task'[t].conv, Active(s)'
      PROVE  FALSE
  <2>1. CASE s \in Turns /\ t \in Turns
    BY <1>0, <1>1, <2>1, ActiveBefore, OldTurns DEF ByItself
  <2>2. ASSUME NEW c \in Convs, Dispatch(c), s = Len(task) + 1, t \in Turns
        PROVE  FALSE
    BY <1>0, <1>1, <2>2, DispatchAlone
  <2>3. ASSUME NEW c \in Convs, Dispatch(c), t = Len(task) + 1, s \in Turns
        PROVE  FALSE
    <3>1. Active(s) /\ task[s].conv = c
      BY <1>0, <1>1, <2>3, DispatchAlone, ActiveBefore
    <3> QED BY <1>0, <1>1, <2>3, <3>1, DispatchAlone
  <2> QED BY <1>0, <1>1, <2>1, <2>2, <2>3, NewTurns
<1> QED BY <1>1 DEF ByItself, Turns

LEMMA OverriddenStep ==
  ASSUME Inv, ByItself, Overridden, [Next]_vars
  PROVE  Overridden'
<1>0. Types /\ Recorded /\ TaskTypes /\ convMode \in [Convs -> Modes]
  BY DEF Inv, Types, GateTypes
<1>1. ASSUME NEW t \in DOMAIN task', task'[t].alone, task'[t].phase \in {"begin", "send", "closing", "drain"}
      PROVE  convMode'[task'[t].conv] # "Interactive"
  <2>1. t \in Turns
    <3>1. \A c \in Convs : Dispatch(c) => task'[Len(task) + 1].phase = "spawned"
      BY <1>0, DispatchAlone
    <3> QED BY <1>0, <1>1, <3>1, NewTurns
  <2>2. task'[t].conv = task[t].conv /\ task[t].alone /\ Leads(t, task'[t].phase) /\ task[t].conv \in Convs
    <3>1. task[t].conv \in Convs
      BY <1>0, <2>1, TurnOf
    <3> QED BY <1>0, <1>1, <2>1, <3>1, OldTurns
  <2>3. StartDeferred(t) \/ task[t].phase \in {"begin", "send", "closing", "drain"}
    BY <1>1, <2>2 DEF Leads, StartDeferred, Begin
  <2>4. StartDeferred(t) => convMode'[task[t].conv] # "Interactive"
    BY <1>0, <2>2 DEF StartDeferred, SetMode
  <2>5. ASSUME ~StartDeferred(t)
        PROVE  convMode'[task[t].conv] # "Interactive"
    <3>1. convMode[task[t].conv] # "Interactive"
      BY <2>1, <2>2, <2>3, <2>5 DEF Overridden
    <3>2. ASSUME NEW s \in Turns, NEW m \in {"Deferred", "AutoAccept"}, convMode' = [convMode EXCEPT ![task[s].conv] = m]
          PROVE  convMode'[task[t].conv] # "Interactive"
      BY <1>0, <2>2, <3>1, <3>2
    <3>3. ASSUME NEW s \in Turns, Drain(s), task[s].conv = task[t].conv
          PROVE  FALSE
      <4>1. Active(s)
        BY <3>3 DEF Drain, Active
      <4>2. s = t
        BY <2>1, <2>2, <3>3, <4>1 DEF ByItself
      <4>3. task'[t].phase = "tell"
        BY <1>0, <2>1, <3>3, <4>2, Drains, Turning
      <4> QED BY <1>1, <4>3
    <3>4. ASSUME NEW s \in Turns, task[s].conv # task[t].conv,
                 convMode' = [convMode EXCEPT ![task[s].conv] = "Interactive"]
          PROVE  convMode'[task[t].conv] # "Interactive"
      BY <1>0, <2>2, <3>1, <3>4
    <3> QED BY <3>1, <3>2, <3>3, <3>4, ModeSteps
  <2> QED BY <2>2, <2>4, <2>5
<1> QED BY <1>1 DEF Overridden, Turns

(* Who tells the host that a turn of a conversation is over. *)
LEMMA OverSteps ==
  ASSUME Inv, [Next]_vars, NEW j \in DOMAIN events', NEW c, Over(events'[j], c)
  PROVE  \/ \E i \in DOMAIN events : Over(events[i], c)
         \/ \E t \in Turns : Tell(t) /\ task[t].conv = c
<1>0. Types /\ Recorded /\ events \in Seq(EventType) /\ j \in Nat
  <2>1. events' \in Seq(EventType)
    BY EventTypesStep DEF Inv
  <2> QED BY <2>1 DEF Inv, Types
<1>1. ASSUME NEW d, NEW K, Flows(d, K), "finished" \notin K
      PROVE  \E i \in DOMAIN events : Over(events[i], c)
  <2>1. PICK es : Flow(d, es) /\ \A k \in DOMAIN es : es[k].kind \in K
    BY <1>1 DEF Flows
  <2>2. \/ j + d \in DOMAIN events /\ events'[j] = events[j + d]
        \/ j - (Len(events) - d) \in DOMAIN es /\ events'[j] = es[j - (Len(events) - d)]
    BY <1>0, <2>1, Flowing
  <2> QED BY <1>1, <2>1, <2>2 DEF Over
<1>2. ASSUME NEW t \in Turns, Propose(t), Announces(t)
      PROVE  \E i \in DOMAIN events : Over(events[i], c)
  <2>1. Flows(0, {"created", "updated"})
    BY <1>2 DEF Announces, Flows
  <2> QED BY <1>1, <2>1
<1>3. ASSUME NEW t \in Turns, Tell(t)
      PROVE  (\E i \in DOMAIN events : Over(events[i], c)) \/ task[t].conv = c
  <2> DEFINE done == [kind |-> "finished", conv |-> task[t].conv]
             full == [kind |-> "batch", conv |-> task[t].conv, rows |-> task[t].batch]
  <2>1. done.kind = "finished" /\ done.conv = task[t].conv /\ full.kind = "batch"
    OBVIOUS
  <2>2. Flow(0, <<done>>) \/ Flow(0, <<full, done>>)
    BY <1>0, <1>3, TellEvents
  <2> HIDE DEF done, full
  <2>3. \A e : e = done \/ e = full => ~Over(e, c) \/ task[t].conv = c
    BY <2>1 DEF Over
  <2>4. ASSUME NEW es, Flow(0, es), \A k \in DOMAIN es : es[k] = done \/ es[k] = full
        PROVE  events'[j] = done \/ events'[j] = full \/ (j \in DOMAIN events /\ events'[j] = events[j])
    <3>1. \/ j + 0 \in DOMAIN events /\ events'[j] = events[j + 0]
          \/ j - (Len(events) - 0) \in DOMAIN es /\ events'[j] = es[j - (Len(events) - 0)]
      BY <1>0, <2>4, Flowing
    <3> QED BY <1>0, <2>4, <3>1
  <2>5. /\ \A k \in DOMAIN <<done>> : <<done>>[k] = done \/ <<done>>[k] = full
        /\ \A k \in DOMAIN <<full, done>> : <<full, done>>[k] = done \/ <<full, done>>[k] = full
    OBVIOUS
  <2> QED BY <2>2, <2>3, <2>4, <2>5
<1> QED BY <1>0, <1>1, <1>2, <1>3, EventKindSteps

LEMMA NotOverStep ==
  ASSUME Inv, ByItself, NotOver, [Next]_vars
  PROVE  NotOver'
<1>0. Types /\ Recorded /\ TaskTypes /\ events \in Seq(EventType)
  BY DEF Inv, Types
<1>1. ASSUME NEW t \in DOMAIN task', task'[t].alone, Active(t)',
             NEW j \in DOMAIN events', Over(events'[j], task'[t].conv)
      PROVE  FALSE
  <2>1. CASE t \in Turns
    <3>1. task[t].alone /\ Active(t) /\ task'[t].conv = task[t].conv /\ task'[t].phase # "done"
      BY <1>0, <1>1, <2>1, OldTurns, ActiveBefore
    <3>2. \A i \in DOMAIN events : ~Over(events[i], task[t].conv)
      BY <2>1, <3>1 DEF NotOver
    <3>3. PICK s \in Turns : Tell(s) /\ task[s].conv = task[t].conv
      BY <1>1, <3>1, <3>2, OverSteps
    <3>4. Active(s)
      BY <3>3 DEF Tell, Active
    <3>5. s = t
      BY <2>1, <3>1, <3>3, <3>4 DEF ByItself
    <3>6. task'[t].phase = "done"
      BY <1>0, <3>3, <3>5, TaskSteps, Turning
    <3> QED BY <3>1, <3>6
  <2>2. ASSUME NEW c \in Convs, Dispatch(c), t = Len(task) + 1
        PROVE  FALSE
    <3>1. /\ task'[t].conv = c /\ events' = events
          /\ \A i \in DOMAIN events : ~IsOf(events[i], c)
      BY <1>0, <1>1, <2>2, DispatchAlone
    <3>2. events[j] \in EventType /\ events[j].kind = "finished" /\ events[j].conv = c /\ j \in DOMAIN events
      BY <1>0, <1>1, <3>1 DEF Over
    <3> QED BY <3>1, <3>2, EventKinds
  <2> QED BY <1>0, <1>1, <2>1, <2>2, NewTurns
<1> QED BY <1>1 DEF NotOver, Turns

LEMMA ReachStep ==
  ASSUME Inv, NotOver, CancelReaches, [Next]_vars
  PROVE  CancelReaches'
<1>0. Types /\ Recorded /\ TaskTypes /\ events \in Seq(EventType) /\ handle \in [Convs -> 0..Len(task)]
  BY DEF Inv, Types, TaskTypes
<1>1. ASSUME NEW t \in DOMAIN task', task'[t].alone, Active(t)', ~task'[t].cancelled
      PROVE  handle'[task'[t].conv] = t
  <2>1. ASSUME NEW c \in Convs, Dispatch(c), t \notin Turns
        PROVE  handle'[task'[t].conv] = t
    BY <1>0, <1>1, <2>1, DispatchAlone
  <2>2. ASSUME t \in Turns
        PROVE  handle'[task[t].conv] = t
    <3> DEFINE c == task[t].conv
    <3>1. c \in Convs
      BY <1>0, <2>2, TurnOf
    <3>2. task[t].alone /\ Active(t) /\ ~task[t].cancelled
      BY <1>0, <1>1, <2>2, OldTurns, ActiveBefore
    <3>3. handle[c] = t
      BY <2>2, <3>2 DEF CancelReaches
    <3>4. ASSUME NEW d \in Convs, Dispatch(d)
          PROVE  handle'[c] = t
      <4>1. d # c
        BY <1>0, <1>1, <2>2, <3>4, DispatchAlone
      <4> QED BY <1>0, <3>1, <3>3, <3>4, <4>1, DispatchAlone
    <3>5. ASSUME NEW d \in Convs, Cancel(d)
          PROVE  handle'[c] = t
      <4>1. handle' = handle \/ (task[handle[d]].cancelled /\ handle' = [handle EXCEPT ![d] = 0])
        BY <1>0, <3>5, Cancels
      <4> QED BY <1>0, <3>1, <3>2, <3>3, <4>1
    <3>6. ASSUME HostEvent, OnFinished
          PROVE  handle'[c] = t
      <4>1. events[1].kind = "finished" /\ handle' = [handle EXCEPT ![events[1].conv] = 0] /\ 1 \in DOMAIN events
        BY <1>0, <3>6, HostEvents DEF OnFinished, Next1
      <4>2. events[1].conv # c
        BY <2>2, <3>2, <4>1 DEF NotOver, Over
      <4> QED BY <1>0, <3>1, <3>3, <4>1, <4>2
    <3>7. UNCHANGED handle => handle'[c] = t
      BY <3>3
    <3> QED BY <3>4, <3>5, <3>6, <3>7, TaskQuiet DEF hostVars
  <2> QED BY <1>0, <1>1, <2>1, <2>2, NewTurns, OldTurns
<1> QED BY <1>1 DEF CancelReaches, Turns

LEMMA ModalStep ==
  ASSUME Inv, Origin, Overridden, NoSurpriseModal, [Next]_vars
  PROVE  NoSurpriseModal'
<1>0. Types /\ Recorded /\ Phased /\ active \subseteq Ids
  BY DEF Inv, Types, GateTypes
<1>1. ASSUME NEW i \in active
      PROVE  ~task'[prop'[i].turn].alone
  <2>1. prop[i] \in Proposal
    BY <1>0 DEF Recorded, Known
  <2>2. prop'[i].turn = prop[i].turn /\ prop[i].turn \in Turns
    BY <1>0, <2>1, KeptOrigin DEF Origin
  <2> QED BY <1>0, <2>2, OldTurns DEF NoSurpriseModal
<1>2. ASSUME NEW t \in Turns, Propose(t), convMode[task[t].conv] = "Interactive"
      PROVE  ~task'[prop'[Offer(t).id].turn].alone
  <2>1. task[t].phase = "send"
    <3>1. task[t].offer # Free
      BY <1>2 DEF Propose, Offer, Free
    <3> QED BY <1>0, <3>1 DEF Phased
  <2>2. ~task[t].alone
    BY <1>2, <2>1 DEF Overridden
  <2>3. prop'[Offer(t).id].turn = t
    BY <1>2, ProposesDeferred
  <2> QED BY <1>0, <2>2, <2>3, OldTurns
<1>3. ASSUME NEW i \in active'
      PROVE  i \in active \/ \E t \in Turns : /\ Propose(t) /\ convMode[task[t].conv] = "Interactive"
                                              /\ i = Offer(t).id
  BY GateSteps DEF Opens, Defers, Hands, Forgets, Releases
<1> QED BY <1>1, <1>2, <1>3 DEF NoSurpriseModal

LEMMA LoneInductive == Spec => [](Owned /\ Lone)
<1>1. Init => Owned /\ Lone
  <2> SUFFICES ASSUME Init PROVE Owned /\ Lone
    OBVIOUS
  <2>1. Turns = {} /\ active = {} /\ (\A i \in Ids : prop[i] = <<>>) /\ \A c \in Convs : deferred[c] = <<>>
    BY DEF Init, GateInit, Turns
  <2>2. Queued = {}
    BY <2>1 DEF Queued, ToSet
  <2>3. Origin /\ EndedTurnsDrained
    BY <2>1, <2>2, ProposalIsSome DEF Origin, EndedTurnsDrained
  <2> QED BY <2>1, <2>3 DEF Owned, Lone, ByItself, Overridden, NotOver, CancelReaches, NoSurpriseModal
<1>2. Inv /\ Owned /\ Lone /\ [Next]_vars => (Owned /\ Lone)'
  BY OriginStep, DrainedStep, ByItselfStep, OverriddenStep, NotOverStep, ReachStep, ModalStep DEF Owned, Lone
<1> QED BY <1>1, <1>2, Inductive, PTL DEF Spec

(* A turn that ended has handed over what it had deferred, unless it was
   aborted on the way (side_panel.rs:3233). *)
THEOREM Drained == Spec => []EndedTurnsDrained
BY LoneInductive, PTL DEF Owned

(* A turn alone in its conversation keeps its override to its drain, whatever
   other conversations do, so that nothing it proposes interrupts the user
   (write_gate.rs:50). *)
THEOREM NeverSurprised == Spec => []NoSurpriseModal
BY LoneInductive, PTL DEF Lone

(* A turn alone in its conversation has its handle held until it ends, so that
   cancelling the conversation cancels it (side_panel.rs:3404). *)
THEOREM Reachable == Spec => []CancelReaches
BY LoneInductive, PTL DEF Lone

=============================================================================
