------------------------- MODULE TurnCaptureProofs -------------------------
(***************************************************************************)
(* What every step of a turn's life keeps, for any number of turns, files  *)
(* and contents: the types of the state; the review of a finished turn on  *)
(* disk, crashes included; whose a change is; the overlaps a review names; *)
(* the order of a review's copies on disk, in the queue and in the host;   *)
(* and, until the host crashes, the rejects and the blobs a review shows.  *)
(***************************************************************************)
EXTENDS TurnCapture, FiniteSetTheorems, TLAPS

(* A review is only decided while the host holds it: the revert the event loop
   is in the middle of is of a review it took from the list, and of a file that was
   undecided in it. *)
RevertOfHeld ==
  (op # None /\ op.kind = "revert") => host[op.turn] # None /\ host[op.turn].dec[op.path] = "none"

(* remove_pending comes after the archive is written. *)
RemovesArchived == (io # None /\ io.step = "remove") => sets[io.turn] # None

------------------------------------------------------------------------------
(* Types: the files and what is known of them. *)

LEMMA StoredContents ==
  ASSUME NEW S, S \subseteq Values PROVE Stored(S) \subseteq Contents
  BY DEF Stored, Values

LEMMA PutTyped ==
  ASSUME FilesTyped, NEW S, S \subseteq Values, Put(S)
  PROVE  /\ blobs' \subseteq Contents /\ fresh' \subseteq blobs'
  BY StoredContents DEF Put, FilesTyped

LEMMA ScanPuts ==
  ASSUME FilesTyped, NEW R PROVE {disk[p] : p \in Paths \ R} \subseteq Values
  BY DEF FilesTyped, Snapshot

LEMMA FilesTypedStep == ASSUME TypeOK, Next PROVE FilesTyped'
<1> USE DEF TypeOK
<1>1. ASSUME NEW t \in Turns, Bracket(t) PROVE FilesTyped'
  <2>1. CASE BeginWalk(t)
    <3>1. PICK reused \in SUBSET Unmoved(baseline) : Put({disk[p] : p \in Paths \ reused})
      BY <2>1 DEF BeginWalk
    <3>2. /\ blobs' \subseteq Contents /\ fresh' \subseteq blobs'
      BY <3>1, PutTyped, ScanPuts
    <3> QED BY <2>1, <3>2 DEF BeginWalk, FilesTyped, thread, world
  <2>2. CASE EndScan(t)
    <3>1. PICK reused \in SUBSET Unmoved(pre[t]) : Put({disk[p] : p \in Paths \ reused})
      BY <2>2 DEF EndScan
    <3>2. /\ blobs' \subseteq Contents /\ fresh' \subseteq blobs'
      BY <3>1, PutTyped, ScanPuts
    <3> QED BY <2>2, <3>2 DEF EndScan, FilesTyped, thread, world
  <2>3. CASE BeginPublish(t)
    BY <2>3 DEF BeginPublish, FilesTyped, thread, world, store
  <2>4. CASE EndPublish(t)
    BY <2>4 DEF EndPublish, FilesTyped, thread, world, store
  <2>5. CASE AutoRevert(t)
    BY <2>5 DEF AutoRevert, FilesTyped, thread, store, state, Snapshot
  <2>6. CASE (\E u \in Turns : MarkLoad(t, u)) \/ MarkSave(t) \/ SavePending(t)
    BY <2>6 DEF MarkLoad, MarkSave, SavePending, FilesTyped, thread, world, store, state
  <2> QED BY <1>1, <2>1, <2>2, <2>3, <2>4, <2>5, <2>6 DEF Bracket
<1>2. ASSUME NEW t \in Turns, NEW p \in Paths, NEW c \in Values, AgentWrite(t, p, c)
      PROVE FilesTyped'
  BY <1>2 DEF AgentWrite, FilesTyped, thread, store, bracket, state, Snapshot
<1>3. CASE IoThread
  <2>1. CASE RunSave \/ RunArchive \/ RemovePending \/ RunGc
    BY <2>1 DEF RunSave, RunArchive, RemovePending, RunGc, FilesTyped, world, store, bracket, state
  <2>2. CASE GcBaseline
    <3>1. {baseline[p] : p \in Paths} \subseteq Values
      BY DEF FilesTyped, Snapshot
    <3> QED BY <2>2, <3>1, StoredContents DEF GcBaseline, FilesTyped, world, store, bracket, state
  <2>3. ASSUME NEW t \in Turns, NEW keys \in SUBSET Paths PROVE Pinned(t, keys) \subseteq Contents
    <3>1. {pre[t][p] : p \in keys} \cup {post[t][p] : p \in keys} \subseteq Values
      BY DEF FilesTyped, Snapshot
    <3> QED BY <3>1, StoredContents DEF Pinned
  <2>4. CASE GcPending
    <3>1. \A t \in {u \in Turns : pending[u] # None} : pending[t].keys \in SUBSET Paths
      BY DEF ReviewsTyped, Review
    <3>2. UNION {Pinned(t, pending[t].keys) : t \in {u \in Turns : pending[u] # None}} \subseteq Contents
      BY <3>1, <2>3
    <3> QED BY <2>4, <3>2 DEF GcPending, FilesTyped, world, store, bracket, state
  <2>5. CASE GcSets
    <3>1. \A t \in Newest : t \in Turns /\ sets[t].keys \in SUBSET Paths
      BY DEF Newest, Archived, ReviewsTyped, Review
    <3>2. UNION {Pinned(t, sets[t].keys) : t \in Newest} \subseteq Contents
      BY <3>1, <2>3
    <3> QED BY <2>5, <3>2 DEF GcSets, FilesTyped, world, store, bracket, state
  <2>6. CASE (\E h \in Contents : SweepLook(h)) \/ SweepUnlink \/ SweepDone
    BY <2>6 DEF SweepLook, SweepUnlink, SweepDone, FilesTyped, world, store, bracket, state
  <2> QED BY <1>3, <2>1, <2>2, <2>4, <2>5, <2>6 DEF IoThread
<1>4. CASE Host
  <2>1. ASSUME NEW t \in Turns, Receive(t) PROVE FilesTyped'
    BY <2>1 DEF Receive, FilesTyped, thread, world, store, state
  <2>2. ASSUME NEW t \in Turns, NEW p \in Paths,
               Accept(t, p) \/ RejectLook(t, p) \/ UndoLook(t, p)
        PROVE FilesTyped'
    BY <2>2 DEF Accept, RejectLook, UndoLook, Decide, FilesTyped, thread, world, store, bracket, state
  <2>3. CASE WriteBack
    <3>1. op \in [kind : {"revert", "undo"}, turn : Turns, path : Paths, force : BOOLEAN,
                  step : {"write", "record"}]
      BY <2>3 DEF WriteBack, ReviewsTyped, Operation
    <3> QED BY <2>3, <3>1 DEF WriteBack, FilesTyped, thread, store, bracket, state, Snapshot
  <2>4. CASE RecordBack \/ NoteSave
    BY <2>4 DEF RecordBack, NoteSave, Note, Decide, FilesTyped, thread, store, bracket, state
  <2>5. ASSUME NEW p \in Paths, NEW c \in Values, Save(p, c) PROVE FilesTyped'
    BY <2>5 DEF Save, FilesTyped, thread, store, bracket, state, Snapshot
  <2> QED BY <1>4, <2>1, <2>2, <2>3, <2>4, <2>5 DEF Host
<1>5. ASSUME NEW h \in Contents, Age(h) PROVE FilesTyped'
  BY <1>5 DEF Age, FilesTyped, thread, world, bracket, state
<1>6. CASE Restart
  BY <1>6 DEF Restart, Forgotten, FilesTyped, world, store
<1> QED BY <1>1, <1>2, <1>3, <1>4, <1>5, <1>6 DEF Next

LEMMA FilesTypedInit == Init => FilesTyped
  BY ConstantsAssumption DEF Init, FilesTyped, Snapshot, Values

------------------------------------------------------------------------------
(* Types: the bracket. *)

LEMMA ReviewMade ==
  ASSUME NEW keys \in SUBSET Paths, NEW marks \in Marks PROVE NewReview(keys, marks) \in Review
  BY DEF NewReview, Review, Undecided, Decisions

LEMMA MarkedReview ==
  ASSUME NEW review \in Review, NEW t \in Turns, NEW keys PROVE Marked(review, t, keys) \in Review
<1> DEFINE marks == [p \in Paths |-> IF p \in review.keys \cap keys
                                       THEN review.marks[p] \cup {t} ELSE review.marks[p]]
<1>1. marks \in Marks
  BY DEF Review, Marks
<1>2. Marked(review, t, keys) = [review EXCEPT !.marks = marks]
  BY DEF Marked
<1> QED BY <1>1, <1>2 DEF Review

LEMMA BracketTypedStep == ASSUME TypeOK, Next PROVE BracketTyped'
<1> USE DEF TypeOK
<1>1. ASSUME NEW t \in Turns, Bracket(t) PROVE BracketTyped'
  <2>1. CASE BeginWalk(t) \/ EndScan(t)
    BY <2>1 DEF BeginWalk, EndScan, BracketTyped
  <2>2. CASE BeginPublish(t)
    BY <2>2 DEF BeginPublish, BracketTyped
  <2>3. CASE EndPublish(t)
    <3> DEFINE keys == Changed(t)
               over == Overlapped(t, keys)
               now == recent \cup {[turn |-> t, ended |-> ended[t], keys |-> keys]}
               marks == [p \in Paths |-> {r.turn : r \in {x \in over : p \in x.keys \cap keys}}]
    <3>1. keys \in SUBSET Paths
      BY DEF Changed
    <3>2. over \subseteq recent
      BY DEF Overlapped
    <3>3. marks \in Marks
      BY <3>2 DEF Marks, BracketTyped
    <3>4. {r.turn : r \in over} \subseteq Turns
      BY <3>2 DEF BracketTyped
    <3>5. now \subseteq [turn : Turns, ended : Nat, keys : SUBSET Paths]
      BY <3>1 DEF BracketTyped
    <3>6. \A running : Surviving(now, running) \subseteq now
      BY DEF Surviving
    <3>7. NewReview(keys, marks) \in Review
      BY <3>1, <3>3, ReviewMade
    <3>8. /\ active' = active \ {t}
          /\ recent' = Surviving(now, {started[u] : u \in active \ {t}})
          /\ set' = [set EXCEPT ![t] = NewReview(keys, marks)]
          /\ todo' = [todo EXCEPT ![t] = {r.turn : r \in over}]
          /\ phase' = [phase EXCEPT ![t] = "marking"]
          /\ UNCHANGED <<started, ended, loaded, touched, clock>>
      BY <2>3 DEF EndPublish
    <3> HIDE DEF keys, over, now, marks
    <3> QED BY <3>4, <3>5, <3>6, <3>7, <3>8 DEF BracketTyped
  <2>4. ASSUME NEW u \in Turns, MarkLoad(t, u) PROVE BracketTyped'
    <3>1. [turn |-> u, review |-> pending[u]] \in [turn : Turns, review : Review]
            \/ pending[u] = None
      BY DEF ReviewsTyped
    <3> QED BY <2>4, <3>1 DEF MarkLoad, BracketTyped, state
  <2>5. CASE MarkSave(t)
    <3>1. loaded[t].turn \in Turns
      BY <2>5 DEF MarkSave, BracketTyped
    <3> QED BY <2>5, <3>1 DEF MarkSave, BracketTyped, state
  <2>6. CASE AutoRevert(t)
    BY <2>6 DEF AutoRevert, BracketTyped, state, Review
  <2>7. CASE SavePending(t)
    BY <2>7 DEF SavePending, BracketTyped, state
  <2> QED BY <1>1, <2>1, <2>2, <2>3, <2>4, <2>5, <2>6, <2>7 DEF Bracket
<1>2. ASSUME NEW t \in Turns, NEW p \in Paths, NEW c \in Values, AgentWrite(t, p, c)
      PROVE BracketTyped'
  BY <1>2 DEF AgentWrite, BracketTyped, bracket, state
<1>3. CASE IoThread
  BY <1>3 DEF IoThread, RunSave, RunArchive, RemovePending, RunGc, GcBaseline, GcPending, GcSets,
     SweepLook, SweepUnlink, SweepDone, BracketTyped, bracket, state
<1>4. CASE Host
  <2>1. ASSUME NEW t \in Turns, Receive(t) PROVE BracketTyped'
    BY <2>1 DEF Receive, BracketTyped, state
  <2>2. ASSUME UNCHANGED <<bracket, state>> PROVE BracketTyped'
    BY <2>2 DEF BracketTyped, bracket, state
  <2> QED BY <1>4, <2>1, <2>2 DEF Host, Accept, RejectLook, UndoLook, WriteBack, RecordBack, Save, NoteSave
<1>5. ASSUME NEW h \in Contents, Age(h) PROVE BracketTyped'
  BY <1>5 DEF Age, BracketTyped, bracket, state
<1>6. CASE Restart
  <2>1. NoReview \in Review
    BY ReviewMade DEF NoReview, Unmarked, Marks
  <2> QED BY <1>6, <2>1 DEF Restart, Forgotten, Crashed, BracketTyped
<1> QED BY <1>1, <1>2, <1>3, <1>4, <1>5, <1>6 DEF Next

LEMMA BracketTypedInit == Init => BracketTyped
<1>1. NoReview \in Review
  BY ReviewMade DEF NoReview, Unmarked, Marks
<1> QED BY <1>1 DEF Init, BracketTyped

------------------------------------------------------------------------------
(* Types: the reviews, on disk, in memory and in the I/O thread's queue. *)

LEMMA DecideTyped ==
  ASSUME ReviewsTyped, NEW t \in Turns, NEW p \in Paths, NEW d \in {"keep", "revert"},
         host[t] # None, Decide(t, p, d)
  PROVE  /\ host' \in [Turns -> Review \cup {None}]
         /\ \A u \in Turns : u # t => host'[u] = host[u]
         /\ jobs' \in Seq(Job)
         /\ io' = io
<1> DEFINE review == [host[t] EXCEPT !.dec[p] = d]
           done == \A q \in review.keys : review.dec[q] # "none"
<1>1. review \in Review
  BY DEF ReviewsTyped, Review, Decisions
<1>2. /\ jobs' = Append(jobs, [kind |-> IF done THEN "archive" ELSE "save", turn |-> t, review |-> review])
      /\ host' = [host EXCEPT ![t] = IF done THEN None ELSE review]
      /\ io' = io
  BY DEF Decide, Enqueue
<1> HIDE DEF review, done
<1>3. [kind |-> IF done THEN "archive" ELSE "save", turn |-> t, review |-> review] \in Job
  BY <1>1 DEF Job
<1> QED BY <1>1, <1>2, <1>3 DEF ReviewsTyped

LEMMA HeadTyped ==
  ASSUME ReviewsTyped, Free, Head(jobs).kind # "gc"
  PROVE  /\ Head(jobs).turn \in Turns /\ Head(jobs).review \in Review
  BY DEF ReviewsTyped, Free, Job

LEMMA TailTyped == ASSUME ReviewsTyped, Free PROVE Tail(jobs) \in Seq(Job)
  BY DEF ReviewsTyped, Free

LEMMA ReviewsTypedStep == ASSUME TypeOK, RevertOfHeld, Next PROVE ReviewsTyped'
<1> USE DEF TypeOK
<1>1. ASSUME NEW t \in Turns, Bracket(t) PROVE ReviewsTyped'
  <2>1. ASSUME UNCHANGED <<files, thread, host, op>> PROVE ReviewsTyped'
    BY <2>1 DEF ReviewsTyped, files, thread
  <2>2. ASSUME NEW u \in Turns, MarkLoad(t, u) PROVE ReviewsTyped'
    BY <2>2, <2>1 DEF MarkLoad, ui
  <2>3. CASE MarkSave(t)
    <3> DEFINE u == loaded[t].turn
               new == Marked(loaded[t].review, t, {p \in set[t].keys : u \in set[t].marks[p]})
    <3>1. u \in Turns /\ loaded[t].review \in Review
      BY <2>3 DEF MarkSave, BracketTyped
    <3>2. new \in Review
      BY <3>1, MarkedReview
    <3>3. pending' = pending \/ pending' = [pending EXCEPT ![u] = new]
      BY <2>3 DEF MarkSave
    <3>4. UNCHANGED <<sets, thread, host, op>>
      BY <2>3 DEF MarkSave, ui
    <3> HIDE DEF u, new
    <3> QED BY <3>1, <3>2, <3>3, <3>4 DEF ReviewsTyped, thread
  <2>4. CASE SavePending(t)
    BY <2>4 DEF SavePending, ReviewsTyped, BracketTyped, thread, ui
  <2> QED BY <1>1, <2>1, <2>2, <2>3, <2>4
          DEF Bracket, BeginWalk, BeginPublish, EndScan, EndPublish, AutoRevert, ui
<1>2. ASSUME NEW t \in Turns, NEW p \in Paths, NEW c \in Values, AgentWrite(t, p, c)
      PROVE ReviewsTyped'
  BY <1>2 DEF AgentWrite, ReviewsTyped, files, thread, ui
<1>3. CASE IoThread
  <2>1. CASE RunSave
    BY <2>1, HeadTyped, TailTyped DEF RunSave, ReviewsTyped, ui
  <2>2. CASE RunArchive
    BY <2>2, HeadTyped, TailTyped DEF RunArchive, ReviewsTyped, ui, Working
  <2>3. CASE RemovePending
    BY <2>3 DEF RemovePending, ReviewsTyped, ui, Working
  <2>4. CASE RunGc
    BY <2>4, TailTyped DEF RunGc, ReviewsTyped, ui, Working, files
  <2>5. CASE GcBaseline \/ GcPending \/ GcSets
    BY <2>5 DEF GcBaseline, GcPending, GcSets, ReviewsTyped, ui, Working, files
  <2>6. CASE (\E h \in Contents : SweepLook(h)) \/ SweepUnlink \/ SweepDone
    BY <2>6 DEF SweepLook, SweepUnlink, SweepDone, ReviewsTyped, ui, Working, files
  <2> QED BY <1>3, <2>1, <2>2, <2>3, <2>4, <2>5, <2>6 DEF IoThread
<1>4. CASE Host
  <2>1. ASSUME NEW t \in Turns, Receive(t) PROVE ReviewsTyped'
    <3>1. ASSUME NEW u \in Turns, host[u] # None, pending[u] # None
          PROVE [host[u] EXCEPT !.keys = pending[u].keys, !.marks = pending[u].marks] \in Review
      BY <3>1 DEF ReviewsTyped, Review
    <3> QED BY <2>1, <3>1 DEF Receive, ReviewsTyped, BracketTyped, files, thread
  <2>2. ASSUME NEW t \in Turns, NEW p \in Paths, Accept(t, p) PROVE ReviewsTyped'
    <3>1. host[t] # None /\ Decide(t, p, "keep") /\ UNCHANGED <<files, op>>
      BY <2>2 DEF Accept, Open
    <3> QED BY <3>1, DecideTyped DEF ReviewsTyped, files
  <2>3. ASSUME NEW t \in Turns, NEW p \in Paths, RejectLook(t, p) PROVE ReviewsTyped'
    <3>1. CASE Decide(t, p, "revert") /\ UNCHANGED <<files, op>>
      BY <2>3, <3>1, DecideTyped DEF RejectLook, Open, ReviewsTyped, files
    <3>2. CASE UNCHANGED <<files, host, thread>> /\ op' \in Operation
      BY <3>2 DEF ReviewsTyped, files, thread
    <3> QED BY <2>3, <3>1, <3>2 DEF RejectLook, Operation
  <2>4. ASSUME NEW t \in Turns, NEW p \in Paths, UndoLook(t, p) PROVE ReviewsTyped'
    BY <2>4 DEF UndoLook, ReviewsTyped, Operation, files, thread
  <2>5. CASE WriteBack
    BY <2>5 DEF WriteBack, ReviewsTyped, Operation, files, thread
  <2>6. CASE RecordBack
    <3>1. CASE op.kind = "revert"
      <4>1. op.turn \in Turns /\ op.path \in Paths
        BY <2>6, <3>1 DEF RecordBack, ReviewsTyped, Operation
      <4>2. host[op.turn] # None
        BY <2>6, <3>1 DEF RecordBack, RevertOfHeld
      <4>3. Decide(op.turn, op.path, "revert") /\ op' = None /\ UNCHANGED files
        BY <2>6, <3>1 DEF RecordBack
      <4> QED BY <4>1, <4>2, <4>3, DecideTyped DEF ReviewsTyped, files
    <3>2. CASE op.kind # "revert"
      BY <2>6, <3>2 DEF RecordBack, ReviewsTyped, files, thread
    <3> QED BY <3>1, <3>2
  <2>7. ASSUME NEW p \in Paths, NEW c \in Values, Save(p, c) PROVE ReviewsTyped'
    BY <2>7 DEF Save, ReviewsTyped, Operation, files, thread
  <2>8. CASE NoteSave
    BY <2>8 DEF NoteSave, ReviewsTyped, files, thread
  <2> QED BY <1>4, <2>1, <2>2, <2>3, <2>4, <2>5, <2>6, <2>7, <2>8 DEF Host
<1>5. ASSUME NEW h \in Contents, Age(h) PROVE ReviewsTyped'
  BY <1>5 DEF Age, ReviewsTyped, files, thread, ui
<1>6. CASE Restart
  <2>1. <<[kind |-> "gc"]>> \in Seq(Job)
    BY DEF Job
  <2> QED BY <1>6, <2>1 DEF Restart, Forgotten, ReviewsTyped, files
<1> QED BY <1>1, <1>2, <1>3, <1>4, <1>5, <1>6 DEF Next

LEMMA ReviewsTypedInit == Init => ReviewsTyped
<1>1. <<[kind |-> "gc"]>> \in Seq(Job) /\ <<>> \in Seq(Job)
  BY DEF Job
<1> QED BY <1>1 DEF Init, ReviewsTyped

------------------------------------------------------------------------------
(* Types: who wrote what, and the other histories. *)

LEMMA HostWroteTyped ==
  ASSUME NEW c \in Values PROVE HostWrote(c) \in [hash : Values \cup {None}, since : SUBSET Turns]
  BY DEF HostWrote

(* What an operation on a review writes back, and where. *)
LEMMA OperandTyped ==
  ASSUME TypeOK, op # None, op.step \in {"write", "record"}
  PROVE  /\ op.turn \in Turns /\ op.path \in Paths /\ pre[op.turn][op.path] \in Values
         /\ op.kind \in {"revert", "undo"}
  BY DEF TypeOK, ReviewsTyped, Operation, FilesTyped, Snapshot

LEMMA NoteTyped ==
  ASSUME WritesTyped, NEW p \in Paths, NEW c \in Values, Note(p, c), UNCHANGED <<wrote, raced, reverted, met>>
  PROVE  WritesTyped'
<1>1. /\ ledger' = [ledger EXCEPT ![p] = HostWrote(c)]
      /\ misread' \in {misread \ {p}, misread \cup {p}} /\ author' = author
  BY DEF Note
<1> QED BY <1>1, HostWroteTyped DEF WritesTyped, HostWrites

LEMMA WritesTypedStep == ASSUME TypeOK, Next PROVE WritesTyped'
<1> USE DEF TypeOK
<1> DEFINE kept == <<ledger, wrote, author, misread, raced, reverted, met>>
<1>1. ASSUME UNCHANGED kept PROVE WritesTyped'
  BY <1>1 DEF WritesTyped
<1>2. ASSUME NEW t \in Turns, Bracket(t) PROVE WritesTyped'
  <2>1. CASE AutoRevert(t)
    <3>1. PICK back \in SUBSET Paths :
            /\ author' = [p \in Paths |-> IF p \in back THEN None ELSE author[p]]
            /\ ledger' = [p \in Paths |-> IF p \in back THEN HostWrote(pre[t][p]) ELSE ledger[p]]
            /\ wrote' = [p \in Paths |-> IF p \in back THEN HostWrote(pre[t][p]) ELSE wrote[p]]
            /\ misread' = misread \ back /\ UNCHANGED <<raced, reverted, met>>
      <4> DEFINE mine == {p \in set[t].keys \cap sensitive : disk[p] # pre[t][p] /\ Restorable(t, p)}
      <4>1. mine \in SUBSET Paths
        BY DEF FilesTyped
      <4> QED BY <2>1, <4>1 DEF AutoRevert, store, state
    <3>2. \A p \in Paths : HostWrote(pre[t][p]) \in [hash : Values \cup {None}, since : SUBSET Turns]
      BY HostWroteTyped DEF FilesTyped, Snapshot
    <3> QED BY <3>1, <3>2 DEF WritesTyped, HostWrites
  <2>2. CASE EndPublish(t)
    BY <2>2 DEF EndPublish, WritesTyped, BracketTyped, world, store, ui
  <2> QED BY <1>1, <1>2, <2>1, <2>2 DEF Bracket, BeginWalk, BeginPublish, EndScan, MarkLoad, MarkSave,
             SavePending, Put, world, store, state, ui
<1>3. ASSUME NEW t \in Turns, NEW p \in Paths, NEW c \in Values, AgentWrite(t, p, c)
      PROVE WritesTyped'
  BY <1>3 DEF AgentWrite, WritesTyped, store, state, ui
<1>4. CASE IoThread
  <2>1. CASE SweepUnlink
    BY <2>1 DEF SweepUnlink, WritesTyped, FilesTyped, world, state, ui
  <2> QED BY <1>1, <1>4, <2>1 DEF IoThread, RunSave, RunArchive, RemovePending, RunGc, GcBaseline, GcPending,
             GcSets, SweepLook, SweepDone, world, store, state, ui
<1>5. CASE Host
  <2>1. CASE WriteBack
    <3>1. /\ op.turn \in Turns /\ op.path \in Paths
          /\ HostWrote(pre[op.turn][op.path]) \in [hash : Values \cup {None}, since : SUBSET Turns]
      BY <2>1, OperandTyped, HostWroteTyped DEF WriteBack
    <3> QED BY <2>1, <3>1 DEF WriteBack, WritesTyped, HostWrites, store, state
  <2>2. CASE RecordBack
    BY <2>2, OperandTyped, NoteTyped DEF RecordBack, store, state
  <2>3. CASE NoteSave
    <3>1. op.path \in Paths /\ disk[op.path] \in Values
      BY <2>3 DEF NoteSave, ReviewsTyped, Operation, FilesTyped, Snapshot
    <3> QED BY <2>3, <3>1, NoteTyped DEF NoteSave, store, state
  <2>4. ASSUME NEW p \in Paths, NEW c \in Values, Save(p, c) PROVE WritesTyped'
    BY <2>4, HostWroteTyped DEF Save, WritesTyped, HostWrites, store, state
  <2> QED BY <1>1, <1>5, <2>1, <2>2, <2>3, <2>4, ZenonT(40) DEF Host, Receive, Accept, RejectLook, UndoLook,
             world, store, state
<1>6. ASSUME NEW h \in Contents, Age(h) PROVE WritesTyped'
  BY <1>1, <1>6 DEF Age, world, state, ui
<1>7. CASE Restart
  BY <1>7 DEF Restart, Forgotten, WritesTyped, HostWrites, world, store
<1> QED BY <1>2, <1>3, <1>4, <1>5, <1>6, <1>7 DEF Next

LEMMA WritesTypedInit == Init => WritesTyped
  BY DEF Init, WritesTyped, HostWrites

------------------------------------------------------------------------------
(* The two side conditions: what the operation in hand and the archive job rely on. *)

LEMMA RevertOfHeldStep == ASSUME TypeOK, RevertOfHeld, Next PROVE RevertOfHeld'
<1> USE DEF TypeOK
<1>1. ASSUME UNCHANGED <<op, host>> PROVE RevertOfHeld'
  BY <1>1 DEF RevertOfHeld
<1>2. ASSUME op' = None PROVE RevertOfHeld'
  BY <1>2 DEF RevertOfHeld
<1>3. ASSUME NEW t \in Turns, Bracket(t) PROVE RevertOfHeld'
  BY <1>1, <1>3 DEF Bracket, BeginWalk, BeginPublish, EndScan, EndPublish, MarkLoad, MarkSave,
     AutoRevert, SavePending, ui
<1>4. ASSUME NEW t \in Turns, NEW p \in Paths, NEW c \in Values, AgentWrite(t, p, c)
      PROVE RevertOfHeld'
  BY <1>1, <1>4 DEF AgentWrite, ui
<1>5. CASE IoThread
  BY <1>1, <1>5 DEF IoThread, RunSave, RunArchive, RemovePending, RunGc, GcBaseline, GcPending,
     GcSets, SweepLook, SweepUnlink, SweepDone, ui
<1>6. CASE Host
  <2>1. ASSUME NEW t \in Turns, Receive(t) PROVE RevertOfHeld'
    BY <1>2, <2>1 DEF Receive
  <2>2. ASSUME NEW t \in Turns, NEW p \in Paths, Accept(t, p) PROVE RevertOfHeld'
    BY <1>2, <2>2 DEF Accept, Open
  <2>3. ASSUME NEW t \in Turns, NEW p \in Paths, RejectLook(t, p) PROVE RevertOfHeld'
    <3>1. CASE op' = op
      BY <1>2, <2>3, <3>1 DEF RejectLook, Open
    <3>2. CASE op'.turn = t /\ op'.path = p /\ host' = host
      BY <2>3, <3>2 DEF RejectLook, Open, RevertOfHeld
    <3> QED BY <2>3, <3>1, <3>2 DEF RejectLook
  <2>4. ASSUME NEW t \in Turns, NEW p \in Paths, UndoLook(t, p) PROVE RevertOfHeld'
    BY <2>4 DEF UndoLook, RevertOfHeld
  <2>5. CASE WriteBack
    BY <2>5 DEF WriteBack, RevertOfHeld, ReviewsTyped, Operation
  <2>6. CASE RecordBack \/ NoteSave
    BY <1>2, <2>6 DEF RecordBack, NoteSave
  <2>7. ASSUME NEW p \in Paths, NEW c \in Values, Save(p, c) PROVE RevertOfHeld'
    BY <2>7 DEF Save, RevertOfHeld
  <2> QED BY <1>6, <2>1, <2>2, <2>3, <2>4, <2>5, <2>6, <2>7 DEF Host
<1>7. ASSUME NEW h \in Contents, Age(h) PROVE RevertOfHeld'
  BY <1>1, <1>7 DEF Age, ui
<1>8. CASE Restart
  BY <1>2, <1>8 DEF Restart, Forgotten
<1> QED BY <1>3, <1>4, <1>5, <1>6, <1>7, <1>8 DEF Next

(* With room for an archive of every turn, a collection drops none. *)
LEMMA NoneDropped ==
  ASSUME IsFiniteSet(Turns), Cardinality(Turns) <= Retained, BracketTyped
  PROVE  Newest = Archived
<1>1. ASSUME NEW t \in Archived
      PROVE Cardinality({u \in Archived : ended[u] > ended[t]}) < Retained
  <2> DEFINE later == {u \in Archived : ended[u] > ended[t]}
  <2>1. t \in Turns /\ later \subseteq Turns \ {t}
    BY DEF Archived, BracketTyped
  <2>2. IsFiniteSet(Turns \ {t}) /\ Cardinality(Turns \ {t}) = Cardinality(Turns) - 1
    BY <2>1, FS_RemoveElement
  <2>3. Cardinality(later) <= Cardinality(Turns \ {t}) /\ IsFiniteSet(later)
    BY <2>1, <2>2, FS_Subset
  <2>4. Cardinality(later) \in Nat /\ Cardinality(Turns) \in Nat /\ Retained \in Nat
    BY <2>3, FS_CardinalityType, ConstantsAssumption
  <2> QED BY <2>2, <2>3, <2>4
<1> QED BY <1>1 DEF Newest

RetainsAll == IsFiniteSet(Turns) /\ Cardinality(Turns) <= Retained

LEMMA SetsKept ==
  ASSUME RetainsAll, TypeOK, Next, NEW t \in Turns, sets[t] # None PROVE sets'[t] # None
<1> USE DEF TypeOK
<1>1. ASSUME NEW u \in Turns, Bracket(u) PROVE sets' = sets
  BY <1>1 DEF Bracket, BeginWalk, BeginPublish, EndScan, EndPublish, MarkLoad, MarkSave,
     AutoRevert, SavePending, files
<1>2. CASE RunArchive
  BY <1>2, HeadTyped, ConstantsAssumption DEF RunArchive, ReviewsTyped
<1>3. CASE GcSets
  <2>1. t \in Newest
    BY NoneDropped DEF RetainsAll, Archived
  <2> QED BY <1>3, <2>1 DEF GcSets
<1>4. CASE IoThread /\ ~RunArchive /\ ~GcSets
  BY <1>4 DEF IoThread, RunSave, RemovePending, RunGc, GcBaseline, GcPending,
     SweepLook, SweepUnlink, SweepDone, files
<1>5. CASE Host
  BY <1>5 DEF Host, Receive, Accept, RejectLook, UndoLook, WriteBack, RecordBack, Save, NoteSave,
     files
<1>6. CASE Restart \/ \E h \in Contents : Age(h)
  BY <1>6 DEF Restart, Age, files
<1>7. ASSUME NEW u \in Turns, NEW p \in Paths, NEW c \in Values, AgentWrite(u, p, c)
      PROVE sets' = sets
  BY <1>7 DEF AgentWrite, files
<1> QED BY <1>1, <1>2, <1>3, <1>4, <1>5, <1>6, <1>7 DEF Next

LEMMA RemovesArchivedStep ==
  ASSUME RetainsAll, TypeOK, RemovesArchived, Next PROVE RemovesArchived'
<1> USE DEF TypeOK
<1>1. ASSUME io' = io PROVE RemovesArchived'
  <2>1. CASE io # None /\ io.step = "remove"
    <3>1. io.turn \in Turns
      BY <2>1 DEF ReviewsTyped, Working
    <3> QED BY <1>1, <2>1, <3>1, SetsKept DEF RemovesArchived
  <2> QED BY <1>1, <2>1 DEF RemovesArchived
<1>2. CASE RunArchive
  BY <1>2, HeadTyped, ConstantsAssumption DEF RunArchive, RemovesArchived, ReviewsTyped
<1>3. ASSUME io' = None \/ io'.step # "remove" PROVE RemovesArchived'
  BY <1>3 DEF RemovesArchived
<1>4. ASSUME NEW u \in Turns, Bracket(u) PROVE io' = io
  BY <1>4 DEF Bracket, BeginWalk, BeginPublish, EndScan, EndPublish, MarkLoad, MarkSave,
     AutoRevert, SavePending, thread
<1>5. CASE IoThread /\ ~RunArchive
  BY <1>1, <1>3, <1>5 DEF IoThread, RunSave, RemovePending, RunGc, GcBaseline, GcPending, GcSets,
     SweepLook, SweepUnlink, SweepDone
<1>6. CASE Host
  BY <1>1, <1>6, ZenonT(40) DEF Host, Receive, Accept, RejectLook, UndoLook, WriteBack, RecordBack, Save,
     NoteSave, Decide, thread
<1>7. CASE Restart
  BY <1>3, <1>7 DEF Restart, Forgotten
<1>8. ASSUME NEW h \in Contents, Age(h) PROVE io' = io
  BY <1>8 DEF Age, thread
<1>9. ASSUME NEW u \in Turns, NEW p \in Paths, NEW c \in Values, AgentWrite(u, p, c)
      PROVE io' = io
  BY <1>9 DEF AgentWrite, thread
<1> QED BY <1>1, <1>2, <1>4, <1>5, <1>6, <1>7, <1>8, <1>9 DEF Next

------------------------------------------------------------------------------
(* A pending file is removed by the archive job only, which wrote the archive
   first; a posted turn's change set is not touched again. *)

PendingStays(t) == pending[t] # None => pending'[t] # None \/ sets'[t] # None

LEMMA PendingKept ==
  ASSUME RetainsAll, TypeOK, RemovesArchived, Next, NEW t \in Turns PROVE PendingStays(t)
<1> USE DEF TypeOK
<1>1. CASE RemovePending
  <2>1. CASE io.turn = t
    BY <1>1, <2>1 DEF RemovePending, RemovesArchived, PendingStays, ui
  <2>2. CASE io.turn # t
    BY <1>1, <2>2 DEF RemovePending, PendingStays, ReviewsTyped
  <2> QED BY <2>1, <2>2
<1>2. CASE RunSave
  BY <1>2, HeadTyped, ConstantsAssumption DEF RunSave, ReviewsTyped, PendingStays
<1>3. CASE IoThread /\ ~RemovePending /\ ~RunSave
  BY <1>3 DEF IoThread, RunArchive, RunGc, GcBaseline, GcPending, GcSets, SweepLook, SweepUnlink,
     SweepDone, files, PendingStays
<1>4. ASSUME NEW u \in Turns, Bracket(u) PROVE PendingStays(t)
  <2>1. CASE MarkSave(u)
    <3>1. loaded[u].turn \in Turns /\ loaded[u].review \in Review
      BY <2>1 DEF MarkSave, BracketTyped
    <3>2. \A keys : Marked(loaded[u].review, u, keys) \in Review
      BY <3>1, MarkedReview
    <3> QED BY <2>1, <3>1, <3>2, ConstantsAssumption DEF MarkSave, PendingStays, ReviewsTyped
  <2>2. CASE SavePending(u)
    BY <2>2, ConstantsAssumption DEF SavePending, PendingStays, ReviewsTyped, BracketTyped
  <2>3. ASSUME pending' = pending PROVE PendingStays(t)
    BY <2>3 DEF PendingStays
  <2> QED BY <1>4, <2>1, <2>2, <2>3
          DEF Bracket, BeginWalk, BeginPublish, EndScan, EndPublish, MarkLoad, AutoRevert, files
<1>5. CASE Host
  BY <1>5 DEF Host, Receive, Accept, RejectLook, UndoLook, WriteBack, RecordBack, Save, NoteSave,
     files, PendingStays
<1>6. CASE Restart \/ \E h \in Contents : Age(h)
  BY <1>6 DEF Restart, Age, files, PendingStays
<1>7. ASSUME NEW u \in Turns, NEW p \in Paths, NEW c \in Values, AgentWrite(u, p, c)
      PROVE PendingStays(t)
  BY <1>7 DEF AgentWrite, files, PendingStays
<1> QED BY <1>1, <1>2, <1>3, <1>4, <1>5, <1>6, <1>7 DEF Next

Finished(t) == phase[t] \in {"posted", "over"} /\ set[t].keys # {}

(* A turn finishes with its pending file on disk, or was finished before. *)
LEMMA FinishedBefore ==
  ASSUME TypeOK, Next, NEW t \in Turns, Finished(t)' PROVE Finished(t) \/ pending'[t] # None
<1> USE DEF TypeOK
<1>1. ASSUME NEW u \in Turns, Bracket(u) PROVE Finished(t) \/ pending'[t] # None
  <2>1. CASE SavePending(u)
    BY <2>1, ConstantsAssumption DEF SavePending, Finished, BracketTyped, ReviewsTyped
  <2>2. CASE ~SavePending(u)
    BY <1>1, <2>2 DEF Bracket, BeginWalk, BeginPublish, EndScan, EndPublish, MarkLoad, MarkSave,
       AutoRevert, Finished, BracketTyped
  <2> QED BY <2>1, <2>2
<1>2. CASE Host
  <2>1. ASSUME NEW u \in Turns, Receive(u) PROVE Finished(t)
    BY <2>1 DEF Receive, Finished, BracketTyped
  <2> QED BY <1>2, <2>1 DEF Host, Accept, RejectLook, UndoLook, WriteBack, RecordBack, Save,
             NoteSave, bracket, Finished
<1>3. CASE IoThread
  BY <1>3 DEF IoThread, RunSave, RunArchive, RemovePending, RunGc, GcBaseline, GcPending, GcSets,
     SweepLook, SweepUnlink, SweepDone, bracket, Finished
<1>4. CASE Restart
  BY <1>4 DEF Restart, Crashed, Finished, BracketTyped, NoReview, NewReview
<1>5. ASSUME NEW h \in Contents, Age(h) PROVE Finished(t)
  BY <1>5 DEF Age, bracket, Finished
<1>6. ASSUME NEW u \in Turns, NEW p \in Paths, NEW c \in Values, AgentWrite(u, p, c)
      PROVE Finished(t)
  BY <1>6 DEF AgentWrite, bracket, Finished
<1> QED BY <1>1, <1>2, <1>3, <1>4, <1>5, <1>6 DEF Next

------------------------------------------------------------------------------
Typed == TypeOK /\ RevertOfHeld

LEMMA TypedInit == Init => Typed
  BY FilesTypedInit, BracketTypedInit, ReviewsTypedInit, WritesTypedInit
  DEF Typed, TypeOK, RevertOfHeld, Init

LEMMA TypedStep == Typed /\ [Next]_vars => Typed'
<1>1. ASSUME Typed, Next PROVE Typed'
  BY <1>1, FilesTypedStep, BracketTypedStep, ReviewsTypedStep, WritesTypedStep, RevertOfHeldStep
  DEF Typed, TypeOK
<1>2. ASSUME Typed, UNCHANGED vars PROVE Typed'
  BY <1>2 DEF Typed, TypeOK, FilesTyped, BracketTyped, ReviewsTyped, WritesTyped, RevertOfHeld, vars, world,
     store, bracket, state, files, thread, ui
<1> QED BY <1>1, <1>2

(* The state keeps its types for any number of turns, files and contents, and
   the event loop never finishes a revert of a review it no longer holds. *)
THEOREM TypeCorrect == Spec => []TypeOK
<1>1. Typed => TypeOK
  BY DEF Typed
<1> QED BY TypedInit, TypedStep, <1>1, PTL DEF Spec

(* ReviewOnDisk is not inductive alone: that the archive is written before the
   pending file goes is RemovesArchived, and that both writes are of reviews, and
   none of "no review", is Typed. *)
Durable == Typed /\ RemovesArchived /\ ReviewOnDisk

LEMMA DurableInit == Init => Durable
  BY TypedInit DEF Durable, RemovesArchived, ReviewOnDisk, Init

LEMMA DurableStep == RetainsAll /\ Durable /\ [Next]_vars => Durable'
<1>1. ASSUME RetainsAll, Durable, Next PROVE Durable'
  <2>1. Typed' /\ RemovesArchived'
    BY <1>1, TypedStep, RemovesArchivedStep DEF Durable, Typed
  <2>2. ASSUME NEW t \in Turns, Finished(t)' PROVE pending'[t] # None \/ sets'[t] # None
    <3>1. CASE Finished(t)
      <4>1. pending[t] # None \/ sets[t] # None
        BY <1>1, <3>1 DEF Durable, ReviewOnDisk, Finished
      <4> QED BY <1>1, <4>1, PendingKept, SetsKept DEF Durable, Typed, PendingStays
    <3>2. CASE ~Finished(t)
      BY <1>1, <2>2, <3>2, FinishedBefore DEF Durable, Typed
    <3> QED BY <3>1, <3>2
  <2> QED BY <2>1, <2>2 DEF Durable, ReviewOnDisk, Finished
<1>2. ASSUME Durable, UNCHANGED vars PROVE Durable'
  <2>1. Typed'
    BY <1>2, TypedStep DEF Durable
  <2> QED BY <1>2, <2>1 DEF Durable, RemovesArchived, ReviewOnDisk, vars, bracket, files, thread
<1> QED BY <1>1, <1>2

(* A finished turn that changed something is pending or archived on disk at every
   moment, whatever crashes, overlap marks, reverts and collections come between,
   if the archive retains as many sets as there are turns. *)
THEOREM ReviewNeverLost ==
  ASSUME IsFiniteSet(Turns), Cardinality(Turns) <= Retained
  PROVE  Spec => []ReviewOnDisk
<1>1. RetainsAll
  BY DEF RetainsAll
<1>2. Durable /\ [Next]_vars => Durable'
  BY <1>1, DurableStep
<1>3. Durable => ReviewOnDisk
  BY DEF Durable
<1> QED BY DurableInit, <1>2, <1>3, PTL DEF Spec

------------------------------------------------------------------------------
(* How far a turn is: only its own steps and a crash move it. *)

Turn(t) == <<phase[t], pre[t], post[t], set[t], started[t], ended[t]>>

Moves(t) ==
  \/ BeginWalk(t) \/ BeginPublish(t) \/ EndScan(t) \/ EndPublish(t)
  \/ AutoRevert(t) \/ SavePending(t) \/ Receive(t) \/ Restart

LEMMA TurnMoves ==
  ASSUME TypeOK, Next, NEW t \in Turns PROVE Moves(t) \/ UNCHANGED Turn(t)
<1> USE DEF TypeOK, Turn
<1>1. ASSUME UNCHANGED bracket PROVE UNCHANGED Turn(t)
  BY <1>1 DEF bracket
<1>2. ASSUME NEW u \in Turns, Bracket(u), u # t PROVE UNCHANGED Turn(t)
  <2>1. CASE \/ BeginWalk(u) \/ BeginPublish(u) \/ EndScan(u) \/ EndPublish(u)
    BY <1>2, <2>1 DEF BeginWalk, BeginPublish, EndScan, EndPublish, BracketTyped, FilesTyped
  <2>2. CASE MarkSave(u) \/ SavePending(u) \/ \E v \in Turns : MarkLoad(u, v)
    BY <1>2, <2>2 DEF MarkLoad, MarkSave, SavePending, BracketTyped, FilesTyped
  <2>3. CASE AutoRevert(u)
    BY <1>2, <2>3 DEF AutoRevert, BracketTyped, FilesTyped
  <2> QED BY <1>2, <2>1, <2>2, <2>3 DEF Bracket
<1>3. ASSUME Bracket(t) PROVE Moves(t) \/ UNCHANGED Turn(t)
  BY <1>3 DEF Bracket, Moves, MarkLoad, MarkSave
<1>4. ASSUME NEW u \in Turns, Receive(u), u # t PROVE UNCHANGED Turn(t)
  BY <1>4 DEF Receive, BracketTyped
<1>5. CASE Host
  BY <1>1, <1>4, <1>5 DEF Host, Accept, RejectLook, UndoLook, WriteBack, RecordBack, Save, NoteSave, Moves
<1>6. CASE IoThread
  BY <1>1, <1>6 DEF IoThread, RunSave, RunArchive, RemovePending, RunGc, GcBaseline, GcPending,
     GcSets, SweepLook, SweepUnlink, SweepDone
<1>7. ASSUME NEW h \in Contents, Age(h) PROVE UNCHANGED Turn(t)
  BY <1>1, <1>7 DEF Age
<1>8. ASSUME NEW u \in Turns, NEW p \in Paths, NEW c \in Values, AgentWrite(u, p, c)
      PROVE UNCHANGED Turn(t)
  BY <1>1, <1>8 DEF AgentWrite
<1> QED BY <1>2, <1>3, <1>5, <1>6, <1>7, <1>8 DEF Next, Moves

(* What a turn's first scan found stays what it found. *)
Begun == {t \in Turns : phase[t] # "idle"}

LEMMA BegunStay ==
  ASSUME TypeOK, Next, NEW t \in Begun PROVE t \in Begun' /\ pre'[t] = pre[t]
<1>1. t \in Turns /\ phase[t] # "idle"
  BY DEF Begun
<1>2. CASE UNCHANGED Turn(t)
  BY <1>1, <1>2 DEF Turn, Begun
<1>3. CASE Moves(t)
  BY <1>1, <1>3 DEF Moves, BeginWalk, BeginPublish, EndScan, EndPublish, AutoRevert, SavePending,
     Receive, Restart, Crashed, Begun, TypeOK, BracketTyped
<1> QED BY <1>1, <1>2, <1>3, TurnMoves

------------------------------------------------------------------------------
(* Attribution: whose a change is, by the ledger and in truth. *)

(* While what an agent wrote last stands in a file, and its turn writes no more,
   nobody touches the file or what is known of the host's writes to it. *)
LEMMA AgentsStands ==
  ASSUME TypeOK, Next, NEW t \in Turns, NEW p \in Paths, phase[t] # "running", author'[p] = t
  PROVE  /\ author[p] = t /\ disk'[p] = disk[p] /\ wrote'[p] = wrote[p]
         /\ p \in misread => p \in misread'
<1> USE DEF TypeOK
<1> DEFINE Stands == /\ author[p] = t /\ disk'[p] = disk[p] /\ wrote'[p] = wrote[p]
                     /\ p \in misread => p \in misread'
<1>0. t # None
  BY ConstantsAssumption
<1>1. ASSUME UNCHANGED <<author, disk, wrote, misread>> PROVE Stands
  BY <1>1
<1>2. ASSUME NEW u \in Turns, Bracket(u) PROVE Stands
  <2>1. CASE AutoRevert(u)
    BY <1>0, <2>1 DEF AutoRevert
  <2> QED BY <1>1, <1>2, <2>1 DEF Bracket, BeginWalk, BeginPublish, EndScan, EndPublish, MarkLoad,
             MarkSave, SavePending, world, ui
<1>3. ASSUME NEW u \in Turns, NEW q \in Paths, NEW c \in Values, AgentWrite(u, q, c) PROVE Stands
  BY <1>3 DEF AgentWrite, WritesTyped, FilesTyped, Snapshot, ui
<1>4. CASE IoThread
  BY <1>1, <1>4 DEF IoThread, RunSave, RunArchive, RemovePending, RunGc, GcBaseline, GcPending, GcSets,
     SweepLook, SweepUnlink, SweepDone, world, ui
<1>5. CASE Host
  <2>1. CASE WriteBack
    <3>1. op.path \in Paths
      BY <2>1, OperandTyped DEF WriteBack
    <3> QED BY <1>0, <2>1, <3>1 DEF WriteBack, WritesTyped, FilesTyped, Snapshot, HostWrites
  <2>2. ASSUME NEW q \in Paths, NEW c \in Values, Save(q, c) PROVE Stands
    BY <1>0, <2>2 DEF Save, WritesTyped, FilesTyped, Snapshot, HostWrites
  <2>3. ASSUME NEW q, NEW c, Note(q, c), UNCHANGED wrote PROVE Stands
    BY <1>0, <2>3 DEF Note
  <2> QED BY <1>1, <1>5, <2>1, <2>2, <2>3 DEF Host, Receive, Accept, RejectLook, UndoLook, RecordBack,
             NoteSave, world
<1>6. ASSUME NEW h \in Contents, Age(h) PROVE Stands
  BY <1>1, <1>6 DEF Age, world, ui
<1>7. CASE Restart
  BY <1>1, <1>7 DEF Restart, world
<1> QED BY <1>2, <1>3, <1>4, <1>5, <1>6, <1>7 DEF Next

(* The ledger holds the host's last write to a file as it was made, for every turn
   that could be told: one that began since had already seen those bytes. *)
Noted ==
  \A p \in Paths \ misread : \A t \in ledger[p].since :
    /\ ledger[p].hash = wrote[p].hash
    /\ t \in wrote[p].since \/ pre[t][p] = ledger[p].hash

SinceBegun == \A p \in Paths : ledger[p].since \subseteq Begun

(* Between a write of the host and its note, unless another came in between. *)
InHand ==
  (op # None /\ op.step \in {"record", "note"} /\ author[op.path] = None) =>
    /\ disk[op.path] = wrote[op.path].hash
    /\ \A t \in Begun : t \in wrote[op.path].since \/ pre[t][op.path] = wrote[op.path].hash

Done(t) == phase[t] \in {"scanned", "marking", "saving", "posted", "over"}

(* What an agent wrote last is what its turn's end scan found. *)
AfterIsDisk == \A t \in Turns, p \in Paths : Done(t) /\ author[p] = t => disk[p] = post[t][p]

Attribution == Noted /\ SinceBegun /\ InHand /\ AfterIsDisk /\ AgentWriteReviewed /\ SensitiveHandled

LEMMA SinceBegunStep ==
  ASSUME TypeOK, SinceBegun, Next PROVE SinceBegun'
<1> USE DEF TypeOK
<1>1. \A t \in Begun : t \in Begun'
  BY BegunStay
<1>2. \A p \in Paths : ledger'[p].since \subseteq ledger[p].since \cup Begun
  <2>1. \A c : HostWrote(c).since = Begun
    BY DEF HostWrote, Begun
  <2>2. ASSUME NEW u \in Turns, Bracket(u), NEW p \in Paths
        PROVE  ledger'[p].since \subseteq ledger[p].since \cup Begun
    BY <2>1, <2>2 DEF Bracket, AutoRevert, BeginWalk, BeginPublish, EndScan, EndPublish, MarkLoad, MarkSave,
       SavePending, ui
  <2>3. ASSUME NEW q \in Paths, NEW c, Note(q, c), NEW p \in Paths
        PROVE  ledger'[p].since \subseteq ledger[p].since \cup Begun
    BY <2>1, <2>3 DEF Note, WritesTyped, HostWrites
  <2>4. CASE RecordBack
    BY <2>3, <2>4, OperandTyped DEF RecordBack
  <2>5. CASE NoteSave
    BY <2>3, <2>5 DEF NoteSave, ReviewsTyped, Operation
  <2>6. CASE Host /\ ~RecordBack /\ ~NoteSave
    BY <2>6 DEF Host, Receive, Accept, RejectLook, UndoLook, WriteBack, Save
  <2>7. CASE IoThread \/ (\E h \in Contents : Age(h)) \/
             \E u \in Turns, q \in Paths, c \in Values : AgentWrite(u, q, c)
    BY <2>7 DEF Age, AgentWrite, IoThread, RunSave, RunArchive, RemovePending, RunGc, GcBaseline, GcPending,
       GcSets, SweepLook, SweepUnlink, SweepDone, ui
  <2>8. CASE Restart
    BY <2>8 DEF Restart, Forgotten
  <2> QED BY <2>2, <2>4, <2>5, <2>6, <2>7, <2>8 DEF Next
<1> QED BY <1>1, <1>2 DEF SinceBegun

LEMMA NotedStep ==
  ASSUME TypeOK, Noted, SinceBegun, InHand, Next PROVE Noted'
<1> USE DEF TypeOK
<1> DEFINE Right(p) == \A t \in ledger[p].since :
             /\ ledger[p].hash = wrote[p].hash
             /\ t \in wrote[p].since \/ pre[t][p] = ledger[p].hash
<1>1. ASSUME NEW p \in Paths, p \notin misread, ledger'[p] = ledger[p], wrote'[p] = wrote[p] PROVE Right(p)'
  <2>1. \A t \in ledger[p].since : pre'[t] = pre[t]
    BY BegunStay DEF SinceBegun
  <2> QED BY <1>1, <2>1 DEF Noted
<1>2. ASSUME UNCHANGED <<ledger, wrote, misread>> PROVE Noted'
  BY <1>1, <1>2 DEF Noted
<1>3. ASSUME NEW u \in Turns, Bracket(u) PROVE Noted'
  <2>1. CASE AutoRevert(u)
    <3> SUFFICES ASSUME NEW p \in Paths, p \notin misread' PROVE Right(p)'
      BY DEF Noted
    <3> DEFINE back == {q \in set[u].keys \cap sensitive : disk[q] # pre[u][q] /\ Restorable(u, q)}
    <3>1. /\ ledger' = [q \in Paths |-> IF q \in back THEN HostWrote(pre[u][q]) ELSE ledger[q]]
          /\ wrote' = [q \in Paths |-> IF q \in back THEN HostWrote(pre[u][q]) ELSE wrote[q]]
          /\ misread' = misread \ back
      BY <2>1 DEF AutoRevert
    <3>2. CASE p \in back
      BY <3>1, <3>2
    <3>3. CASE p \notin back
      BY <1>1, <3>1, <3>3
    <3> QED BY <3>2, <3>3
  <2> QED BY <1>2, <1>3, <2>1 DEF Bracket, BeginWalk, BeginPublish, EndScan, EndPublish, MarkLoad, MarkSave,
             SavePending, world, ui
<1>4. ASSUME NEW q \in Paths, NEW c, Note(q, c), UNCHANGED <<wrote, bracket>>, op # None,
             op.step \in {"record", "note"}, op.path = q
      PROVE  Noted'
  <2> SUFFICES ASSUME NEW p \in Paths, p \notin misread' PROVE Right(p)'
    BY DEF Noted
  <2>1. CASE p = q
    <3>1. author[q] = None /\ wrote[q].hash = c /\ ledger'[q] = HostWrote(c)
      BY <1>4, <2>1 DEF Note, WritesTyped, HostWrites
    <3>2. \A t \in Begun : t \in wrote[q].since \/ pre[t][q] = c
      BY <1>4, <3>1 DEF InHand
    <3>3. HostWrote(c).since = Begun /\ HostWrote(c).hash = c /\ UNCHANGED pre
      BY <1>4 DEF HostWrote, Begun, bracket
    <3> QED BY <1>4, <2>1, <3>1, <3>2, <3>3
  <2>2. CASE p # q
    <3>1. ledger'[p] = ledger[p] /\ p \notin misread
      BY <1>4, <2>2 DEF Note, WritesTyped, HostWrites
    <3> QED BY <1>1, <1>4, <3>1
  <2> QED BY <2>1, <2>2
<1>5. CASE Host
  <2>1. CASE WriteBack
    <3>1. op.path \in Paths
      BY <2>1, OperandTyped DEF WriteBack
    <3>2. ASSUME NEW p \in Paths, p \notin misread' PROVE p \notin misread /\ ledger'[p] = ledger[p] /\ wrote'[p] = wrote[p]
      BY <2>1, <3>1, <3>2 DEF WriteBack, WritesTyped, HostWrites
    <3> QED BY <1>1, <3>2 DEF Noted
  <2>2. ASSUME NEW q \in Paths, NEW c \in Values, Save(q, c) PROVE Noted'
    <3>2. ASSUME NEW p \in Paths, p \notin misread' PROVE p \notin misread /\ ledger'[p] = ledger[p] /\ wrote'[p] = wrote[p]
      BY <2>2, <3>2 DEF Save, WritesTyped, HostWrites
    <3> QED BY <1>1, <3>2 DEF Noted
  <2>3. CASE RecordBack
    BY <1>4, <2>3, OperandTyped DEF RecordBack
  <2>4. CASE NoteSave
    BY <1>4, <2>4 DEF NoteSave, ReviewsTyped, Operation
  <2> QED BY <1>2, <1>5, <2>1, <2>2, <2>3, <2>4 DEF Host, Receive, Accept, RejectLook, UndoLook, world
<1>6. CASE IoThread
  BY <1>2, <1>6 DEF IoThread, RunSave, RunArchive, RemovePending, RunGc, GcBaseline, GcPending, GcSets,
     SweepLook, SweepUnlink, SweepDone, world, ui
<1>7. ASSUME NEW h \in Contents, Age(h) PROVE Noted'
  BY <1>2, <1>7 DEF Age, world, ui
<1>8. ASSUME NEW u \in Turns, NEW q \in Paths, NEW c \in Values, AgentWrite(u, q, c) PROVE Noted'
  BY <1>2, <1>8 DEF AgentWrite, ui
<1>9. CASE Restart
  BY <1>9 DEF Restart, Forgotten, Noted
<1> QED BY <1>3, <1>5, <1>6, <1>7, <1>8, <1>9 DEF Next

LEMMA InHandStep ==
  ASSUME TypeOK, InHand, Next PROVE InHand'
<1> USE DEF TypeOK
<1> DEFINE q == op.path
<1>1. ASSUME op' = None \/ op'.step = "write" PROVE InHand'
  BY <1>1 DEF InHand
<1>2. ASSUME UNCHANGED <<op, author, disk, wrote, phase, pre>> PROVE InHand'
  BY <1>2 DEF InHand, Begun
<1>3. ASSUME op # None, op.step \in {"record", "note"} PROVE q \in Paths
  BY <1>3 DEF ReviewsTyped, Operation
<1>4. ASSUME NEW u \in Turns, Bracket(u) PROVE InHand'
  <2>1. CASE AutoRevert(u)
    <3> DEFINE back == {p \in set[u].keys \cap sensitive : disk[p] # pre[u][p] /\ Restorable(u, p)}
    <3>1. /\ disk' = [p \in Paths |-> IF p \in back THEN pre[u][p] ELSE disk[p]]
          /\ author' = [p \in Paths |-> IF p \in back THEN None ELSE author[p]]
          /\ wrote' = [p \in Paths |-> IF p \in back THEN HostWrote(pre[u][p]) ELSE wrote[p]]
          /\ UNCHANGED <<op, pre>> /\ Begun' = Begun
      BY <2>1 DEF AutoRevert, Begun, BracketTyped
    <3>2. \A c : HostWrote(c).since = Begun /\ HostWrote(c).hash = c
      BY DEF HostWrote, Begun
    <3> HIDE DEF back
    <3> SUFFICES ASSUME op # None, op.step \in {"record", "note"}, author'[q] = None
                 PROVE  /\ disk'[q] = wrote'[q].hash
                        /\ \A t \in Begun : t \in wrote'[q].since \/ pre[t][q] = wrote'[q].hash
      BY <3>1 DEF InHand
    <3>3. CASE q \in back
      BY <1>3, <3>1, <3>2, <3>3
    <3>4. CASE q \notin back
      BY <1>3, <3>1, <3>4 DEF InHand
    <3> QED BY <3>3, <3>4
  <2>2. CASE BeginWalk(u)
    <3>1. /\ UNCHANGED <<op, author, disk, wrote>> /\ \A t \in Turns \ {u} : pre'[t] = pre[t]
          /\ pre'[u] = disk /\ Begun' \subseteq Begun \cup {u}
      BY <2>2 DEF BeginWalk, world, ui, Begun, BracketTyped, FilesTyped
    <3>2. Begun' \subseteq Turns
      BY DEF Begun
    <3> QED BY <3>1, <3>2 DEF InHand
  <2>3. CASE ~BeginWalk(u) /\ ~AutoRevert(u)
    <3>1. UNCHANGED <<op, author, disk, wrote, pre>>
      BY <1>4, <2>3 DEF Bracket, BeginPublish, EndScan, EndPublish, MarkLoad, MarkSave, SavePending, world, ui
    <3>2. Begun' = Begun
      BY <1>4, <2>3 DEF Bracket, BeginPublish, EndScan, EndPublish, MarkLoad, MarkSave, SavePending, Begun, BracketTyped
    <3> QED BY <3>1, <3>2 DEF InHand
  <2> QED BY <2>1, <2>2, <2>3
<1>5. ASSUME NEW u \in Turns, NEW p \in Paths, NEW c \in Values, AgentWrite(u, p, c) PROVE InHand'
  <2>1. UNCHANGED <<op, wrote, pre>> /\ Begun' = Begun
    BY <1>5 DEF AgentWrite, ui, bracket, Begun
  <2>2. ASSUME op # None, op.step \in {"record", "note"}, author'[q] = None
        PROVE  disk'[q] = disk[q] /\ author[q] = None
    <3>1. q # p
      BY <1>5, <2>2, ConstantsAssumption DEF AgentWrite, WritesTyped
    <3> QED BY <1>3, <1>5, <2>2, <3>1 DEF AgentWrite, FilesTyped, Snapshot, WritesTyped
  <2> QED BY <2>1, <2>2 DEF InHand
<1>6. CASE IoThread
  BY <1>2, <1>6 DEF IoThread, RunSave, RunArchive, RemovePending, RunGc, GcBaseline, GcPending, GcSets,
     SweepLook, SweepUnlink, SweepDone, world, ui, bracket
<1>7. CASE Host
  <2>1. CASE WriteBack
    <3>1. q \in Paths
      BY <2>1, OperandTyped DEF WriteBack
    <3>2. /\ disk'[q] = pre[op.turn][q] /\ wrote'[q] = HostWrote(pre[op.turn][q]) /\ op'.path = q
          /\ Begun' = Begun
      BY <2>1, <3>1 DEF WriteBack, FilesTyped, Snapshot, WritesTyped, HostWrites, ReviewsTyped, Operation,
                        bracket, Begun
    <3>3. \A c : HostWrote(c).since = Begun /\ HostWrote(c).hash = c
      BY DEF HostWrote, Begun
    <3> QED BY <3>2, <3>3 DEF InHand
  <2>2. ASSUME NEW p \in Paths, NEW c \in Values, Save(p, c) PROVE InHand'
    <3>1. disk'[p] = c /\ wrote'[p] = HostWrote(c) /\ op'.path = p /\ Begun' = Begun
      BY <2>2 DEF Save, FilesTyped, Snapshot, WritesTyped, HostWrites, bracket, Begun
    <3>2. HostWrote(c).since = Begun /\ HostWrote(c).hash = c
      BY DEF HostWrote, Begun
    <3> QED BY <3>1, <3>2 DEF InHand
  <2>3. ASSUME NEW t \in Turns, Receive(t) PROVE InHand'
    BY <1>1, <2>3 DEF Receive
  <2>4. ASSUME NEW t \in Turns, NEW p \in Paths, Accept(t, p) \/ RejectLook(t, p) \/ UndoLook(t, p) PROVE InHand'
    BY <1>1, <2>4 DEF Accept, RejectLook, UndoLook, Open
  <2> QED BY <1>1, <1>7, <2>1, <2>2, <2>3, <2>4 DEF Host, RecordBack, NoteSave
<1>8. ASSUME NEW h \in Contents, Age(h) PROVE InHand'
  BY <1>2, <1>8 DEF Age, world, ui, bracket
<1>9. CASE Restart
  BY <1>1, <1>9 DEF Restart, Forgotten
<1> QED BY <1>4, <1>5, <1>6, <1>7, <1>8, <1>9 DEF Next

LEMMA AfterIsDiskStep ==
  ASSUME TypeOK, AfterIsDisk, Next PROVE AfterIsDisk'
<1> USE DEF TypeOK
<1> SUFFICES ASSUME NEW t \in Turns, NEW p \in Paths, Done(t)', author'[p] = t
             PROVE  disk'[p] = post'[t][p]
  BY DEF AfterIsDisk, Done
<1>1. CASE EndScan(t)
  BY <1>1 DEF EndScan, FilesTyped, world
<1>2. CASE ~EndScan(t)
  <2>1. Done(t) /\ post'[t] = post[t]
    <3>1. CASE UNCHANGED Turn(t)
      BY <3>1 DEF Turn, Done
    <3>2. CASE Moves(t)
      BY <1>2, <3>2 DEF Moves, BeginWalk, BeginPublish, EndPublish, AutoRevert, SavePending, Receive,
         Restart, Crashed, BracketTyped, Done
    <3> QED BY <3>1, <3>2, TurnMoves
  <2>2. author[p] = t /\ disk'[p] = disk[p]
    BY <2>1, AgentsStands DEF Done
  <2> QED BY <2>1, <2>2 DEF AfterIsDisk
<1> QED BY <1>1, <1>2

(* At the end of a turn what the ledger explains is not put to review. *)
LEMMA AgentWriteReviewedStep ==
  ASSUME TypeOK, Noted, SinceBegun, AgentWriteReviewed, Next PROVE AgentWriteReviewed'
<1> USE DEF TypeOK
<1> SUFFICES ASSUME NEW t \in Turns, NEW p \in Paths, phase'[t] = "marking", author'[p] = t, pre'[t][p] # post'[t][p]
             PROVE  \/ p \in set'[t].keys
                    \/ t \in wrote'[p].since /\ wrote'[p].hash = post'[t][p]
                    \/ p \in misread'
  BY DEF AgentWriteReviewed
<1>1. CASE EndPublish(t)
  <2>1. /\ set'[t].keys = Changed(t) /\ UNCHANGED <<pre, post, wrote, misread>>
    BY <1>1 DEF EndPublish, NewReview, BracketTyped, ui, world
  <2>2. p \in Changed(t) \/ (t \in ledger[p].since /\ ledger[p].hash = post[t][p])
    BY <2>1 DEF Changed, Attributes
  <2> QED BY <2>1, <2>2 DEF Noted
<1>2. CASE ~EndPublish(t)
  <2>1. phase[t] = "marking" /\ set'[t] = set[t] /\ post'[t] = post[t] /\ pre'[t] = pre[t]
    <3>1. CASE UNCHANGED Turn(t)
      BY <3>1 DEF Turn
    <3>2. CASE Moves(t)
      BY <1>2, <3>2 DEF Moves, BeginWalk, BeginPublish, EndScan, AutoRevert, SavePending, Receive,
         Restart, Crashed, BracketTyped
    <3> QED BY <3>1, <3>2, TurnMoves
  <2>2. /\ author[p] = t /\ wrote'[p] = wrote[p]
        /\ p \in misread => p \in misread'
    BY <2>1, AgentsStands
  <2> QED BY <2>1, <2>2 DEF AgentWriteReviewed
<1> QED BY <1>1, <1>2

LEMMA SensitiveHandledStep ==
  ASSUME TypeOK, AfterIsDisk, AgentWriteReviewed, SensitiveHandled, Next PROVE SensitiveHandled'
<1> USE DEF TypeOK
<1>0. sensitive' = sensitive
  BY DEF Next, Bracket, BeginWalk, BeginPublish, EndScan, EndPublish, MarkLoad, MarkSave, AutoRevert, SavePending,
     AgentWrite, IoThread, RunSave, RunArchive, RemovePending, RunGc, GcBaseline, GcPending, GcSets, SweepLook,
     SweepUnlink, SweepDone, Host, Receive, Accept, RejectLook, UndoLook, WriteBack, RecordBack, NoteSave, Note, Save,
     Age, Restart, world
<1> SUFFICES ASSUME NEW t \in Turns, NEW p \in sensitive, phase'[t] \in {"saving", "posted", "over"},
                    author'[p] = t, disk'[p] # pre'[t][p]
             PROVE  \/ p \in set'[t].keys
                    \/ t \in wrote'[p].since /\ wrote'[p].hash = disk'[p]
                    \/ p \in misread'
  BY <1>0 DEF SensitiveHandled
<1>1. p \in Paths
  BY DEF FilesTyped
<1>2. CASE AutoRevert(t)
  <2> DEFINE back == {q \in set[t].keys \cap sensitive : disk[q] # pre[t][q] /\ Restorable(t, q)}
             gone == {q \in set[t].keys \cap sensitive : Undone(t, q)}
  <2>1. phase[t] = "marking" /\ UNCHANGED pre
    BY <1>2 DEF AutoRevert
  <2>2. author[p] = t /\ disk'[p] = disk[p] /\ wrote'[p] = wrote[p] /\ (p \in misread => p \in misread')
    BY <1>1, <2>1, AgentsStands
  <2>3. p \notin back
    BY <1>1, <1>2, ConstantsAssumption DEF AutoRevert
  <2>4. set'[t].keys = set[t].keys \ gone
    BY <1>2 DEF AutoRevert, BracketTyped, Review
  <2>5. disk[p] = post[t][p]
    BY <1>1, <2>1, <2>2 DEF AfterIsDisk, Done
  <2>6. CASE p \in set[t].keys
    BY <2>1, <2>2, <2>3, <2>4, <2>6 DEF Undone
  <2>7. CASE p \notin set[t].keys
    BY <1>1, <2>1, <2>2, <2>5, <2>7 DEF AgentWriteReviewed
  <2> QED BY <2>6, <2>7
<1>3. CASE ~AutoRevert(t)
  <2>1. phase[t] \in {"saving", "posted", "over"} /\ set'[t].keys = set[t].keys /\ pre'[t] = pre[t]
    <3>1. CASE UNCHANGED Turn(t)
      BY <3>1 DEF Turn
    <3>2. CASE Moves(t)
      BY <1>3, <3>2 DEF Moves, BeginWalk, BeginPublish, EndScan, EndPublish, SavePending, Receive,
         Restart, Crashed, BracketTyped
    <3> QED BY <3>1, <3>2, TurnMoves
  <2>2. /\ author[p] = t /\ disk'[p] = disk[p] /\ wrote'[p] = wrote[p]
        /\ p \in misread => p \in misread'
    BY <1>1, <2>1, AgentsStands
  <2> QED BY <2>1, <2>2 DEF SensitiveHandled
<1> QED BY <1>2, <1>3, SMTT(30)

LEMMA AttributionInductive == Spec => []Attribution
<1>1. Init => Attribution
  BY ConstantsAssumption DEF Init, Attribution, Noted, SinceBegun, InHand, AfterIsDisk, Done,
     AgentWriteReviewed, SensitiveHandled
<1>2. ASSUME Typed, Attribution, Next PROVE Attribution'
  BY <1>2, NotedStep, SinceBegunStep, InHandStep, AfterIsDiskStep, AgentWriteReviewedStep, SensitiveHandledStep
  DEF Attribution, Typed
<1>3. ASSUME Attribution, UNCHANGED vars PROVE Attribution'
  BY <1>3 DEF Attribution, Noted, SinceBegun, InHand, AfterIsDisk, Done, Begun, AgentWriteReviewed,
     SensitiveHandled, vars, world, bracket, ui
<1> QED BY <1>1, <1>2, <1>3, TypedInit, TypedStep, PTL DEF Spec

(* A change that stands as an agent left it is put to review when its turn ends,
   or was the host's own once, or a write of the host was noted late: for any turns and
   files, whatever host, agents and reviews write meanwhile (mod.rs:311, ledger.rs:47). *)
THEOREM AgentsReviewed == Spec => []AgentWriteReviewed
BY AttributionInductive, PTL DEF Attribution

(* A sensitive file an agent changed is put back when its turn ends or stays in the
   review, under the same exceptions (mod.rs:390). *)
THEOREM SensitiveNotSilent == Spec => []SensitiveHandled
BY AttributionInductive, PTL DEF Attribution

------------------------------------------------------------------------------
(* Overlaps: who is registered, and who is remembered for them. *)

Live(t) == phase[t] \in {"running", "scanned"}
Ended(t) == phase[t] \in {"marking", "saving", "posted", "over"}
Past(t) == Ended(t) \/ phase[t] = "lost"

ActiveLive == active = {t \in Turns : Live(t)}

(* u published its end while t was registered: as long as t runs u is remembered, and
   when t has ended its review names u. *)
Known(u, t) ==
  /\ Past(u) /\ phase[t] \notin {"idle", "walked"}
  /\ Live(t) /\ ended[u] >= started[t] =>
       \E r \in recent : r.turn = u /\ r.ended = ended[u] /\ set[u].keys \subseteq r.keys
  /\ Ended(t) /\ ended[u] >= started[t] =>
       \A p \in set[t].keys \cap set[u].keys : u \in set[t].marks[p]

MetKnown == \A u, t \in Turns : <<u, t>> \in met => Known(u, t)

LEMMA ActiveLiveStep == ASSUME TypeOK, ActiveLive, Next PROVE ActiveLive'
<1> USE DEF TypeOK
<1>1. ASSUME NEW u \in Turns, Bracket(u) PROVE ActiveLive'
  <2>1. CASE BeginPublish(u)
    BY <2>1 DEF BeginPublish, ActiveLive, Live, BracketTyped
  <2>2. CASE EndPublish(u)
    BY <2>2 DEF EndPublish, ActiveLive, Live, BracketTyped
  <2>3. CASE ~BeginPublish(u) /\ ~EndPublish(u)
    BY <1>1, <2>3 DEF Bracket, BeginWalk, EndScan, MarkLoad, MarkSave, AutoRevert, SavePending, state,
       ActiveLive, Live, BracketTyped
  <2> QED BY <2>1, <2>2, <2>3
<1>2. ASSUME UNCHANGED <<phase, active>> PROVE ActiveLive'
  BY <1>2 DEF ActiveLive, Live
<1>3. ASSUME NEW u \in Turns, Receive(u) PROVE ActiveLive'
  BY <1>3 DEF Receive, state, ActiveLive, Live, BracketTyped
<1>4. CASE Host
  BY <1>2, <1>3, <1>4 DEF Host, Accept, RejectLook, UndoLook, WriteBack, RecordBack, Save, NoteSave, bracket, state
<1>5. CASE IoThread
  BY <1>2, <1>5 DEF IoThread, RunSave, RunArchive, RemovePending, RunGc, GcBaseline, GcPending, GcSets,
     SweepLook, SweepUnlink, SweepDone, bracket, state
<1>6. CASE (\E h \in Contents : Age(h)) \/ \E u \in Turns, q \in Paths, c \in Values : AgentWrite(u, q, c)
  BY <1>2, <1>6 DEF Age, AgentWrite, bracket, state
<1>7. CASE Restart
  BY <1>7 DEF Restart, Forgotten, Crashed, ActiveLive, Live, BracketTyped
<1> QED BY <1>1, <1>4, <1>5, <1>6, <1>7 DEF Next

(* A turn past its end keeps its stamp, and its review only shrinks. *)
LEMMA PastShrinks ==
  ASSUME TypeOK, Next, NEW u \in Turns, Past(u)
  PROVE  Past(u)' /\ ended'[u] = ended[u] /\ set'[u].keys \subseteq set[u].keys
<1> USE DEF TypeOK
<1>1. CASE UNCHANGED Turn(u)
  BY <1>1 DEF Turn, Past, Ended
<1>2. CASE Moves(u)
  <2>1. CASE AutoRevert(u)
    BY <2>1 DEF AutoRevert, Past, Ended, BracketTyped, Review
  <2>2. CASE Restart
    BY <2>2 DEF Restart, Crashed, Past, Ended, NoReview, NewReview
  <2> QED BY <1>2, <2>1, <2>2 DEF Moves, BeginWalk, BeginPublish, EndScan, EndPublish, SavePending, Receive,
             Past, Ended, BracketTyped
<1> QED BY <1>1, <1>2, TurnMoves

LEMMA RecentKept ==
  ASSUME TypeOK, ActiveLive, Next, NEW t \in Turns, Live(t), Live(t)', NEW r \in recent, r.ended >= started[t]
  PROVE  r \in recent'
<1> USE DEF TypeOK
<1>1. ASSUME NEW u \in Turns, EndPublish(u) PROVE r \in recent'
  <2>1. u # t
    BY <1>1 DEF EndPublish, Live, BracketTyped
  <2>2. t \in active \ {u}
    BY <2>1 DEF ActiveLive
  <2> QED BY <1>1, <2>2 DEF EndPublish, Surviving
<1>2. ~Restart
  BY SMTT(30) DEF Restart, Crashed, Live
<1>3. (\A u \in Turns : ~EndPublish(u)) => recent' = recent
  BY <1>2, ZenonT(40) DEF Next, Bracket, BeginWalk, BeginPublish, EndScan, MarkLoad, MarkSave, AutoRevert, SavePending,
     AgentWrite, IoThread, RunSave, RunArchive, RemovePending, RunGc, GcBaseline, GcPending, GcSets, SweepLook,
     SweepUnlink, SweepDone, Host, Receive, Accept, RejectLook, UndoLook, WriteBack, RecordBack, NoteSave, Save,
     Age, state
<1> QED BY <1>1, <1>3

LEMMA MetBy ==
  ASSUME TypeOK, Next, NEW u \in Turns, NEW t \in Turns, <<u, t>> \in met', <<u, t>> \notin met
  PROVE  EndPublish(u) /\ t \in active \ {u}
<1>1. ASSUME NEW v \in Turns, EndPublish(v) PROVE v = u /\ t \in active \ {u}
  BY <1>1 DEF EndPublish
<1>2. ~\A v \in Turns : ~EndPublish(v)
  BY DEF Next, Bracket, BeginWalk, BeginPublish, EndScan, MarkLoad, MarkSave, AutoRevert, SavePending,
     AgentWrite, IoThread, RunSave, RunArchive, RemovePending, RunGc, GcBaseline, GcPending, GcSets, SweepLook,
     SweepUnlink, SweepDone, Host, Receive, Accept, RejectLook, UndoLook, WriteBack, RecordBack, NoteSave, Save,
     Age, state, Restart
<1> QED BY <1>1, <1>2

(* What publishing the end of u leaves. *)
LEMMA EndPublished ==
  ASSUME TypeOK, NEW u \in Turns, EndPublish(u)
  PROVE  /\ set'[u].keys = Changed(u) /\ UNCHANGED <<started, ended>>
         /\ phase' = [phase EXCEPT ![u] = "marking"]
         /\ \A p \in Paths : set'[u].marks[p] = {r.turn : r \in {x \in Overlapped(u, Changed(u)) : p \in x.keys \cap Changed(u)}}
         /\ \A t \in active \ {u} : ended[u] >= started[t] =>
              [turn |-> u, ended |-> ended[u], keys |-> Changed(u)] \in recent'
  BY DEF EndPublish, NewReview, TypeOK, BracketTyped, Surviving

LEMMA MetKnownStep == ASSUME TypeOK, ActiveLive, MetKnown, Next PROVE MetKnown'
<1> USE DEF TypeOK
<1> SUFFICES ASSUME NEW u \in Turns, NEW t \in Turns, <<u, t>> \in met' PROVE Known(u, t)'
  BY DEF MetKnown
<1>1. CASE <<u, t>> \notin met
  <2>1. EndPublish(u) /\ t \in active \ {u}
    BY <1>1, MetBy
  <2>2. Live(t) /\ u # t
    BY <2>1 DEF ActiveLive
  <2>3. /\ set'[u].keys = Changed(u) /\ UNCHANGED <<started, ended>> /\ phase' = [phase EXCEPT ![u] = "marking"]
        /\ ended[u] >= started[t] => [turn |-> u, ended |-> ended[u], keys |-> Changed(u)] \in recent'
    BY <2>1, EndPublished
  <2>4. phase'[u] = "marking" /\ phase'[t] = phase[t]
    BY <2>2, <2>3 DEF BracketTyped
  <2> QED BY <2>2, <2>3, <2>4 DEF Known, Live, Ended, Past
<1>2. CASE <<u, t>> \in met
  <2>1. Known(u, t)
    BY <1>2 DEF MetKnown
  <2>2. Past(u)' /\ ended'[u] = ended[u] /\ set'[u].keys \subseteq set[u].keys
    BY <2>1, PastShrinks DEF Known
  <2>3. /\ phase'[t] \notin {"idle", "walked"} /\ started'[t] = started[t]
        /\ Live(t)' => Live(t)
        /\ Ended(t)' => EndPublish(t) \/ (Ended(t) /\ set'[t].keys \subseteq set[t].keys /\ set'[t].marks = set[t].marks)
    <3>1. CASE UNCHANGED Turn(t)
      BY <2>1, <3>1 DEF Turn, Known, Live, Ended
    <3>2. CASE Moves(t)
      <4>1. CASE AutoRevert(t)
        BY <4>1 DEF AutoRevert, Live, Ended, BracketTyped, Review
      <4>2. CASE Restart
        BY <2>1, <4>2 DEF Restart, Crashed, Live, Ended, Known, BracketTyped
      <4>3. CASE EndPublish(t)
        BY <4>3, EndPublished DEF EndPublish, Live, BracketTyped
      <4> QED BY <2>1, <3>2, <4>1, <4>2, <4>3 DEF Moves, BeginWalk, BeginPublish, EndScan, SavePending, Receive,
                 Live, Ended, Known, BracketTyped
    <3> QED BY <3>1, <3>2, TurnMoves
  <2>4. ASSUME Live(t)', ended[u] >= started[t]
        PROVE  \E r \in recent' : r.turn = u /\ r.ended = ended[u] /\ set'[u].keys \subseteq r.keys
    <3>1. PICK r \in recent : r.turn = u /\ r.ended = ended[u] /\ set[u].keys \subseteq r.keys
      BY <2>1, <2>3, <2>4 DEF Known
    <3>2. r \in recent'
      BY <2>3, <2>4, <3>1, RecentKept
    <3> QED BY <2>2, <3>1, <3>2
  <2>5. ASSUME Ended(t)', ended[u] >= started[t], NEW p \in set'[t].keys \cap set'[u].keys
        PROVE  u \in set'[t].marks[p]
    <3>1. CASE EndPublish(t)
      <4>1. Live(t)
        BY <3>1 DEF EndPublish, Live
      <4>2. PICK r \in recent : r.turn = u /\ r.ended = ended[u] /\ set[u].keys \subseteq r.keys
        BY <2>1, <2>5, <4>1 DEF Known
      <4>3. p \in Changed(t) /\ p \in r.keys /\ p \in Paths
        BY <2>2, <2>5, <3>1, <4>2, EndPublished DEF Changed
      <4>4. r \in Overlapped(t, Changed(t))
        BY <2>5, <4>2, <4>3 DEF Overlapped
      <4>5. set'[t].marks[p] = {x.turn : x \in {y \in Overlapped(t, Changed(t)) : p \in y.keys \cap Changed(t)}}
        BY <3>1, <4>3, EndPublished
      <4> QED BY <4>2, <4>3, <4>4, <4>5
    <3>2. CASE ~EndPublish(t)
      BY <2>1, <2>2, <2>3, <2>5, <3>2 DEF Known
    <3> QED BY <3>1, <3>2
  <2> QED BY <2>2, <2>3, <2>4, <2>5 DEF Known, Live, Ended, Past
<1> QED BY <1>1, <1>2


------------------------------------------------------------------------------
(* Reviews: who writes the pending files, the archives, the list of the host and
   the queue between them. *)

(* The host records a decision on an undecided file. *)
Decided(t, p, d) ==
  /\ host[t] # None /\ host[t].dec[p] = "none"
  /\ Decide(t, p, d)
  /\ UNCHANGED <<files, bracket>>

Settled ==
  /\ UNCHANGED <<files, host, jobs, loaded>>
  /\ io' = io \/ io' = None \/ io'.step # "remove"

LEMMA ReviewSteps ==
  ASSUME TypeOK, RevertOfHeld, Next
  PROVE  \/ \E t \in Turns : SavePending(t) \/ MarkSave(t) \/ Receive(t) \/ \E u \in Turns : MarkLoad(t, u)
         \/ \E t \in Turns, p \in Paths, d \in {"keep", "revert"} : Decided(t, p, d)
         \/ RunSave \/ RunArchive \/ RemovePending \/ RunGc \/ GcSets \/ Restart
         \/ Settled
<1> USE DEF TypeOK
<1>1. ASSUME NEW t \in Turns, Bracket(t), ~SavePending(t), ~MarkSave(t), \A u \in Turns : ~MarkLoad(t, u)
      PROVE  Settled
  BY <1>1 DEF Bracket, BeginWalk, BeginPublish, EndScan, EndPublish, AutoRevert, Settled, thread, ui
<1>2. CASE Host /\ ~\E t \in Turns : Receive(t)
  <2>1. ASSUME NEW t \in Turns, NEW p \in Paths, Accept(t, p) PROVE Decided(t, p, "keep")
    BY <2>1 DEF Accept, Open, Decided
  <2>2. ASSUME NEW t \in Turns, NEW p \in Paths, RejectLook(t, p) PROVE Decided(t, p, "revert") \/ Settled
    BY <2>2 DEF RejectLook, Open, Decided, Settled, thread, bracket
  <2>3. CASE RecordBack
    <3>1. CASE op.kind = "revert"
      <4>1. op.turn \in Turns /\ op.path \in Paths /\ Decided(op.turn, op.path, "revert")
        BY <2>3, <3>1, OperandTyped DEF RecordBack, RevertOfHeld, Decided
      <4> QED BY <4>1
    <3>2. CASE op.kind # "revert"
      BY <2>3, <3>2 DEF RecordBack, Settled, thread, bracket
    <3> QED BY <3>1, <3>2
  <2> QED BY <1>2, <2>1, <2>2, <2>3 DEF Host, UndoLook, WriteBack, NoteSave, Save, Settled, thread, bracket
<1>3. CASE IoThread /\ ~RunSave /\ ~RunArchive /\ ~RemovePending /\ ~RunGc /\ ~GcSets
  BY <1>3 DEF IoThread, GcBaseline, GcPending, SweepLook, SweepUnlink, SweepDone, Settled, ui, bracket
<1>4. CASE (\E h \in Contents : Age(h)) \/ \E u \in Turns, q \in Paths, c \in Values : AgentWrite(u, q, c)
  BY <1>4 DEF Age, AgentWrite, Settled, thread, ui, bracket
<1> QED BY <1>1, <1>2, <1>3, <1>4 DEF Next, IoThread

(* A decision is queued at once, and a review it completes leaves the list. *)
Queues(t, p, d, r, k) ==
  /\ r.keys = host[t].keys /\ r.marks = host[t].marks
  /\ r.dec = [host[t].dec EXCEPT ![p] = d]
  /\ jobs' = Append(jobs, [kind |-> k, turn |-> t, review |-> r])
  /\ host' = [host EXCEPT ![t] = IF k = "archive" THEN None ELSE r]
  /\ UNCHANGED <<pending, sets, loaded, phase, set, io>>

LEMMA DecidedQueues ==
  ASSUME TypeOK, NEW t \in Turns, NEW p \in Paths, NEW d \in {"keep", "revert"}, Decided(t, p, d)
  PROVE  \E r \in Review, k \in {"save", "archive"} : Queues(t, p, d, r, k)
<1> DEFINE r == [host[t] EXCEPT !.dec[p] = d]
           k == IF \A q \in r.keys : r.dec[q] # "none" THEN "archive" ELSE "save"
<1>1. /\ r \in Review
      /\ r.keys = host[t].keys /\ r.marks = host[t].marks /\ r.dec = [host[t].dec EXCEPT ![p] = d]
  BY DEF Decided, TypeOK, ReviewsTyped, Review, Decisions
<1>2. /\ jobs' = Append(jobs, [kind |-> k, turn |-> t, review |-> r])
      /\ host' = [host EXCEPT ![t] = IF k = "archive" THEN None ELSE r]
      /\ UNCHANGED <<pending, sets, loaded, phase, set, io>>
  BY DEF Decided, Decide, Enqueue, files, bracket
<1>3. k \in {"save", "archive"}
  OBVIOUS
<1> HIDE DEF r, k
<1>4. Queues(t, p, d, r, k)
  BY <1>1, <1>2 DEF Queues
<1> QED BY <1>1, <1>3, <1>4

Closed(t) == phase[t] \in {"posted", "over"}

LEMMA ClosedStays ==
  ASSUME TypeOK, Next, NEW t \in Turns, Closed(t)
  PROVE  Closed(t)' /\ set'[t] = set[t] /\ (phase[t] = "over" => phase'[t] = "over")
<1>1. CASE UNCHANGED Turn(t)
  BY <1>1 DEF Turn, Closed
<1>2. CASE Moves(t)
  BY <1>2 DEF Moves, BeginWalk, BeginPublish, EndScan, EndPublish, AutoRevert, SavePending, Receive, Restart,
     Crashed, Closed, TypeOK, BracketTyped
<1> QED BY <1>1, <1>2, TurnMoves

(* Every copy of a review has the files its turn ended with, and the marks it gave. *)
Copy(t, r) == Closed(t) /\ r.keys = set[t].keys /\ \A p \in Paths : set[t].marks[p] \subseteq r.marks[p]

Copies ==
  /\ \A t \in Turns : pending[t] # None => Copy(t, pending[t])
  /\ \A t \in Turns : host[t] # None => phase[t] = "over" /\ Copy(t, host[t])
  /\ \A i \in 1 .. Len(jobs) : jobs[i].kind # "gc" => Copy(jobs[i].turn, jobs[i].review)
  /\ \A u \in Turns : loaded[u] # None => Copy(loaded[u].turn, loaded[u].review)

LEMMA CopiesStep == ASSUME TypeOK, RevertOfHeld, Copies, Next PROVE Copies'
<1> USE DEF TypeOK
<1>0. /\ pending \in [Turns -> Review \cup {None}] /\ host \in [Turns -> Review \cup {None}]
      /\ loaded \in [Turns -> [turn : Turns, review : Review] \cup {None}]
      /\ jobs \in Seq(Job)
      /\ \A i \in 1 .. Len(jobs) : jobs[i].kind # "gc" => jobs[i].turn \in Turns /\ jobs[i].review \in Review
  BY DEF ReviewsTyped, BracketTyped, Job
<1>1. \A t \in Turns : Closed(t) => Closed(t)' /\ set'[t] = set[t] /\ (phase[t] = "over" => phase'[t] = "over")
  BY ClosedStays
<1>2. /\ pending' = pending => \A t \in Turns : pending'[t] # None => Copy(t, pending[t])'
      /\ host' = host => \A t \in Turns : host'[t] # None => phase'[t] = "over" /\ Copy(t, host[t])'
      /\ jobs' = jobs => \A i \in 1 .. Len(jobs') : jobs'[i].kind # "gc" => Copy(jobs[i].turn, jobs[i].review)'
      /\ loaded' = loaded => \A u \in Turns : loaded'[u] # None => Copy(loaded[u].turn, loaded[u].review)'
  BY <1>0, <1>1 DEF Copies, Copy
<1>3. CASE Settled
  BY <1>2, <1>3 DEF Settled, files, Copies
<1>4. ASSUME NEW t \in Turns, SavePending(t) PROVE Copies'
  <2>1. UNCHANGED <<host, jobs, loaded, set>> /\ \A u \in Turns \ {t} : pending'[u] = pending[u]
    BY <1>4 DEF SavePending, ui, thread, ReviewsTyped
  <2>2. ASSUME NEW u \in Turns, pending'[u] # None PROVE Copy(u, pending[u])'
    <3>1. CASE pending'[u] = pending[u]
      BY <1>1, <2>2, <3>1 DEF Copies, Copy
    <3>2. CASE pending'[u] # pending[u]
      <4>1. u = t /\ pending'[t] = set[t] /\ phase'[t] = "posted"
        BY <1>4, <2>1, <3>2 DEF SavePending, ReviewsTyped, BracketTyped
      <4> QED BY <2>1, <4>1 DEF Copy, Closed
    <3> QED BY <3>1, <3>2
  <2> QED BY <1>2, <2>1, <2>2 DEF Copies
<1>5. ASSUME NEW t \in Turns, NEW u \in Turns, MarkLoad(t, u) PROVE Copies'
  <2>1. UNCHANGED <<pending, host, jobs, set, phase>>
    BY <1>5 DEF MarkLoad, ui, thread, files
  <2>2. loaded' = loaded \/ (pending[u] # None /\ loaded' = [loaded EXCEPT ![t] = [turn |-> u, review |-> pending[u]]])
    BY <1>5 DEF MarkLoad
  <2>3. \A v \in Turns : loaded'[v] # None => Copy(loaded[v].turn, loaded[v].review)'
    BY <1>0, <2>1, <2>2 DEF Copies, Copy, Closed
  <2> QED BY <1>2, <2>1, <2>3 DEF Copies
<1>6. ASSUME NEW t \in Turns, MarkSave(t) PROVE Copies'
  <2>1. UNCHANGED <<host, jobs, set, phase>> /\ loaded' = [loaded EXCEPT ![t] = None] /\ loaded[t] # None
    BY <1>6 DEF MarkSave, ui, thread
  <2>2. PICK u \in Turns, old \in Review : loaded[t].turn = u /\ loaded[t].review = old
    BY <1>0, <2>1
  <2>3. PICK keys : pending' = pending \/ pending' = [pending EXCEPT ![u] = Marked(old, t, keys)]
    BY <1>6, <2>2 DEF MarkSave
  <2>4. Copy(u, old)
    BY <2>1, <2>2 DEF Copies
  <2>5. Marked(old, t, keys).keys = old.keys /\ \A p \in Paths : old.marks[p] \subseteq Marked(old, t, keys).marks[p]
    BY DEF Marked, Review, Marks
  <2>6. \A v \in Turns : pending'[v] # None => Copy(v, pending[v])'
    BY <1>0, <2>1, <2>3, <2>4, <2>5 DEF Copies, Copy, Closed
  <2>7. \A v \in Turns : loaded'[v] # None => Copy(loaded[v].turn, loaded[v].review)'
    BY <1>0, <2>1 DEF Copies, Copy, Closed
  <2> QED BY <1>2, <2>1, <2>6, <2>7 DEF Copies
<1>7. ASSUME NEW t \in Turns, Receive(t) PROVE Copies'
  <2>1. /\ UNCHANGED <<pending, jobs, loaded, set>> /\ phase' = [phase EXCEPT ![t] = "over"] /\ phase[t] = "posted"
        /\ host'[t] = set[t]
    BY <1>7 DEF Receive, files, thread
  <2>2. ASSUME NEW u \in Turns, u # t, host'[u] # None
        PROVE  /\ host[u] # None
               /\ \/ host'[u] = host[u]
                  \/ pending[u] # None /\ host'[u].keys = pending[u].keys /\ host'[u].marks = pending[u].marks
    <3>1. CASE u \in touched[t] /\ host[u] # None /\ pending[u] # None
      <4>1. host'[u] = [host[u] EXCEPT !.keys = pending[u].keys, !.marks = pending[u].marks]
        BY <1>7, <2>2, <3>1 DEF Receive
      <4>2. host[u] \in Review
        BY <1>0, <3>1
      <4> QED BY <3>1, <4>1, <4>2 DEF Review
    <3>2. CASE ~(u \in touched[t] /\ host[u] # None /\ pending[u] # None)
      BY <1>7, <2>2, <3>2 DEF Receive
    <3> QED BY <3>1, <3>2
  <2>3. \A u \in Turns : host'[u] # None => phase'[u] = "over" /\ Copy(u, host[u])'
    <3> SUFFICES ASSUME NEW u \in Turns, host'[u] # None PROVE phase'[u] = "over" /\ Copy(u, host[u])'
      OBVIOUS
    <3>1. CASE u = t
      BY <2>1, <3>1 DEF Copy, Closed, BracketTyped
    <3>2. CASE u # t
      BY <2>1, <2>2, <3>2 DEF Copies, Copy, Closed, BracketTyped
    <3> QED BY <3>1, <3>2
  <2> QED BY <1>2, <2>1, <2>3 DEF Copies
<1>8. ASSUME NEW t \in Turns, NEW p \in Paths, NEW d \in {"keep", "revert"}, Decided(t, p, d) PROVE Copies'
  <2>0. PICK r \in Review, k \in {"save", "archive"} : Queues(t, p, d, r, k)
    BY <1>8, DecidedQueues
  <2>1. /\ r.keys = host[t].keys /\ r.marks = host[t].marks
        /\ jobs' = Append(jobs, [kind |-> k, turn |-> t, review |-> r])
        /\ host' = [host EXCEPT ![t] = IF k = "archive" THEN None ELSE r]
        /\ UNCHANGED <<pending, sets, loaded, phase, set, io>>
    BY <2>0 DEF Queues
  <2>2. phase[t] = "over" /\ Copy(t, r)
    BY <1>8, <2>1 DEF Decided, Copies, Copy
  <2>3. \A u \in Turns : host'[u] # None => phase'[u] = "over" /\ Copy(u, host[u])'
    BY <1>0, <2>1, <2>2 DEF Copies, Copy, Closed
  <2>4. \A i \in 1 .. Len(jobs') : jobs'[i].kind # "gc" => Copy(jobs[i].turn, jobs[i].review)'
    BY <1>0, <2>1, <2>2 DEF Copies, Copy, Closed
  <2> QED BY <1>2, <2>1, <2>3, <2>4 DEF Copies
<1>9. ASSUME Free, jobs' = Tail(jobs), UNCHANGED <<host, loaded, bracket>>
      PROVE  /\ \A i \in 1 .. Len(jobs') : jobs'[i].kind # "gc" => Copy(jobs[i].turn, jobs[i].review)'
             /\ Head(jobs).kind # "gc" => Copy(Head(jobs).turn, Head(jobs).review)
  <2>1. /\ jobs # <<>> /\ Head(jobs) = jobs[1] /\ 1 \in 1 .. Len(jobs) /\ Len(jobs') = Len(jobs) - 1
        /\ \A i \in 1 .. Len(jobs') : jobs'[i] = jobs[i + 1] /\ i + 1 \in 1 .. Len(jobs)
    BY <1>0, <1>9 DEF Free
  <2> QED BY <1>9, <2>1 DEF Copies, Copy, Closed, bracket
<1>10. CASE RunSave
  <2>1. UNCHANGED <<host, loaded, bracket>> /\ jobs' = Tail(jobs) /\ Free /\ Head(jobs).kind # "gc"
    BY <1>10 DEF RunSave, ui, bracket
  <2>2. PICK t \in Turns, r \in Review : Head(jobs).turn = t /\ Head(jobs).review = r
    BY <2>1, HeadTyped
  <2>3. pending' = [pending EXCEPT ![t] = r] /\ Copy(t, r)
    BY <1>9, <1>10, <2>1, <2>2 DEF RunSave
  <2>4. \A u \in Turns : pending'[u] # None => Copy(u, pending[u])'
    BY <1>0, <2>1, <2>3 DEF Copies, Copy, Closed, bracket
  <2> QED BY <1>2, <1>9, <2>1, <2>4 DEF Copies
<1>11. CASE RunArchive \/ RunGc
  BY <1>2, <1>9, <1>11 DEF RunArchive, RunGc, files, ui, bracket, Copies
<1>12. CASE RemovePending
  <2>1. UNCHANGED <<host, jobs, loaded, set, phase>> /\ pending' = [pending EXCEPT ![io.turn] = None]
    BY <1>12 DEF RemovePending, ui, bracket
  <2>2. \A u \in Turns : pending'[u] # None => Copy(u, pending[u])'
    BY <1>0, <2>1 DEF Copies, Copy, Closed
  <2> QED BY <1>2, <2>1, <2>2 DEF Copies
<1>13. CASE GcSets
  BY <1>2, <1>13 DEF GcSets, ui, bracket, Copies
<1>14. CASE Restart
  <2>1. /\ pending' = pending /\ host' = pending /\ loaded' = [t \in Turns |-> None]
        /\ jobs' = <<[kind |-> "gc"]>> /\ phase' = Crashed
    BY <1>14 DEF Restart, Forgotten, files
  <2>2. \A t \in Turns : Closed(t) => phase'[t] = "over"
    BY <2>1 DEF Crashed, Closed
  <2> QED BY <1>2, <2>1, <2>2 DEF Copies, Copy
<1> QED BY <1>3, <1>4, <1>5, <1>6, <1>7, <1>8, <1>10, <1>11, <1>12, <1>13, <1>14, ReviewSteps

Named == ActiveLive /\ MetKnown /\ Copies

LEMMA NamedInductive == Spec => []Named
<1>1. Init => Named
  BY DEF Init, Named, ActiveLive, Live, MetKnown, Copies
<1>2. ASSUME Typed, Named, Next PROVE Named'
  BY <1>2, ActiveLiveStep, MetKnownStep, CopiesStep DEF Named, Typed
<1>3. ASSUME Named, UNCHANGED vars PROVE Named'
  BY <1>3 DEF Named, ActiveLive, MetKnown, Known, Live, Past, Ended, Copies, Copy, Closed, vars, bracket, state,
     files, thread, ui
<1> QED BY <1>1, <1>2, <1>3, TypedInit, TypedStep, PTL DEF Spec

(* Of two turns whose windows overlap on a file, the review of the one that ends
   later names the earlier one, through every save, reload, mark of a third turn and
   restart (end, mod.rs:331-346). *)
THEOREM OverlapsNamed == Spec => []EarlierTurnNamed
<1>1. Typed /\ Named => EarlierTurnNamed
  BY SMTT(30) DEF Typed, TypeOK, ReviewsTyped, Review, Named, MetKnown, Known, Ended, Copies, Copy, EarlierTurnNamed
<1> QED BY <1>1, NamedInductive, TypedInit, TypedStep, PTL DEF Spec


------------------------------------------------------------------------------
(* The copies of a review stand in line: what is on disk, or in the hands of a task
   that marks it, is decided no further than the jobs in the queue, in their order,
   and those no further than the host's own. *)

Before(r, s) == \A p \in Paths : r.dec[p] # "none" => s.dec[p] = r.dec[p]
Fresh(r)     == \A p \in Paths : r.dec[p] = "none"
Removing(t)  == io # None /\ io.step = "remove" /\ io.turn = t
OfReview(i)  == i \in 1 .. Len(jobs) /\ jobs[i].kind # "gc"

Awaited(t) == phase[t] = "over" /\ ~Removing(t) /\ pending[t] # None

(* While the host or the queue holds a review, its pending file is there. *)
StillPending ==
  /\ \A t \in Turns : host[t] # None => Awaited(t)
  /\ \A i : OfReview(i) => Awaited(jobs[i].turn)

Behind(t, s) ==
  /\ pending[t] # None => Before(pending[t], s)
  /\ \A u \in Turns : (loaded[u] # None /\ loaded[u].turn = t) => Before(loaded[u].review, s)

DiskBehind ==
  /\ \A t \in Turns : host[t] # None => Behind(t, host[t])
  /\ \A i : OfReview(i) => Behind(jobs[i].turn, jobs[i].review)

QueueInOrder ==
  \A i : OfReview(i) =>
    /\ \A j : (OfReview(j) /\ i < j /\ jobs[j].turn = jobs[i].turn)
         => jobs[i].kind = "save" /\ Before(jobs[i].review, jobs[j].review)
    /\ host[jobs[i].turn] # None
         => jobs[i].kind = "save" /\ Before(jobs[i].review, host[jobs[i].turn])

PostedFresh ==
  \A t \in Turns : phase[t] = "posted" =>
    /\ pending[t] # None /\ Fresh(pending[t]) /\ ~Removing(t)
    /\ \A u \in Turns : (loaded[u] # None /\ loaded[u].turn = t) => Fresh(loaded[u].review)

StillUndecided == \A t \in Turns : phase[t] \in {"marking", "saving", "posted"} => Fresh(set[t])

ArchivedOver == \A t \in Turns : (sets[t] # None \/ Removing(t)) => phase[t] = "over"

InLine == StillPending /\ DiskBehind /\ QueueInOrder /\ PostedFresh /\ StillUndecided /\ ArchivedOver

LEMMA StillUndecidedStep == ASSUME TypeOK, StillUndecided, Next PROVE StillUndecided'
<1> USE DEF TypeOK
<1> SUFFICES ASSUME NEW t \in Turns, phase'[t] \in {"marking", "saving", "posted"} PROVE Fresh(set[t])'
  BY DEF StillUndecided
<1>1. CASE UNCHANGED Turn(t)
  BY <1>1 DEF Turn, StillUndecided, Fresh
<1>2. CASE Moves(t)
  <2>1. CASE EndPublish(t)
    BY <2>1 DEF EndPublish, NewReview, Undecided, Fresh, BracketTyped
  <2>2. CASE AutoRevert(t)
    BY <2>2 DEF AutoRevert, StillUndecided, Fresh, BracketTyped, Review
  <2>3. CASE SavePending(t)
    BY <2>3 DEF SavePending, StillUndecided, Fresh, BracketTyped
  <2> QED BY <1>2, <2>1, <2>2, <2>3 DEF Moves, BeginWalk, BeginPublish, EndScan, Receive, Restart, Crashed,
             BracketTyped
<1> QED BY <1>1, <1>2, TurnMoves

LEMMA ArchivedOverStep ==
  ASSUME TypeOK, RevertOfHeld, StillPending, ArchivedOver, Next PROVE ArchivedOver'
<1> USE DEF TypeOK
<1> SUFFICES ASSUME NEW t \in Turns, sets'[t] # None \/ Removing(t)' PROVE phase'[t] = "over"
  BY DEF ArchivedOver
<1>1. phase[t] = "over" => phase'[t] = "over"
  BY ClosedStays DEF Closed
<1>2. ASSUME sets' = sets, io' = io \/ io' = None \/ io'.step # "remove" PROVE phase'[t] = "over"
  BY <1>1, <1>2 DEF ArchivedOver, Removing
<1>3. CASE RunArchive
  <2>1. Head(jobs) = jobs[1] /\ OfReview(1)
    BY <1>3 DEF RunArchive, Free, OfReview, ReviewsTyped
  <2>2. phase[jobs[1].turn] = "over"
    BY <2>1 DEF StillPending, Awaited
  <2> QED BY <1>1, <1>3, <2>1, <2>2 DEF RunArchive, ArchivedOver, Removing, ReviewsTyped
<1>4. CASE GcSets
  BY <1>1, <1>4 DEF GcSets, ArchivedOver, Removing
<1>5. ASSUME NEW u \in Turns, NEW p \in Paths, NEW d \in {"keep", "revert"}, Decided(u, p, d)
      PROVE  phase'[t] = "over"
  BY <1>2, <1>5, DecidedQueues DEF Queues
<1>6. ASSUME NEW u \in Turns, SavePending(u) \/ MarkSave(u) \/ Receive(u) \/ \E v \in Turns : MarkLoad(u, v)
      PROVE  phase'[t] = "over"
  BY <1>2, <1>6 DEF SavePending, MarkSave, Receive, MarkLoad, files, thread
<1>7. CASE RunSave \/ RemovePending \/ RunGc \/ Restart \/ Settled
  BY <1>2, <1>7 DEF RunSave, RemovePending, RunGc, Restart, Forgotten, Settled, files
<1> QED BY <1>3, <1>4, <1>5, <1>6, <1>7, ReviewSteps

LEMMA PostedBy ==
  ASSUME TypeOK, Next, NEW t \in Turns, phase'[t] = "posted" PROVE phase[t] = "posted" \/ SavePending(t)
<1>1. CASE UNCHANGED Turn(t)
  BY <1>1 DEF Turn
<1>2. CASE Moves(t)
  BY <1>2 DEF Moves, BeginWalk, BeginPublish, EndScan, EndPublish, AutoRevert, Receive, Restart, Crashed,
     TypeOK, BracketTyped
<1> QED BY <1>1, <1>2, TurnMoves


LEMMA InOrderStep ==
  ASSUME TypeOK, RevertOfHeld, Copies, InLine, Next
  PROVE  StillPending' /\ DiskBehind' /\ QueueInOrder' /\ PostedFresh'
<1> USE DEF TypeOK, InLine
<1> DEFINE InOrder == StillPending /\ DiskBehind /\ QueueInOrder /\ PostedFresh
<1>0. /\ pending \in [Turns -> Review \cup {None}] /\ host \in [Turns -> Review \cup {None}]
      /\ loaded \in [Turns -> [turn : Turns, review : Review] \cup {None}]
      /\ jobs \in Seq(Job)
      /\ \A i : OfReview(i) => jobs[i].turn \in Turns /\ jobs[i].review \in Review
  BY DEF ReviewsTyped, BracketTyped, Job, OfReview
<1>1. \A t \in Turns : phase[t] = "over" => phase'[t] = "over"
  BY ClosedStays DEF Closed
<1>2. \A t \in Turns : phase'[t] = "posted" => phase[t] = "posted" \/ SavePending(t)
  BY PostedBy
<1>3. ASSUME NEW t \in Turns, SavePending(t) PROVE InOrder'
  <2>1. /\ phase[t] = "saving" /\ phase'[t] \in {"over", "posted"} /\ UNCHANGED <<host, jobs, loaded, io, set>>
        /\ \A u \in Turns \ {t} : pending'[u] = pending[u] /\ phase'[u] = phase[u]
        /\ phase'[t] = "posted" => pending'[t] = set[t]
    BY <1>3 DEF SavePending, ui, thread, ReviewsTyped, BracketTyped
  <2>2. host[t] = None /\ \A i : OfReview(i) => jobs[i].turn # t
    BY <2>1 DEF StillPending, Awaited
  <2>3. \A u \in Turns : loaded[u] # None => loaded[u].turn # t
    BY <2>1 DEF Copies, Copy, Closed
  <2>4. StillPending'
    BY <1>0, <2>1, <2>2 DEF StillPending, Awaited, Removing, OfReview
  <2>5. DiskBehind'
    BY <1>0, <2>1, <2>2 DEF DiskBehind, Behind, OfReview
  <2>6. QueueInOrder'
    BY <2>1 DEF QueueInOrder, OfReview
  <2>7. PostedFresh'
    <3> SUFFICES ASSUME NEW u \in Turns, phase'[u] = "posted"
                 PROVE  /\ pending'[u] # None /\ Fresh(pending[u])' /\ ~Removing(u)'
                        /\ \A v \in Turns : (loaded'[v] # None /\ loaded'[v].turn = u) => Fresh(loaded[v].review)'
      BY DEF PostedFresh
    <3>1. CASE u = t
      <4>1. Fresh(set[t]) /\ ~Removing(t) /\ set[t] \in Review
        BY <2>1 DEF StillUndecided, ArchivedOver, BracketTyped
      <4> QED BY <2>1, <2>3, <3>1, <4>1, ConstantsAssumption DEF Fresh, Removing
    <3>2. CASE u # t
      BY <2>1, <3>2 DEF PostedFresh, Fresh, Removing
    <3> QED BY <3>1, <3>2
  <2> QED BY <2>4, <2>5, <2>6, <2>7
<1>4. ASSUME NEW t \in Turns, NEW u \in Turns, MarkLoad(t, u) PROVE InOrder'
  <2>1. UNCHANGED <<host, jobs, pending, io, phase>>
    BY <1>4 DEF MarkLoad, ui, thread, files
  <2>2. loaded' = loaded \/ (pending[u] # None /\ loaded' = [loaded EXCEPT ![t] = [turn |-> u, review |-> pending[u]]])
    BY <1>4 DEF MarkLoad
  <2>3. \A v \in Turns : loaded'[v] # None =>
          \/ loaded[v] # None /\ loaded'[v] = loaded[v]
          \/ pending[u] # None /\ loaded'[v].turn = u /\ loaded'[v].review = pending[u]
    BY <1>0, <2>2
  <2>4. StillPending' /\ QueueInOrder'
    BY <2>1 DEF StillPending, Awaited, Removing, OfReview, QueueInOrder
  <2>5. DiskBehind'
    BY <2>1, <2>3 DEF DiskBehind, Behind, OfReview, Before
  <2>6. PostedFresh'
    BY <2>1, <2>3 DEF PostedFresh, Fresh, Removing
  <2> QED BY <2>4, <2>5, <2>6
<1>5. ASSUME NEW t \in Turns, MarkSave(t) PROVE InOrder'
  <2>1. UNCHANGED <<host, jobs, io, phase>> /\ loaded' = [loaded EXCEPT ![t] = None] /\ loaded[t] # None
    BY <1>5 DEF MarkSave, ui, thread
  <2>2. PICK u \in Turns, old \in Review : loaded[t].turn = u /\ loaded[t].review = old
    BY <1>0, <2>1
  <2>3. PICK keys : pending' = pending \/ pending' = [pending EXCEPT ![u] = Marked(old, t, keys)]
    BY <1>5, <2>2 DEF MarkSave
  <2>4. Marked(old, t, keys).dec = old.dec /\ Marked(old, t, keys) # None
    BY MarkedReview, ConstantsAssumption DEF Marked, Review
  <2>5. \A v \in Turns : \/ pending'[v] = pending[v]
                         \/ v = u /\ pending'[v].dec = loaded[t].review.dec /\ pending'[v] # None
    BY <1>0, <2>2, <2>3, <2>4
  <2>6. \A v \in Turns : loaded'[v] # None => loaded[v] # None /\ loaded'[v] = loaded[v]
    BY <1>0, <2>1
  <2>7. StillPending' /\ QueueInOrder'
    BY <1>0, <2>1, <2>5 DEF StillPending, Awaited, Removing, OfReview, QueueInOrder
  <2>8. DiskBehind'
    <3>1. ASSUME NEW v \in Turns, NEW s, Behind(v, s)
          PROVE  /\ pending'[v] # None => \A p \in Paths : pending'[v].dec[p] # "none" => s.dec[p] = pending'[v].dec[p]
                 /\ \A w \in Turns : (loaded'[w] # None /\ loaded'[w].turn = v) =>
                      \A p \in Paths : loaded'[w].review.dec[p] # "none" => s.dec[p] = loaded'[w].review.dec[p]
      BY <2>1, <2>2, <2>5, <2>6, <3>1 DEF Behind, Before
    <3>2. \A v \in Turns : host[v] # None => Behind(v, host[v])
      BY DEF DiskBehind
    <3>3. \A i : OfReview(i) => Behind(jobs[i].turn, jobs[i].review)
      BY DEF DiskBehind
    <3>4. \A v \in Turns : host'[v] # None => Behind(v, host[v])'
      BY <2>1, <3>1, <3>2 DEF Behind, Before
    <3>5. ASSUME NEW i, OfReview(i)' PROVE Behind(jobs[i].turn, jobs[i].review)'
      <4>1. OfReview(i) /\ jobs'[i] = jobs[i]
        BY <2>1, <3>5 DEF OfReview
      <4>2. PICK v \in Turns, s \in Review : jobs[i].turn = v /\ jobs[i].review = s
        BY <1>0, <4>1
      <4>3. Behind(v, s)
        BY <3>3, <4>1, <4>2
      <4>4. jobs'[i].turn = v /\ jobs'[i].review = s
        BY <4>1, <4>2
      <4>5. /\ pending'[v] # None => Before(pending[v]', s)
            /\ \A w \in Turns : (loaded'[w] # None /\ loaded'[w].turn = v) => Before(loaded[w].review', s)
        BY <3>1, <4>3 DEF Before
      <4> QED BY <4>4, <4>5 DEF Behind, Before
    <3> QED BY <3>4, <3>5 DEF DiskBehind
  <2>9. PostedFresh'
    BY <2>1, <2>2, <2>5, <2>6 DEF PostedFresh, Fresh, Removing
  <2> QED BY <2>7, <2>8, <2>9
<1>6. ASSUME NEW t \in Turns, Receive(t) PROVE InOrder'
  <2>1. /\ UNCHANGED <<pending, jobs, loaded, io>> /\ phase' = [phase EXCEPT ![t] = "over"] /\ phase[t] = "posted"
        /\ host'[t] = set[t]
    BY <1>6 DEF Receive, files, thread
  <2>2. ASSUME NEW u \in Turns, u # t
        PROVE  (host'[u] # None <=> host[u] # None) /\ (host[u] # None => host'[u].dec = host[u].dec)
    <3>1. CASE u \in touched[t] /\ host[u] # None /\ pending[u] # None
      <4>1. host'[u] = [host[u] EXCEPT !.keys = pending[u].keys, !.marks = pending[u].marks]
        BY <1>6, <2>2, <3>1 DEF Receive
      <4>2. host[u] \in Review /\ pending[u] \in Review
        BY <1>0, <3>1
      <4>3. host'[u] \in Review /\ host'[u].dec = host[u].dec
        BY <4>1, <4>2 DEF Review
      <4> QED BY <3>1, <4>3, ConstantsAssumption
    <3>2. CASE ~(u \in touched[t] /\ host[u] # None /\ pending[u] # None)
      BY <1>6, <2>2, <3>2 DEF Receive
    <3> QED BY <3>1, <3>2
  <2>3. \A u \in Turns : phase'[u] = IF u = t THEN "over" ELSE phase[u]
    BY <2>1 DEF BracketTyped
  <2>4. \A i : OfReview(i) => jobs[i].turn # t
    BY <2>1 DEF StillPending, Awaited
  <2>5. StillPending'
    BY <1>0, <2>1, <2>2, <2>3 DEF StillPending, Awaited, Removing, OfReview, PostedFresh
  <2>6. DiskBehind'
    <3>1. ASSUME NEW u \in Turns, host'[u] # None PROVE Behind(u, host[u])'
      <4>1. CASE u = t
        BY <2>1, <4>1 DEF PostedFresh, Fresh, Behind, Before
      <4>2. CASE u # t
        BY <2>1, <2>2, <3>1, <4>2 DEF DiskBehind, Behind, Before
      <4> QED BY <4>1, <4>2
    <3>2. \A i : OfReview(i)' => Behind(jobs[i].turn, jobs[i].review)'
      BY <2>1 DEF DiskBehind, Behind, OfReview
    <3> QED BY <3>1, <3>2 DEF DiskBehind
  <2>7. QueueInOrder'
    BY <1>0, <2>1, <2>2, <2>4 DEF QueueInOrder, OfReview, Before
  <2>8. PostedFresh'
    BY <2>1, <2>3 DEF PostedFresh, Fresh, Removing
  <2> QED BY <2>5, <2>6, <2>7, <2>8
<1>7. ASSUME NEW t \in Turns, NEW p \in Paths, NEW d \in {"keep", "revert"}, Decided(t, p, d) PROVE InOrder'
  <2>0. PICK r \in Review, k \in {"save", "archive"} : Queues(t, p, d, r, k)
    BY <1>7, DecidedQueues
  <2>1. /\ r.dec = [host[t].dec EXCEPT ![p] = d]
        /\ jobs' = Append(jobs, [kind |-> k, turn |-> t, review |-> r])
        /\ host' = [host EXCEPT ![t] = IF k = "archive" THEN None ELSE r]
        /\ UNCHANGED <<pending, loaded, phase, io>>
    BY <2>0 DEF Queues
  <2>2. host[t] # None /\ host[t].dec[p] = "none" /\ host[t] \in Review
    BY <1>0, <1>7 DEF Decided
  <2>3. Before(host[t], r)
    BY <2>1, <2>2 DEF Before, Review, Decisions
  <2>4. /\ Len(jobs') = Len(jobs) + 1 /\ \A i \in 1 .. Len(jobs) : jobs'[i] = jobs[i]
        /\ jobs'[Len(jobs')] = [kind |-> k, turn |-> t, review |-> r]
    BY <1>0, <2>1
  <2>5. \A i : OfReview(i)' => \/ OfReview(i) /\ jobs'[i] = jobs[i]
                               \/ i = Len(jobs') /\ jobs'[i].turn = t /\ jobs'[i].review = r /\ jobs'[i].kind = k
    BY <1>0, <2>4 DEF OfReview
  <2>6. \A i : OfReview(i) => i < Len(jobs')
    BY <1>0, <2>4 DEF OfReview
  <2>7. \A u \in Turns : host'[u] # None => \/ u # t /\ host'[u] = host[u]
                                            \/ u = t /\ host'[u] = r /\ k = "save"
    BY <1>0, <2>1
  <2>8. Awaited(t) /\ Behind(t, r)
    BY <2>2, <2>3 DEF StillPending, DiskBehind, Behind, Before
  <2>9. StillPending'
    <3>1. \A u \in Turns : Awaited(u)' <=> Awaited(u)
      BY <2>1 DEF Awaited, Removing
    <3>2. \A i : OfReview(i)' => jobs'[i].turn \in Turns /\ Awaited(jobs'[i].turn)
      BY <1>0, <2>5, <2>8 DEF StillPending
    <3>3. \A i : OfReview(i)' => Awaited(jobs[i].turn)'
      BY <3>1, <3>2 DEF Awaited, Removing
    <3> QED BY <1>7, <2>2, <2>7, <3>1, <3>3 DEF StillPending
  <2>10. DiskBehind'
    BY <2>1, <2>5, <2>7, <2>8, ZenonT(40) DEF DiskBehind, Behind
  <2>11. \A i : (OfReview(i) /\ jobs[i].turn = t) => jobs[i].kind = "save" /\ Before(jobs[i].review, r)
    BY <2>2, <2>3 DEF QueueInOrder, Before
  <2>12. QueueInOrder'
    <3> SUFFICES ASSUME NEW i, OfReview(i)'
                 PROVE  /\ \A j : (OfReview(j)' /\ i < j /\ jobs'[j].turn = jobs'[i].turn)
                             => jobs'[i].kind = "save" /\ Before(jobs'[i].review, jobs'[j].review)
                        /\ host'[jobs'[i].turn] # None
                             => jobs'[i].kind = "save" /\ Before(jobs'[i].review, host'[jobs'[i].turn])
      BY DEF QueueInOrder, Before
    <3>1. CASE OfReview(i) /\ jobs'[i] = jobs[i]
      BY <1>0, <2>5, <2>7, <2>11, <3>1 DEF QueueInOrder
    <3>2. CASE i = Len(jobs') /\ jobs'[i].turn = t /\ jobs'[i].review = r /\ jobs'[i].kind = k
      <4>1. \A j : OfReview(j)' => ~(i < j)
        BY <1>0, <2>4, <3>2 DEF OfReview
      <4>2. host'[t] # None => k = "save" /\ host'[t] = r
        BY <1>7, <2>7
      <4> QED BY <3>2, <4>1, <4>2 DEF Before
    <3> QED BY <2>5, <3>1, <3>2
  <2>13. PostedFresh'
    BY <2>1 DEF PostedFresh, Fresh, Removing
  <2> QED BY <2>9, <2>10, <2>12, <2>13
<1>8. ASSUME Free, jobs' = Tail(jobs), UNCHANGED <<host, loaded, bracket>>
      PROVE  /\ Head(jobs) = jobs[1] /\ (Head(jobs).kind # "gc" => OfReview(1))
             /\ \A i : OfReview(i)' => OfReview(i + 1) /\ jobs'[i] = jobs[i + 1] /\ 1 < i + 1
             /\ QueueInOrder'
  <2>1. /\ jobs # <<>> /\ Head(jobs) = jobs[1] /\ 1 \in 1 .. Len(jobs) /\ Len(jobs') = Len(jobs) - 1
        /\ \A i \in 1 .. Len(jobs') : jobs'[i] = jobs[i + 1] /\ i + 1 \in 1 .. Len(jobs)
    BY <1>0, <1>8 DEF Free
  <2>2. \A i : OfReview(i)' => OfReview(i + 1) /\ jobs'[i] = jobs[i + 1] /\ 1 < i + 1 /\ i \in Nat
    BY <1>0, <2>1 DEF OfReview
  <2>3. QueueInOrder'
    <3> SUFFICES ASSUME NEW i, OfReview(i)'
                 PROVE  /\ \A j : (OfReview(j)' /\ i < j /\ jobs'[j].turn = jobs'[i].turn)
                             => jobs'[i].kind = "save" /\ Before(jobs'[i].review, jobs'[j].review)
                        /\ host'[jobs'[i].turn] # None
                             => jobs'[i].kind = "save" /\ Before(jobs'[i].review, host'[jobs'[i].turn])
      BY DEF QueueInOrder, Before
    <3>1. OfReview(i + 1) /\ jobs'[i] = jobs[i + 1] /\ i \in Nat
      BY <2>2
    <3>2. \A j : (OfReview(j)' /\ i < j) => OfReview(j + 1) /\ jobs'[j] = jobs[j + 1] /\ i + 1 < j + 1
      BY <2>2, <3>1
    <3> QED BY <1>8, <3>1, <3>2 DEF QueueInOrder
  <2> QED BY <2>1, <2>2, <2>3 DEF OfReview
<1>9. CASE RunSave
  <2>1. UNCHANGED <<host, loaded, bracket, io>> /\ jobs' = Tail(jobs) /\ Free /\ Head(jobs).kind # "gc"
    BY <1>9 DEF RunSave, ui, bracket
  <2>2. PICK t \in Turns, r \in Review : jobs[1].turn = t /\ jobs[1].review = r /\ OfReview(1)
    BY <1>0, <1>8, <2>1
  <2>3. \A u \in Turns : pending'[u] = IF u = t THEN r ELSE pending[u]
    BY <1>0, <1>8, <1>9, <2>1, <2>2 DEF RunSave
  <2>4. phase[t] = "over" /\ r # None
    BY <2>2, ConstantsAssumption DEF StillPending, Awaited
  <2>5. StillPending'
    <3>1. \A u \in Turns : Awaited(u) => Awaited(u)'
      BY <2>1, <2>3, <2>4 DEF Awaited, Removing, bracket
    <3>2. ASSUME NEW i, OfReview(i)' PROVE Awaited(jobs[i].turn)'
      <4>1. OfReview(i + 1) /\ jobs'[i] = jobs[i + 1] /\ jobs'[i].turn \in Turns
        BY <1>0, <1>8, <2>1, <3>2
      <4>2. Awaited(jobs'[i].turn)
        BY <4>1 DEF StillPending
      <4> QED BY <3>1, <4>1, <4>2 DEF Awaited, Removing
    <3> QED BY <2>1, <3>1, <3>2 DEF StillPending
  <2>6. DiskBehind'
    <3>1. \A i : (OfReview(i)' /\ jobs'[i].turn = t) => Before(r, jobs'[i].review)
      BY <1>8, <2>1, <2>2, ZenonT(40) DEF QueueInOrder
    <3>2. host[t] # None => Before(r, host[t])
      BY <2>2 DEF QueueInOrder
    <3>3. ASSUME NEW u \in Turns, NEW s, Behind(u, s), u = t => Before(r, s)
          PROVE  /\ pending'[u] # None => Before(pending'[u], s)
                 /\ \A v \in Turns : (loaded'[v] # None /\ loaded'[v].turn = u) => Before(loaded'[v].review, s)
      BY <2>1, <2>3, <3>3 DEF Behind
    <3>4. \A u \in Turns : host'[u] # None => Behind(u, host[u])'
      BY <2>1, <3>2, <3>3, SMTT(30) DEF DiskBehind, Behind, Before
    <3>5. ASSUME NEW i, OfReview(i)' PROVE Behind(jobs[i].turn, jobs[i].review)'
      <4>1. OfReview(i + 1) /\ jobs'[i] = jobs[i + 1]
        BY <1>8, <2>1, <3>5
      <4>2. PICK v \in Turns, s \in Review : jobs'[i].turn = v /\ jobs'[i].review = s
        BY <1>0, <4>1
      <4>3. Behind(v, s) /\ (v = t => Before(r, s))
        BY <3>1, <3>5, <4>1, <4>2 DEF DiskBehind
      <4>4. /\ pending'[v] # None => Before(pending'[v], s)
            /\ \A w \in Turns : (loaded'[w] # None /\ loaded'[w].turn = v) => Before(loaded'[w].review, s)
        BY <3>3, <4>3
      <4> QED BY <4>2, <4>4 DEF Behind, Before
    <3> QED BY <3>4, <3>5 DEF DiskBehind
  <2>7. PostedFresh'
    BY <2>1, <2>3, <2>4 DEF PostedFresh, Fresh, Removing, bracket
  <2> QED BY <1>8, <2>1, <2>5, <2>6, <2>7
<1>10. ASSUME UNCHANGED <<pending, host, loaded, bracket>>, jobs' = Tail(jobs), Free,
              \A t \in Turns : Removing(t)' =>
                 phase[t] # "posted" /\ host[t] = None /\ \A i : (OfReview(i) /\ 1 < i) => jobs[i].turn # t
       PROVE  InOrder'
  <2>1. StillPending'
    <3>1. \A u \in Turns : Awaited(u) /\ ~Removing(u)' => Awaited(u)'
      BY <1>10 DEF Awaited, bracket
    <3>2. ASSUME NEW i, OfReview(i)' PROVE Awaited(jobs[i].turn)'
      <4>1. OfReview(i + 1) /\ jobs'[i] = jobs[i + 1] /\ jobs'[i].turn \in Turns /\ 1 < i + 1
        BY <1>0, <1>8, <1>10, <3>2, ZenonT(40)
      <4>2. Awaited(jobs'[i].turn) /\ ~(\E t \in Turns : t = jobs'[i].turn /\ Removing(t)')
        BY <1>10, <4>1 DEF StillPending
      <4> QED BY <3>1, <4>1, <4>2 DEF Awaited, Removing
    <3>3. \A u \in Turns : host'[u] # None => Awaited(u)'
      BY <1>10, <3>1 DEF StillPending
    <3> QED BY <3>2, <3>3 DEF StillPending
  <2>2. DiskBehind'
    <3>1. \A u \in Turns : host'[u] # None => Behind(u, host[u])'
      BY <1>10 DEF DiskBehind, Behind
    <3>2. ASSUME NEW i, OfReview(i)' PROVE Behind(jobs[i].turn, jobs[i].review)'
      <4>1. OfReview(i + 1) /\ jobs'[i] = jobs[i + 1]
        BY <1>8, <1>10, <3>2
      <4>2. Behind(jobs'[i].turn, jobs'[i].review)
        BY <4>1 DEF DiskBehind
      <4> QED BY <1>10, <4>2 DEF Behind, Before
    <3> QED BY <3>1, <3>2 DEF DiskBehind
  <2>3. PostedFresh'
    BY <1>10 DEF PostedFresh, Fresh, bracket
  <2> QED BY <1>8, <1>10, <2>1, <2>2, <2>3
<1>11. CASE RunArchive
  <2>1. /\ UNCHANGED <<pending, host, loaded, bracket>> /\ jobs' = Tail(jobs) /\ Free
        /\ Head(jobs).kind = "archive" /\ io' = [step |-> "remove", turn |-> Head(jobs).turn]
    BY <1>11 DEF RunArchive, ui, bracket
  <2>2. OfReview(1) /\ jobs[1].kind = "archive" /\ \A t \in Turns : Removing(t)' => t = jobs[1].turn
    BY <1>8, <2>1 DEF Removing
  <2>3. \A t \in Turns : Removing(t)' =>
           phase[t] # "posted" /\ host[t] = None /\ \A i : (OfReview(i) /\ 1 < i) => jobs[i].turn # t
    BY <2>2 DEF StillPending, Awaited, QueueInOrder
  <2> QED BY <1>10, <2>1, <2>3
<1>12. CASE RunGc
  BY <1>10, <1>12 DEF RunGc, files, ui, bracket, Removing
<1>13. CASE RemovePending
  <2>1. /\ UNCHANGED <<host, jobs, loaded, phase>> /\ Removing(io.turn)
        /\ \A t \in Turns : pending'[t] = IF t = io.turn THEN None ELSE pending[t]
        /\ \A t \in Turns : ~Removing(t)'
    BY <1>0, <1>13 DEF RemovePending, ui, bracket, Removing
  <2>2. StillPending' /\ DiskBehind' /\ QueueInOrder'
    BY <1>0, <2>1 DEF StillPending, Awaited, DiskBehind, Behind, QueueInOrder, OfReview
  <2>3. PostedFresh'
    BY <2>1 DEF PostedFresh, Fresh
  <2> QED BY <2>2, <2>3
<1>14. CASE Settled \/ GcSets
  <2>1. UNCHANGED <<pending, host, jobs, loaded>> /\ \A t \in Turns : Removing(t)' => Removing(t)
    BY <1>14 DEF Settled, GcSets, ui, bracket, files, Removing
  <2>2. CASE \E t \in Turns : SavePending(t)
    BY <1>3, <2>2
  <2>3. CASE ~\E t \in Turns : SavePending(t)
    <3>1. StillPending' /\ DiskBehind' /\ QueueInOrder'
      BY <1>0, <1>1, <2>1 DEF StillPending, Awaited, DiskBehind, Behind, QueueInOrder, OfReview
    <3>2. PostedFresh'
      BY <1>2, <2>1, <2>3 DEF PostedFresh, Fresh
    <3> QED BY <3>1, <3>2
  <2> QED BY <2>2, <2>3
<1>15. CASE Restart
  <2>1. /\ pending' = pending /\ host' = pending /\ loaded' = [t \in Turns |-> None]
        /\ jobs' = <<[kind |-> "gc"]>> /\ phase' = Crashed /\ io' = None
    BY <1>15 DEF Restart, Forgotten, files
  <2>2. \A t \in Turns : phase'[t] # "posted" /\ (pending[t] # None => phase'[t] = "over")
    BY <2>1 DEF Crashed, Copies, Copy, Closed, BracketTyped
  <2>3. \A i : ~OfReview(i)'
    BY <2>1 DEF OfReview
  <2> QED BY <2>1, <2>2, <2>3 DEF StillPending, Awaited, Removing, DiskBehind, Behind, Before, QueueInOrder,
             PostedFresh
<1> QED BY <1>3, <1>4, <1>5, <1>6, <1>7, <1>9, <1>11, <1>12, <1>13, <1>14, <1>15, ReviewSteps


LEMMA InLineStep == ASSUME TypeOK, RevertOfHeld, Copies, InLine, Next PROVE InLine'
<1>1. StillUndecided' /\ ArchivedOver'
  BY StillUndecidedStep, ArchivedOverStep DEF InLine
<1> QED BY <1>1, InOrderStep DEF InLine

Lined == Copies /\ InLine

LEMMA LinedInductive == Spec => []Lined
<1>1. Init => Lined
  BY DEF Init, Lined, Copies, InLine, StillPending, DiskBehind, QueueInOrder, OfReview, PostedFresh, StillUndecided,
     ArchivedOver, Removing
<1>2. ASSUME Typed, Lined, Next PROVE Lined'
  BY <1>2, CopiesStep, InLineStep DEF Lined, Typed
<1>3. ASSUME Lined, UNCHANGED vars PROVE Lined'
  <2>1. UNCHANGED <<phase, set, loaded, pending, sets, host, jobs, io>>
    BY <1>3 DEF vars, bracket, files, thread, ui
  <2>2. Copies'
    BY <1>3, <2>1 DEF Lined, Copies, Copy, Closed
  <2>3. StillPending' /\ DiskBehind' /\ QueueInOrder'
    BY <1>3, <2>1 DEF Lined, InLine, StillPending, Awaited, Removing, DiskBehind, Behind, QueueInOrder, OfReview
  <2>4. PostedFresh' /\ StillUndecided' /\ ArchivedOver'
    BY <1>3, <2>1 DEF Lined, InLine, PostedFresh, StillUndecided, ArchivedOver, Fresh, Removing
  <2> QED BY <2>2, <2>3, <2>4 DEF Lined, InLine
<1> QED BY <1>1, <1>2, <1>3, TypedInit, TypedStep, PTL DEF Spec

Forward(t) ==
  /\ (sets[t] # None /\ pending[t] = None) => pending'[t] = None
  /\ (pending[t] # None /\ pending'[t] # None)
       => \A p \in Paths : pending[t].dec[p] # "none" => pending'[t].dec[p] = pending[t].dec[p]

LEMMA ForwardStep ==
  ASSUME TypeOK, RevertOfHeld, Lined, Next, NEW t \in Turns PROVE Marking \/ Forward(t)
<1> USE DEF TypeOK
<1>1. ASSUME pending' = pending PROVE Forward(t)
  BY <1>1 DEF Forward
<1>2. ASSUME NEW u \in Turns, SavePending(u) PROVE Forward(t)
  <2>1. phase[u] = "saving" /\ pending[u] = None /\ sets[u] = None
    BY <1>2 DEF SavePending, Lined, Copies, Copy, Closed, InLine, ArchivedOver
  <2>2. t # u => pending'[t] = pending[t]
    BY <1>2 DEF SavePending, ReviewsTyped
  <2> QED BY <2>1, <2>2 DEF Forward
<1>3. ASSUME NEW u \in Turns, MarkSave(u) PROVE Marking
  BY <1>3 DEF MarkSave, Marking, BracketTyped
<1>4. CASE RunSave
  <2>1. Free /\ Head(jobs).kind # "gc" /\ pending' = [pending EXCEPT ![Head(jobs).turn] = Head(jobs).review]
    BY <1>4 DEF RunSave
  <2>2. Head(jobs) = jobs[1] /\ OfReview(1) /\ jobs[1].turn \in Turns
    BY <2>1, HeadTyped DEF Free, OfReview, ReviewsTyped
  <2>3. pending[jobs[1].turn] # None /\ Before(pending[jobs[1].turn], jobs[1].review)
    BY <2>2 DEF Lined, InLine, StillPending, Awaited, DiskBehind, Behind
  <2>4. pending'[t] = IF t = jobs[1].turn THEN jobs[1].review ELSE pending[t]
    BY <2>1, <2>2 DEF ReviewsTyped
  <2> QED BY <2>3, <2>4 DEF Forward, Before
<1>5. CASE RemovePending
  <2>1. pending'[t] = pending[t] \/ pending'[t] = None
    BY <1>5 DEF RemovePending, ReviewsTyped
  <2> QED BY <2>1 DEF Forward
<1>6. ASSUME NEW u \in Turns, NEW p \in Paths, NEW d \in {"keep", "revert"}, Decided(u, p, d) PROVE Forward(t)
  BY <1>1, <1>6 DEF Decided, files
<1>7. ASSUME NEW u \in Turns, Receive(u) \/ \E v \in Turns : MarkLoad(u, v) PROVE Forward(t)
  BY <1>1, <1>7 DEF Receive, MarkLoad, files
<1>8. CASE RunArchive \/ RunGc \/ GcSets \/ Restart \/ Settled
  BY <1>1, <1>8 DEF RunArchive, RunGc, GcSets, Restart, Settled, files
<1> QED BY <1>2, <1>3, <1>4, <1>5, <1>6, <1>7, <1>8, ReviewSteps

(* A pending file only moves forward but for an overlap mark: what was decided stays
   decided in it, and once its archive took its place no queued save brings it back
   (mod.rs:591-593). *)
THEOREM OnlyForward == Spec => OnlyMarksRollBack
<1>1. ASSUME Typed, Lined, [Next]_vars
      PROVE  [Marking \/ \A t \in Turns : Forward(t)]_vars
  BY <1>1, ForwardStep DEF Typed
<1>2. Typed /\ Lined /\ [Next]_vars => [Marking \/ \A t \in Turns : Forward(t)]_vars
  BY <1>1
<1>3. Spec => [][Marking \/ \A t \in Turns : Forward(t)]_vars
  BY <1>2, LinedInductive, TypedInit, TypedStep, PTL DEF Spec
<1> QED BY <1>3 DEF OnlyMarksRollBack, Forward


------------------------------------------------------------------------------
(* Until the host crashes a reject that reached the disk reaches the archive. *)

BudgetTyped == budget \in [writes : Nat, saves : Nat, crashes : 0 .. MaxCrashes, ages : Nat]

NoCrashYet == budget.crashes = MaxCrashes

LEMMA BudgetStep ==
  ASSUME BudgetTyped, Next PROVE BudgetTyped' /\ (NoCrashYet' => NoCrashYet /\ ~Restart)
<1>1. CASE UNCHANGED budget /\ ~Restart
  BY <1>1 DEF BudgetTyped, NoCrashYet
<1>2. CASE Restart
  <2>1. MaxCrashes \in Nat
    BY ConstantsAssumption
  <2> QED BY <1>2, <2>1 DEF Restart, BudgetTyped, NoCrashYet
<1>3. ASSUME UNCHANGED budget PROVE ~Restart
  BY <1>3 DEF BudgetTyped, Restart
<1>4. ASSUME NEW u \in Turns, Bracket(u) PROVE UNCHANGED budget
  BY <1>4 DEF Bracket, BeginWalk, BeginPublish, EndScan, EndPublish, MarkLoad, MarkSave, AutoRevert, SavePending
<1>5. CASE IoThread
  BY <1>1, <1>3, <1>5 DEF IoThread, RunSave, RunArchive, RemovePending, RunGc, GcBaseline, GcPending, GcSets,
     SweepLook, SweepUnlink, SweepDone
<1>6. ASSUME NEW k \in {"writes", "saves", "ages"}, budget[k] > 0, budget' = [budget EXCEPT ![k] = @ - 1]
      PROVE  BudgetTyped' /\ (NoCrashYet' => NoCrashYet /\ ~Restart)
  <2>1. budget[k] \in Nat /\ budget[k] - 1 \in Nat
    BY <1>6 DEF BudgetTyped
  <2>2. budget'.crashes = budget.crashes /\ BudgetTyped'
    BY <1>6, <2>1 DEF BudgetTyped
  <2>3. ~Restart
    BY <2>2 DEF Restart, BudgetTyped
  <2> QED BY <2>2, <2>3 DEF NoCrashYet
<1>7. CASE Host
  BY <1>1, <1>3, <1>6, <1>7 DEF Host, Receive, Accept, RejectLook, UndoLook, WriteBack, RecordBack, NoteSave, Save
<1>8. CASE (\E h \in Contents : Age(h)) \/ \E u \in Turns, q \in Paths, c \in Values : AgentWrite(u, q, c)
  BY <1>6, <1>8 DEF Age, AgentWrite
<1> QED BY <1>1, <1>2, <1>3, <1>4, <1>5, <1>7, <1>8 DEF Next

Recording(t, p) == op # None /\ op.step = "record" /\ op.kind = "revert" /\ op.turn = t /\ op.path = p

(* A file that was written back is being recorded or stands rejected in the host's
   review, and kept in no copy that may be archived. *)
Rejected(t, p) ==
  /\ phase[t] = "over"
  /\ host[t] # None => host[t].dec[p] = "revert" \/ (host[t].dec[p] = "none" /\ Recording(t, p))
  /\ \A i : (OfReview(i) /\ jobs[i].turn = t) => jobs[i].review.dec[p] # "keep"
  /\ sets[t] # None => sets[t].dec[p] # "keep"

HeldUnarchived == \A t \in Turns : host[t] # None => sets[t] = None

AllRejected == HeldUnarchived /\ \A t \in Turns, p \in Paths : <<t, p>> \in reverted => Rejected(t, p)

LEMMA HeldUnarchivedStep ==
  ASSUME TypeOK, RevertOfHeld, InLine, HeldUnarchived, Next, ~Restart PROVE HeldUnarchived'
<1> USE DEF TypeOK
<1>1. ASSUME \A t \in Turns : (host'[t] # None => host[t] # None) /\ (sets'[t] # None => sets[t] # None)
      PROVE  HeldUnarchived'
  BY <1>1 DEF HeldUnarchived
<1>2. CASE RunArchive
  <2>1. Head(jobs) = jobs[1] /\ OfReview(1) /\ jobs[1].kind = "archive"
    BY <1>2 DEF RunArchive, Free, OfReview, ReviewsTyped
  <2>2. host[jobs[1].turn] = None
    BY <2>1 DEF InLine, QueueInOrder
  <2>3. host' = host /\ \A t \in Turns \ {jobs[1].turn} : sets'[t] = sets[t]
    BY <1>2, <2>1 DEF RunArchive, ui, ReviewsTyped
  <2> QED BY <2>2, <2>3 DEF HeldUnarchived
<1>3. ASSUME NEW u \in Turns, Receive(u) PROVE HeldUnarchived'
  <2>1. sets' = sets /\ sets[u] = None
    BY <1>3 DEF Receive, files, InLine, ArchivedOver
  <2>2. \A t \in Turns : t # u /\ host'[t] # None => host[t] # None
    BY <1>3 DEF Receive
  <2> QED BY <2>1, <2>2 DEF HeldUnarchived
<1>4. ASSUME NEW u \in Turns, NEW p \in Paths, NEW d \in {"keep", "revert"}, Decided(u, p, d) PROVE HeldUnarchived'
  BY <1>1, <1>4 DEF Decided, Decide, files, ReviewsTyped
<1>5. ASSUME NEW u \in Turns, SavePending(u) \/ MarkSave(u) \/ \E v \in Turns : MarkLoad(u, v) PROVE HeldUnarchived'
  BY <1>1, <1>5 DEF SavePending, MarkSave, MarkLoad, files, ui
<1>6. CASE RunSave \/ RemovePending \/ RunGc \/ GcSets \/ Settled
  BY <1>1, <1>6 DEF RunSave, RemovePending, RunGc, GcSets, Settled, files, ui
<1> QED BY <1>2, <1>3, <1>4, <1>5, <1>6, ReviewSteps

LEMMA AllRejectedStep ==
  ASSUME TypeOK, RevertOfHeld, Lined, AllRejected, Next, ~Restart PROVE AllRejected'
<1> USE DEF TypeOK, Lined
<1>0. HeldUnarchived'
  BY HeldUnarchivedStep DEF AllRejected
<1> SUFFICES ASSUME NEW t \in Turns, NEW p \in Paths, <<t, p>> \in reverted' PROVE Rejected(t, p)'
  BY <1>0 DEF AllRejected
<1>1. phase[t] = "over" => phase'[t] = "over"
  BY ClosedStays DEF Closed
<1>2. jobs \in Seq(Job) /\ host \in [Turns -> Review \cup {None}]
  BY DEF ReviewsTyped
<1>3. ASSUME UNCHANGED <<host, jobs, sets>>, Rejected(t, p), Recording(t, p) => Recording(t, p)'
      PROVE  Rejected(t, p)'
  BY <1>1, <1>3 DEF Rejected, OfReview
<1>4. CASE WriteBack
  <2>1. /\ UNCHANGED <<host, jobs, sets, phase>> /\ op # None /\ op.step = "write" /\ op' = [op EXCEPT !.step = "record"]
        /\ op.turn \in Turns /\ op.path \in Paths /\ op.kind \in {"revert", "undo"}
    BY <1>4, OperandTyped DEF WriteBack, thread, files, bracket
  <2>2. op'.turn = op.turn /\ op'.path = op.path /\ op'.kind = op.kind /\ op'.step = "record" /\ op' # None
    BY <2>1, ConstantsAssumption DEF ReviewsTyped, Operation
  <2>3. ~Recording(t, p)
    BY <2>1 DEF Recording
  <2>4. CASE <<t, p>> \in reverted
    BY <1>3, <2>1, <2>3, <2>4 DEF AllRejected
  <2>5. CASE <<t, p>> \notin reverted
    <3>1. op.kind = "revert" /\ op.turn = t /\ op.path = p
      BY <1>4, <2>5 DEF WriteBack
    <3>2. host[t] # None /\ host[t].dec[p] = "none"
      BY <2>1, <3>1 DEF RevertOfHeld
    <3>3. phase[t] = "over" /\ sets[t] = None
      BY <3>2 DEF Copies, AllRejected, HeldUnarchived
    <3>4. \A i : (OfReview(i) /\ jobs[i].turn = t) => jobs[i].review.dec[p] # "keep"
      BY <3>2 DEF InLine, QueueInOrder, Before
    <3>5. Recording(t, p)'
      BY <2>2, <3>1 DEF Recording
    <3> QED BY <2>1, <3>2, <3>3, <3>4, <3>5 DEF Rejected, OfReview
  <2> QED BY <2>4, <2>5
<1>5. ASSUME NEW u \in Turns, NEW q \in Paths, NEW d \in {"keep", "revert"}, Decided(u, q, d), Rejected(t, p),
             op' = None, op = None \/ (Recording(u, q) /\ d = "revert")
      PROVE  Rejected(t, p)'
  <2>0. PICK r \in Review, k \in {"save", "archive"} : Queues(u, q, d, r, k)
    BY <1>5, DecidedQueues
  <2>1. /\ r.dec = [host[u].dec EXCEPT ![q] = d]
        /\ jobs' = Append(jobs, [kind |-> k, turn |-> u, review |-> r])
        /\ host' = [host EXCEPT ![u] = IF k = "archive" THEN None ELSE r]
        /\ UNCHANGED <<pending, sets, loaded, phase, io>>
    BY <2>0 DEF Queues
  <2>2. host[u] # None /\ host[u].dec[q] = "none" /\ host[u] \in Review
    BY <1>2, <1>5 DEF Decided
  <2>3. u = t => r.dec[p] = "revert"
    <3> SUFFICES ASSUME u = t PROVE r.dec[p] = "revert"
      OBVIOUS
    <3>1. host[t].dec[p] = "revert" \/ (host[t].dec[p] = "none" /\ Recording(t, p))
      BY <1>5, <2>2 DEF Rejected
    <3>2. CASE host[t].dec[p] = "revert"
      BY <2>1, <2>2, <3>2 DEF Review, Decisions
    <3>3. CASE host[t].dec[p] = "none" /\ Recording(t, p)
      <4>1. q = p /\ d = "revert"
        BY <1>5, <3>3 DEF Recording
      <4> QED BY <2>1, <2>2, <4>1 DEF Review, Decisions
    <3> QED BY <3>1, <3>2, <3>3
  <2>4. host'[t] # None => host'[t].dec[p] = "revert"
    <3>1. CASE u = t
      BY <1>2, <2>1, <2>3, <3>1
    <3>2. CASE u # t
      <4>1. ~Recording(t, p)
        BY <1>5, <3>2 DEF Recording
      <4> QED BY <1>2, <1>5, <2>1, <3>2, <4>1 DEF Rejected
    <3> QED BY <3>1, <3>2
  <2>5. \A i : (OfReview(i)' /\ jobs'[i].turn = t) => jobs'[i].review.dec[p] # "keep"
    <3>1. \A i : OfReview(i)' => \/ OfReview(i) /\ jobs'[i] = jobs[i]
                                 \/ jobs'[i].turn = u /\ jobs'[i].review = r
      BY <1>2, <2>1 DEF OfReview
    <3> QED BY <1>5, <2>3, <3>1 DEF Rejected
  <2> QED BY <1>5, <2>1, <2>4, <2>5 DEF Rejected
<1>6. CASE Host /\ ~WriteBack
  <2>1. <<t, p>> \in reverted /\ Rejected(t, p)
    BY <1>6 DEF Host, Receive, Accept, RejectLook, UndoLook, RecordBack, NoteSave, Save, AllRejected
  <2>2. ASSUME NEW u \in Turns, Receive(u) PROVE Rejected(t, p)'
    <3>1. UNCHANGED <<jobs, sets, op>> /\ op = None /\ u # t
      BY <2>1, <2>2 DEF Receive, files, thread, Rejected
    <3>2. host'[t] # None => host[t] # None /\ host'[t].dec = host[t].dec
      <4>1. CASE t \in touched[u] /\ host[t] # None /\ pending[t] # None
        <5>1. host'[t] = [host[t] EXCEPT !.keys = pending[t].keys, !.marks = pending[t].marks]
          BY <2>2, <3>1, <4>1 DEF Receive
        <5> QED BY <1>2, <4>1, <5>1 DEF Review
      <4>2. CASE ~(t \in touched[u] /\ host[t] # None /\ pending[t] # None)
        BY <2>2, <3>1, <4>2 DEF Receive
      <4> QED BY <4>1, <4>2
    <3> QED BY <1>1, <2>1, <3>1, <3>2 DEF Rejected, OfReview, Recording
  <2>3. ASSUME NEW u \in Turns, NEW q \in Paths, Accept(u, q) PROVE Rejected(t, p)'
    <3>1. op = None /\ op' = None /\ Decided(u, q, "keep")
      BY <2>3 DEF Accept, Open, Decided
    <3> QED BY <1>5, <2>1, <3>1
  <2>4. ASSUME NEW u \in Turns, NEW q \in Paths, RejectLook(u, q) PROVE Rejected(t, p)'
    <3>1. op = None /\ ~Recording(t, p)
      BY <2>4 DEF RejectLook, Open, Recording
    <3>2. \/ op' = op /\ Decided(u, q, "revert")
          \/ UNCHANGED <<host, jobs, sets>>
      BY <2>4 DEF RejectLook, Open, Decided, thread, files
    <3> QED BY <1>3, <1>5, <2>1, <3>1, <3>2
  <2>5. ASSUME NEW u \in Turns, NEW q \in Paths, UndoLook(u, q) PROVE Rejected(t, p)'
    BY <1>3, <2>1, <2>5 DEF UndoLook, Recording, thread, files
  <2>6. CASE RecordBack
    <3>1. op' = None /\ op # None /\ op.step = "record" /\ op.turn \in Turns /\ op.path \in Paths
      BY <2>6, OperandTyped DEF RecordBack
    <3>2. CASE op.kind = "revert"
      <4>1. Decided(op.turn, op.path, "revert") /\ Recording(op.turn, op.path)
        BY <2>6, <3>1, <3>2 DEF RecordBack, RevertOfHeld, Decided, Recording
      <4> QED BY <1>5, <2>1, <3>1, <4>1
    <3>3. CASE op.kind # "revert"
      BY <1>3, <2>1, <2>6, <3>3 DEF RecordBack, Recording, thread, files
    <3> QED BY <3>2, <3>3
  <2>7. CASE NoteSave
    BY <1>3, <2>1, <2>7 DEF NoteSave, Recording, thread, files
  <2>8. ASSUME NEW q \in Paths, NEW c \in Values, Save(q, c) PROVE Rejected(t, p)'
    BY <1>3, <2>1, <2>8 DEF Save, Recording, thread, files
  <2> QED BY <1>6, <2>2, <2>3, <2>4, <2>5, <2>6, <2>7, <2>8 DEF Host
<1>7. ASSUME UNCHANGED <<host, op, reverted>>, \A i : OfReview(i)' => \E j : OfReview(j) /\ jobs'[i] = jobs[j],
             sets'[t] # None =>
               \/ sets[t] # None /\ sets'[t] = sets[t]
               \/ \E j : OfReview(j) /\ jobs[j].turn = t /\ sets'[t] = jobs[j].review
      PROVE  Rejected(t, p)'
  <2>1. Rejected(t, p)
    BY <1>7 DEF AllRejected
  <2> QED BY <1>1, <1>7, <2>1 DEF Rejected, Recording
<1>8. CASE IoThread
  <2>1. ASSUME Free, jobs' = Tail(jobs)
        PROVE  /\ \A i : OfReview(i)' => \E j : OfReview(j) /\ jobs'[i] = jobs[j]
               /\ Head(jobs) = jobs[1] /\ (Head(jobs).kind # "gc" => OfReview(1))
    <3>1. /\ Len(jobs') = Len(jobs) - 1 /\ jobs # <<>> /\ Head(jobs) = jobs[1] /\ 1 \in 1 .. Len(jobs)
          /\ \A i \in 1 .. Len(jobs') : jobs'[i] = jobs[i + 1] /\ i + 1 \in 1 .. Len(jobs)
      BY <1>2, <2>1 DEF Free
    <3> QED BY <3>1 DEF OfReview
  <2>2. CASE RunSave \/ RunGc
    BY <1>7, <2>1, <2>2 DEF RunSave, RunGc, ui, files
  <2>3. CASE RunArchive
    <3>1. /\ UNCHANGED <<host, op, reverted>> /\ Free /\ jobs' = Tail(jobs) /\ Head(jobs).kind # "gc"
          /\ sets' = [sets EXCEPT ![Head(jobs).turn] = Head(jobs).review]
      BY <2>3 DEF RunArchive, ui
    <3>2. sets'[t] = IF t = jobs[1].turn THEN jobs[1].review ELSE sets[t]
      BY <2>1, <3>1 DEF ReviewsTyped
    <3> QED BY <1>7, <2>1, <3>1, <3>2
  <2>4. ASSUME UNCHANGED <<host, op, reverted, jobs>>, sets'[t] # None => sets[t] # None /\ sets'[t] = sets[t]
        PROVE  Rejected(t, p)'
    BY <1>7, <2>4 DEF OfReview
  <2> QED BY <1>8, <2>2, <2>3, <2>4 DEF IoThread, RemovePending, GcBaseline, GcPending, GcSets, SweepLook,
             SweepUnlink, SweepDone, ui, files
<1>9. ASSUME UNCHANGED <<thread, host, op, reverted, sets>> PROVE Rejected(t, p)'
  BY <1>7, <1>9 DEF thread, OfReview
<1>10. ASSUME NEW u \in Turns, Bracket(u) PROVE Rejected(t, p)'
  BY <1>9, <1>10 DEF Bracket, BeginWalk, BeginPublish, EndScan, EndPublish, MarkLoad, MarkSave, AutoRevert,
     SavePending, ui, files
<1>11. CASE (\E h \in Contents : Age(h)) \/ \E u \in Turns, q \in Paths, c \in Values : AgentWrite(u, q, c)
  BY <1>9, <1>11 DEF Age, AgentWrite, ui, files
<1> QED BY <1>4, <1>6, <1>8, <1>10, <1>11 DEF Next

CrashFree == BudgetTyped /\ (NoCrashYet => AllRejected)

LEMMA CrashFreeInductive == Spec => []CrashFree
<1>1. Init => CrashFree
  BY ConstantsAssumption DEF Init, CrashFree, BudgetTyped, AllRejected, HeldUnarchived
<1>2. ASSUME Typed, Lined, CrashFree, Next PROVE CrashFree'
  BY <1>2, BudgetStep, AllRejectedStep DEF CrashFree, Typed
<1>3. ASSUME CrashFree, UNCHANGED vars PROVE CrashFree'
  BY <1>3 DEF CrashFree, BudgetTyped, NoCrashYet, AllRejected, HeldUnarchived, Rejected, Recording, OfReview, vars,
     bracket, files, thread, ui
<1> QED BY <1>1, <1>2, <1>3, LinedInductive, TypedInit, TypedStep, PTL DEF Spec

(* Until the host crashes, no archive says "kept" of a file whose reject reached the
   disk: neither a later look, a second reject, a mark nor a queued save loses it. *)
THEOREM RejectsKept == Spec => [](NoCrashYet => RejectsRecorded)
<1>1. CrashFree => (NoCrashYet => RejectsRecorded)
  BY DEF CrashFree, AllRejected, Rejected, RejectsRecorded
<1> QED BY <1>1, CrashFreeInductive, PTL


------------------------------------------------------------------------------
(* Until the host crashes the collector spares what the reviews show. *)

Hot(c) == c \in fresh \cup raced

(* Nothing unlinks c from here on: too young, or pinned once the pending files were
   looked through. *)
Protected(c) ==
  Hot(c) \/ (c \in blobs /\ ((io # None /\ io.step \in {"sets", "sweep", "unlink"}) => c \in keep))

InReview(t) == phase[t] = "posted" \/ host[t] # None

FoundHot ==
  \A t \in Turns, p \in Paths : post[t][p] # Absent =>
    /\ (phase[t] = "scanned" /\ pre[t][p] # post[t][p]) => Hot(post[t][p])
    /\ (phase[t] \in {"marking", "saving"} /\ p \in set[t].keys) => Hot(post[t][p])

ReviewedProtected ==
  \A t \in Turns : InReview(t) =>
    \A p \in set[t].keys : post[t][p] # Absent => Protected(post[t][p])

UnlinksUnpinned == (io # None /\ io.step = "unlink") => io.blob \notin keep

LEMMA HotStays ==
  ASSUME TypeOK, Next, NEW t \in Turns, phase[t] \in {"scanned", "marking", "saving"}, NEW c, Hot(c) PROVE Hot(c)'
<1> USE DEF TypeOK
<1>1. \A h \in Contents : ~Age(h)
  BY DEF Age
<1>2. ASSUME NEW S, Put(S) PROVE Hot(c)'
  BY <1>2 DEF Put, Hot
<1>3. ASSUME UNCHANGED store PROVE Hot(c)'
  BY <1>3 DEF store, Hot
<1>4. ASSUME NEW u \in Turns, Bracket(u) PROVE Hot(c)'
  <2>1. CASE BeginWalk(u)
    BY <1>2, <2>1 DEF BeginWalk
  <2>2. CASE EndScan(u)
    BY <1>2, <2>2 DEF EndScan
  <2> QED BY <1>3, <1>4, <2>1, <2>2 DEF Bracket, BeginPublish, EndPublish, MarkLoad, MarkSave, AutoRevert, SavePending
<1>5. CASE IoThread
  <2>1. CASE SweepUnlink
    BY <2>1 DEF SweepUnlink, Hot
  <2> QED BY <1>3, <1>5, <2>1 DEF IoThread, RunSave, RunArchive, RemovePending, RunGc, GcBaseline, GcPending,
             GcSets, SweepLook, SweepDone
<1>6. CASE Host
  BY <1>3, <1>6 DEF Host, Receive, Accept, RejectLook, UndoLook, WriteBack, RecordBack, Save, NoteSave
<1>7. CASE Restart \/ \E u \in Turns, q \in Paths, v \in Values : AgentWrite(u, q, v)
  BY <1>3, <1>7 DEF Restart, AgentWrite
<1> QED BY <1>1, <1>4, <1>5, <1>6, <1>7 DEF Next

LEMMA HostLeavesGc == Host => UNCHANGED <<io, keep>>
<1>1. ASSUME NEW t, NEW p, NEW d, Decide(t, p, d) PROVE UNCHANGED <<io, keep>>
  BY <1>1 DEF Decide
<1>2. ASSUME UNCHANGED thread PROVE UNCHANGED <<io, keep>>
  BY <1>2 DEF thread
<1>3. ASSUME NEW t \in Turns, NEW p \in Paths, Accept(t, p) \/ RejectLook(t, p) \/ UndoLook(t, p)
      PROVE  UNCHANGED <<io, keep>>
  BY <1>1, <1>2, <1>3 DEF Accept, RejectLook, UndoLook
<1>4. (\E t \in Turns : Receive(t)) \/ WriteBack \/ NoteSave \/ (\E p \in Paths, c \in Values : Save(p, c))
        => UNCHANGED <<io, keep>>
  BY <1>2 DEF Receive, WriteBack, NoteSave, Save
<1>5. RecordBack => UNCHANGED <<io, keep>>
  BY <1>1, <1>2 DEF RecordBack
<1> QED BY <1>3, <1>4, <1>5 DEF Host

LEMMA ProtectedStays ==
  ASSUME TypeOK, UnlinksUnpinned, Next, ~GcPending, NEW c, Protected(c) PROVE Protected(c)'
<1> USE DEF TypeOK
<1>1. ASSUME NEW S, Put(S), UNCHANGED thread PROVE Protected(c)'
  BY <1>1 DEF Put, Protected, Hot, thread
<1>2. ASSUME UNCHANGED store, UNCHANGED <<io, keep>> PROVE Protected(c)'
  BY <1>2 DEF store, Protected, Hot
<1>3. ASSUME UNCHANGED store, io' = None \/ io'.step \notin {"sets", "sweep", "unlink"} PROVE Protected(c)'
  BY <1>3 DEF store, Protected, Hot, FilesTyped
<1>4. ASSUME NEW u \in Turns, Bracket(u) PROVE Protected(c)'
  <2>1. CASE BeginWalk(u)
    BY <1>1, <2>1 DEF BeginWalk
  <2>2. CASE EndScan(u)
    BY <1>1, <2>2 DEF EndScan
  <2> QED BY <1>2, <1>4, <2>1, <2>2 DEF Bracket, BeginPublish, EndPublish, MarkLoad, MarkSave, AutoRevert,
             SavePending, thread
<1>5. CASE IoThread
  <2>1. CASE SweepUnlink
    BY <2>1 DEF SweepUnlink, Protected, Hot, UnlinksUnpinned
  <2>2. CASE \/ GcSets \/ \E h \in Contents : SweepLook(h)
    BY <2>2 DEF GcSets, SweepLook, store, Protected, Hot
  <2>3. CASE RunArchive \/ RunGc \/ RemovePending \/ GcBaseline \/ SweepDone
    BY <1>3, <2>3 DEF RunArchive, RunGc, RemovePending, GcBaseline, SweepDone
  <2>4. CASE RunSave
    BY <1>2, <2>4 DEF RunSave
  <2> QED BY <1>5, <2>1, <2>2, <2>3, <2>4 DEF IoThread
<1>6. CASE Host
  BY <1>2, <1>6, HostLeavesGc DEF Host, Receive, Accept, RejectLook, UndoLook, WriteBack, RecordBack, Save, NoteSave
<1>7. CASE Restart
  BY <1>3, <1>7 DEF Restart, Forgotten
<1>8. ASSUME NEW h \in Contents, Age(h) PROVE Protected(c)'
  BY <1>8 DEF Age, FilesTyped, Protected, Hot, thread
<1>9. ASSUME NEW u \in Turns, NEW q \in Paths, NEW v \in Values, AgentWrite(u, q, v) PROVE Protected(c)'
  BY <1>2, <1>9 DEF AgentWrite, thread
<1> QED BY <1>4, <1>5, <1>6, <1>7, <1>8, <1>9 DEF Next

LEMMA UnlinksUnpinnedStep == ASSUME TypeOK, UnlinksUnpinned, Next PROVE UnlinksUnpinned'
<1> USE DEF TypeOK
<1>1. ASSUME UNCHANGED <<io, keep>> PROVE UnlinksUnpinned'
  BY <1>1 DEF UnlinksUnpinned
<1>2. CASE IoThread
  BY <1>1, <1>2 DEF IoThread, RunSave, RunArchive, RemovePending, RunGc, GcBaseline, GcPending, GcSets,
     SweepLook, SweepUnlink, SweepDone, UnlinksUnpinned
<1>3. ASSUME NEW u \in Turns, Bracket(u) PROVE UNCHANGED <<io, keep>>
  BY <1>3 DEF Bracket, BeginWalk, BeginPublish, EndScan, EndPublish, MarkLoad, MarkSave, AutoRevert, SavePending,
     thread
<1>4. CASE Host
  BY <1>1, <1>4, HostLeavesGc
<1>5. CASE Restart
  BY <1>5 DEF Restart, Forgotten, UnlinksUnpinned
<1>6. CASE (\E h \in Contents : Age(h)) \/ \E u \in Turns, q \in Paths, c \in Values : AgentWrite(u, q, c)
  BY <1>1, <1>6 DEF Age, AgentWrite, thread
<1> QED BY <1>1, <1>2, <1>3, <1>4, <1>5, <1>6 DEF Next

LEMMA FoundHotStep == ASSUME TypeOK, FoundHot, Next PROVE FoundHot'
<1> USE DEF TypeOK
<1> SUFFICES ASSUME NEW t \in Turns, NEW p \in Paths, post'[t][p] # Absent,
                    \/ phase'[t] = "scanned" /\ pre'[t][p] # post'[t][p]
                    \/ phase'[t] \in {"marking", "saving"} /\ p \in set'[t].keys
             PROVE  Hot(post[t][p])'
  BY DEF FoundHot
<1>1. CASE EndScan(t)
  <2>1. PICK reused \in SUBSET Unmoved(pre[t]) : Put({disk[q] : q \in Paths \ reused})
    BY <1>1 DEF EndScan
  <2>2. post'[t] = disk /\ pre' = pre /\ phase'[t] = "scanned"
    BY <1>1 DEF EndScan, FilesTyped, BracketTyped
  <2>3. p \notin reused
    BY <2>2 DEF Unmoved
  <2>4. post'[t][p] \in fresh'
    BY <2>1, <2>2, <2>3 DEF Put, Stored
  <2> QED BY <2>4 DEF Hot
<1>2. CASE ~EndScan(t)
  <2>1. /\ phase[t] \in {"scanned", "marking", "saving"} /\ post'[t] = post[t]
        /\ \/ phase[t] = "scanned" /\ pre[t][p] # post[t][p]
           \/ phase[t] \in {"marking", "saving"} /\ p \in set[t].keys
    <3>1. CASE UNCHANGED Turn(t)
      BY <3>1 DEF Turn
    <3>2. CASE Moves(t)
      <4>1. CASE EndPublish(t)
        BY <4>1 DEF EndPublish, Changed, NewReview, BracketTyped
      <4>2. CASE AutoRevert(t)
        BY <4>2 DEF AutoRevert, BracketTyped, Review
      <4> QED BY <1>2, <3>2, <4>1, <4>2 DEF Moves, BeginWalk, BeginPublish, SavePending, Receive, Restart, Crashed,
                 BracketTyped
    <3> QED BY <3>1, <3>2, TurnMoves
  <2>2. Hot(post[t][p])
    BY <2>1 DEF FoundHot
  <2>3. \A c : Hot(c) => Hot(c)'
    BY <2>1, HotStays
  <2> QED BY <2>1, <2>2, <2>3 DEF Hot
<1> QED BY <1>1, <1>2

(* A review comes before the user when its turn posts it. *)
LEMMA ReviewBegins ==
  ASSUME TypeOK, RevertOfHeld, Next, ~Restart, NEW t \in Turns, InReview(t)'
  PROVE  InReview(t) \/ SavePending(t)
<1> USE DEF TypeOK
<1>1. CASE phase'[t] = "posted"
  BY <1>1, PostedBy DEF InReview
<1>2. CASE phase'[t] # "posted"
  <2>1. host'[t] # None
    BY <1>2 DEF InReview
  <2>2. CASE host[t] # None
    BY <2>2 DEF InReview
  <2>3. CASE host[t] = None
    <3>1. ASSUME NEW u \in Turns, Receive(u) PROVE phase[t] = "posted"
      BY <2>1, <2>3, <3>1 DEF Receive
    <3>2. ASSUME NEW u \in Turns, NEW p \in Paths, NEW d \in {"keep", "revert"}, Decided(u, p, d) PROVE FALSE
      BY <2>1, <2>3, <3>2 DEF Decided, Decide, ReviewsTyped
    <3>3. host' # host
      BY <2>1, <2>3
    <3>4. \E u \in Turns : Receive(u)
      BY <3>2, <3>3, ReviewSteps DEF SavePending, MarkSave, MarkLoad, RunSave, RunArchive, RemovePending, RunGc,
         GcSets, Settled, ui
    <3> QED BY <3>1, <3>4 DEF InReview
  <2> QED BY <2>2, <2>3
<1> QED BY <1>1, <1>2

LEMMA ReviewedProtectedStep ==
  ASSUME TypeOK, RevertOfHeld, Lined, FoundHot, UnlinksUnpinned, ReviewedProtected, Next, ~Restart
  PROVE  ReviewedProtected'
<1> USE DEF TypeOK
<1> SUFFICES ASSUME NEW t \in Turns, InReview(t)', NEW p \in set'[t].keys, post'[t][p] # Absent
             PROVE  Protected(post[t][p])'
  BY DEF ReviewedProtected
<1>1. PICK c : c = post[t][p]
  OBVIOUS
<1>2. CASE InReview(t)
  <2>1. Closed(t)
    BY <1>2 DEF InReview, Closed, Lined, Copies
  <2>2. set'[t] = set[t] /\ post'[t] = post[t]
    <3>1. CASE UNCHANGED Turn(t)
      BY <3>1, SMTT(30) DEF Turn
    <3>2. CASE Moves(t)
      BY <2>1, <3>2 DEF Moves, BeginWalk, BeginPublish, EndScan, EndPublish, AutoRevert, SavePending, Receive,
         Restart, Closed
    <3> QED BY <3>1, <3>2, TurnMoves
  <2>3. Protected(c)
    BY <1>1, <1>2, <2>2 DEF ReviewedProtected
  <2>4. CASE GcPending
    <3>1. pending[t] # None /\ pending[t].keys = set[t].keys
      BY <1>2 DEF InReview, Lined, InLine, StillPending, Awaited, PostedFresh, Copies, Copy
    <3>2. Pinned(t, pending[t].keys) \subseteq keep'
      BY <2>4, <3>1 DEF GcPending
    <3>3. c \in keep'
      BY <1>1, <2>2, <3>1, <3>2 DEF Pinned, Stored
    <3>4. UNCHANGED store
      BY <2>4 DEF GcPending
    <3>5. Hot(c) \/ c \in blobs
      BY <2>3 DEF Protected
    <3> QED BY <1>1, <2>2, <3>3, <3>4, <3>5 DEF Protected, Hot, store
  <2>5. CASE ~GcPending
    <3>1. \A d : Protected(d) => Protected(d)'
      BY <2>5, ProtectedStays
    <3> QED BY <1>1, <2>2, <2>3, <3>1 DEF Protected, Hot
  <2> QED BY <2>4, <2>5
<1>3. CASE SavePending(t)
  <2>1. phase[t] = "saving" /\ UNCHANGED <<set, post>>
    BY <1>3 DEF SavePending
  <2>2. p \in Paths
    BY <2>1 DEF BracketTyped, Review
  <2>3. Hot(c)
    BY <1>1, <2>1, <2>2 DEF FoundHot
  <2>4. \A d : Hot(d) => Hot(d)'
    BY <2>1, HotStays
  <2> QED BY <1>1, <2>1, <2>3, <2>4 DEF Protected, Hot
<1> QED BY <1>2, <1>3, ReviewBegins

Guarded == FoundHot /\ UnlinksUnpinned /\ (NoCrashYet => ReviewedProtected)

LEMMA GuardedInductive == Spec => []Guarded
<1>1. Init => Guarded
  BY DEF Init, Guarded, FoundHot, UnlinksUnpinned, ReviewedProtected, InReview
<1>2. ASSUME Typed, Lined, BudgetTyped, Guarded, Next PROVE Guarded'
  BY <1>2, FoundHotStep, UnlinksUnpinnedStep, ReviewedProtectedStep, BudgetStep DEF Guarded, Typed
<1>3. ASSUME Guarded, UNCHANGED vars PROVE Guarded'
  BY <1>3 DEF Guarded, FoundHot, Hot, UnlinksUnpinned, ReviewedProtected, InReview, Protected, NoCrashYet, vars,
     bracket, store, thread, ui
<1>4. Spec => []BudgetTyped
  BY CrashFreeInductive, PTL DEF CrashFree
<1> QED BY <1>1, <1>2, <1>3, <1>4, LinedInductive, TypedInit, TypedStep, PTL DEF Spec

(* Until the host crashes, what a review shows of a file after its turn is in the
   store, however collections interleave with scans, saves and archives -- but for a
   blob touched between the collector's look and its unlink (mod.rs:698-701). *)
THEOREM AfterSideSpared == Spec => [](NoCrashYet => AfterSideKept)
<1>1. Typed /\ Lined /\ Guarded => (NoCrashYet => AfterSideKept)
  <2> SUFFICES ASSUME Typed, Lined, Guarded, NoCrashYet, NEW t \in Turns, host[t] # None, NEW p \in host[t].keys,
                      post[t][p] # Absent
               PROVE  post[t][p] \in blobs \cup raced
    BY DEF AfterSideKept, After, Stored
  <2>1. p \in set[t].keys /\ InReview(t)
    BY DEF Lined, Copies, Copy, InReview
  <2>2. Protected(post[t][p])
    BY <2>1 DEF Guarded, ReviewedProtected
  <2> QED BY <2>2 DEF Protected, Hot, Typed, TypeOK, FilesTyped
<1> QED BY <1>1, GuardedInductive, LinedInductive, TypedInit, TypedStep, PTL DEF Spec
=============================================================================
