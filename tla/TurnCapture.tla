---------------------------- MODULE TurnCapture ----------------------------
(***************************************************************************)
(* The life of a turn's change set (gaviero-core turn_capture, driven by   *)
(* the TUI's turn_review and side_panel): bracket the turn, mark overlaps, *)
(* persist the review, decide it file by file, archive it, and collect the *)
(* blobs nobody needs.                                                     *)
(*                                                                         *)
(* Four kinds of process interleave: one blocking task per turn, the       *)
(* agents' own processes, the host's event loop, and the capture's single  *)
(* I/O thread.  Every walk, load and write happens outside the one lock.   *)
(* What a scan finds is module TurnScan's; here it is one step.            *)
(***************************************************************************)
EXTENDS Integers, Sequences, FiniteSets

CONSTANTS
  Turns,      \* turn ids, each a prompt of a conversation of its own
  Paths,      \* files under the capture roots
  Contents,   \* what a file may hold; a content stands for its blob too
  MaySense,   \* paths that may be sensitive
  Retained,   \* RETAINED_TURNS
  Leftovers,  \* blobs earlier sessions left in the store
  MaxWrites,  \* bound on the agents' writes
  MaxSaves,   \* bound on the user's saves
  MaxCrashes, \* bound on restarts of the host
  MaxAges,    \* bound on the blobs that outlive GC_GRACE
  Absent,     \* no such file
  None        \* no such review, job or operation

VARIABLES
  sensitive, \* paths auto_revert_sensitive restores: settings, fixed
  disk,      \* path -> content
  blobs,     \* contents in objects/
  fresh,     \* blobs written or touched within GC_GRACE
  ledger,    \* path -> the latest host write, and the turns begun before it
  baseline,  \* State.baseline
  active,    \* State.active
  recent,    \* State.recent: ended turns a running one may overlap
  clock,     \* now_ns, as far as turns are stamped with it
  phase,     \* how far each turn's bracket is
  started, ended,  \* started_ns and scan_ns
  pre, post, \* what the two scans of a turn found
  set,       \* the change set in the turn task's hands
  todo,      \* overlapped turns `end` has yet to mark
  loaded,    \* mark_overlap's copy of another turn's review
  touched,   \* TurnEnd.overlapped_reviews
  pending,   \* pending/<turn>.json
  sets,      \* sets/<turn>.json
  host,      \* App::pending_turn_reviews
  op,        \* the file operation the event loop is in the middle of
  jobs,      \* the I/O thread's queue
  io, keep,  \* the job it runs, and gc's keep set
  budget,    \* what the bounds have left
  author,    \* history: who last wrote each path
  wrote,     \* history: the host's last write to each path, and the turns begun before it
  reverted,  \* history: <<turn, path>> a review wrote back
  met,       \* history: <<u, t>>: t was registered when u published its end
  raced,     \* history: blobs collected although just touched
  misread    \* history: paths whose last write by the host the ledger does not hold as it was made

world   == <<disk, author, sensitive, misread>>
store   == <<blobs, fresh, raced>>
bracket == <<phase, started, ended, pre, post, set, todo, loaded, touched>>
state   == <<baseline, active, recent, clock, met>>
files   == <<pending, sets>>
thread  == <<jobs, io, keep>>
ui      == <<host, op, wrote, reverted, ledger>>
vars    == <<world, store, bracket, state, files, thread, ui, budget>>

Values    == Contents \cup {Absent}
Snapshot  == [Paths -> Values]
Marks     == [Paths -> SUBSET Turns]
Decisions == [Paths -> {"none", "keep", "revert"}]
Review    == [keys : SUBSET Paths, marks : Marks, dec : Decisions]
Job       == [kind : {"save", "archive"}, turn : Turns, review : Review]
               \cup {[kind |-> "gc"]}

Undecided == [p \in Paths |-> "none"]
Unmarked  == [p \in Paths |-> {}]
NewReview(keys, marks) == [keys |-> keys, marks |-> marks, dec |-> Undecided]
NoReview == NewReview({}, Unmarked)

Operation == [kind : {"revert", "undo"}, turn : Turns, path : Paths, force : BOOLEAN,
              step : {"write", "record"}]
               \cup [kind : {"save"}, path : Paths, step : {"note"}]
Working == [step : {"remove"}, turn : Turns] \cup [step : {"unlink"}, blob : Contents]
             \cup [step : {"baseline", "pending", "sets", "sweep"}]

(* None is no turn, review, operation or job step. *)
ASSUME ConstantsAssumption ==
  /\ MaySense \subseteq Paths /\ Leftovers \subseteq Contents
  /\ Retained \in Nat /\ {MaxWrites, MaxSaves, MaxCrashes, MaxAges} \subseteq Nat
  /\ None \notin Turns \cup Review \cup Operation \cup Working

FilesTyped ==
  /\ disk \in Snapshot /\ sensitive \subseteq Paths
  /\ blobs \subseteq Contents /\ fresh \subseteq blobs /\ keep \subseteq Contents
  /\ baseline \in Snapshot
  /\ pre \in [Turns -> Snapshot] /\ post \in [Turns -> Snapshot]

BracketTyped ==
  /\ phase \in [Turns -> {"idle", "walked", "running", "scanned", "marking",
                          "saving", "posted", "over", "lost"}]
  /\ clock \in Nat /\ started \in [Turns -> Nat] /\ ended \in [Turns -> Nat]
  /\ active \subseteq Turns
  /\ recent \subseteq [turn : Turns, ended : Nat, keys : SUBSET Paths]
  /\ set \in [Turns -> Review]
  /\ todo \in [Turns -> SUBSET Turns] /\ touched \in [Turns -> SUBSET Turns]
  /\ loaded \in [Turns -> [turn : Turns, review : Review] \cup {None}]

ReviewsTyped ==
  /\ pending \in [Turns -> Review \cup {None}]
  /\ sets \in [Turns -> Review \cup {None}]
  /\ host \in [Turns -> Review \cup {None}]
  /\ op \in Operation \cup {None}
  /\ jobs \in Seq(Job)
  /\ io \in Working \cup {None}

HostWrites == [Paths -> [hash : Values \cup {None}, since : SUBSET Turns]]

WritesTyped ==
  /\ ledger \in HostWrites /\ wrote \in HostWrites
  /\ author \in [Paths -> Turns \cup {None}]
  /\ misread \subseteq Paths /\ raced \subseteq Contents
  /\ reverted \subseteq Turns \X Paths /\ met \subseteq Turns \X Turns

TypeOK == FilesTyped /\ BracketTyped /\ ReviewsTyped /\ WritesTyped

(* A start of the host with no review pending.  The collection it queues
   (restore_on_startup) matters only if earlier sessions left blobs. *)
Init ==
  /\ disk \in [Paths -> Contents] /\ sensitive \in SUBSET MaySense
  /\ blobs = Leftovers /\ fresh = {}
  /\ ledger = [p \in Paths |-> [hash |-> None, since |-> {}]]
  /\ baseline = [p \in Paths |-> Absent]
  /\ active = {} /\ recent = {} /\ clock = 0
  /\ phase = [t \in Turns |-> "idle"]
  /\ started = [t \in Turns |-> 0] /\ ended = [t \in Turns |-> 0]
  /\ pre = [t \in Turns |-> [p \in Paths |-> Absent]]
  /\ post = [t \in Turns |-> [p \in Paths |-> Absent]]
  /\ set = [t \in Turns |-> NoReview]
  /\ todo = [t \in Turns |-> {}] /\ touched = [t \in Turns |-> {}]
  /\ loaded = [t \in Turns |-> None]
  /\ pending = [t \in Turns |-> None]
  /\ sets = [t \in Turns |-> None]
  /\ host = [t \in Turns |-> None]
  /\ op = None
  /\ jobs = IF Leftovers = {} THEN <<>> ELSE <<[kind |-> "gc"]>>
  /\ io = None /\ keep = {}
  /\ budget = [writes |-> MaxWrites, saves |-> MaxSaves, crashes |-> MaxCrashes, ages |-> MaxAges]
  /\ author = [p \in Paths |-> None]
  /\ wrote = [p \in Paths |-> [hash |-> None, since |-> {}]]
  /\ reverted = {} /\ met = {} /\ raced = {} /\ misread = {}

------------------------------------------------------------------------------
(* The turn's bracket. *)

StoredAll(contents) == contents   \* mutant: a missing file is stored like an empty one
Stored(contents) == contents \ {Absent}

(* `put` writes a blob or touches it; either way the grace window covers it. *)
Put(contents) ==
  /\ blobs' = blobs \cup Stored(contents)
  /\ fresh' = fresh \cup Stored(contents)
  /\ UNCHANGED raced

(* begin walks: an entry whose stat did not move is reused when its blob is
   still there, without a look at the file. *)
Unmoved(m) == {p \in Paths : m[p] = disk[p] /\ (m[p] = Absent \/ m[p] \in blobs)}

BeginWalk(t) ==
  /\ phase[t] = "idle"
  /\ \E reused \in SUBSET Unmoved(baseline) :
       Put({disk[p] : p \in Paths \ reused})
  /\ pre' = [pre EXCEPT ![t] = disk]
  /\ clock' = clock + 1
  /\ started' = [started EXCEPT ![t] = clock']
  /\ phase' = [phase EXCEPT ![t] = "walked"]
  /\ UNCHANGED <<world, ended, post, set, todo, loaded, touched, baseline, active, recent, met,
                 files, thread, ui, budget>>

BeginPublish(t) ==
  /\ phase[t] = "walked"
  /\ baseline' = pre[t]
  /\ active' = active \cup {t}
  /\ phase' = [phase EXCEPT ![t] = "running"]
  /\ UNCHANGED <<world, store, started, ended, pre, post, set, todo, loaded, touched, recent,
                 clock, met, files, thread, ui, budget>>

AgentWrite(t, p, c) ==
  /\ phase[t] = "running"
  /\ budget.writes > 0
  /\ disk[p] # c
  /\ disk' = [disk EXCEPT ![p] = c]
  /\ author' = [author EXCEPT ![p] = t]
  /\ budget' = [budget EXCEPT !.writes = @ - 1]
  /\ UNCHANGED <<sensitive, misread, store, bracket, state, files, thread, ui>>

EndScan(t) ==
  /\ phase[t] = "running"
  /\ \E reused \in SUBSET (Unmoved(pre[t])) :
       Put({disk[p] : p \in Paths \ reused})
  /\ post' = [post EXCEPT ![t] = disk]
  /\ clock' = clock + 1
  /\ ended' = [ended EXCEPT ![t] = clock']
  /\ phase' = [phase EXCEPT ![t] = "scanned"]
  /\ UNCHANGED <<world, started, pre, set, todo, loaded, touched, baseline, active, recent, met,
                 files, thread, ui, budget>>

(* The host itself left p as the scan found it, at or after the turn began. *)
AttributesAnyContent(t, p) == t \in ledger[p].since   \* mutant: the hash is not compared
Attributes(t, p) == t \in ledger[p].since /\ ledger[p].hash = post[t][p]

Changed(t) == {p \in Paths : pre[t][p] # post[t][p] /\ ~Attributes(t, p)}

Overlapped(t, keys) ==
  {r \in recent : r.ended >= started[t] /\ r.keys \cap keys # {}}

(* The recent turns a still running one may overlap: `running` holds its starts. *)
SurvivingNone(now, running) == {}   \* mutant: every end clears the list
Surviving(now, running) == {r \in now : \E h \in running : r.ended >= h}

EndPublish(t) ==
  LET keys == Changed(t)
      over == Overlapped(t, keys)
      now  == recent \cup {[turn |-> t, ended |-> ended[t], keys |-> keys]}
  IN
  /\ phase[t] = "scanned"
  /\ active' = active \ {t}
  /\ recent' = Surviving(now, {started[u] : u \in active \ {t}})
  /\ baseline' = post[t]
  /\ set' = [set EXCEPT ![t] =
       NewReview(keys, [p \in Paths |-> {r.turn : r \in {x \in over : p \in x.keys \cap keys}}])]
  /\ todo' = [todo EXCEPT ![t] = {r.turn : r \in over}]
  /\ phase' = [phase EXCEPT ![t] = "marking"]
  /\ met' = met \cup ({t} \X (active \ {t}))
  /\ UNCHANGED <<world, store, started, ended, pre, post, loaded, touched, clock,
                 files, thread, ui, budget>>

(* mark_overlap: load the other turn's pending file, add the mark, save it. *)
MarkLoad(t, u) ==
  /\ phase[t] = "marking"
  /\ loaded[t] = None
  /\ u \in todo[t]
  /\ IF pending[u] = None
       THEN todo' = [todo EXCEPT ![t] = @ \ {u}] /\ UNCHANGED loaded
       ELSE loaded' = [loaded EXCEPT ![t] = [turn |-> u, review |-> pending[u]]]
            /\ UNCHANGED todo
  /\ UNCHANGED <<world, store, phase, started, ended, pre, post, set, touched, state,
                 files, thread, ui, budget>>

Marked(review, t, keys) ==
  [review EXCEPT !.marks =
     [p \in Paths |-> IF p \in review.keys \cap keys THEN @[p] \cup {t} ELSE @[p]]]

MarkSave(t) ==
  /\ loaded[t] # None
  /\ LET u   == loaded[t].turn
         old == loaded[t].review
         new == Marked(old, t, {p \in set[t].keys : u \in set[t].marks[p]})
     IN /\ todo' = [todo EXCEPT ![t] = @ \ {u}]
        /\ pending' = IF new = old THEN pending ELSE [pending EXCEPT ![u] = new]
        /\ touched' = IF new = old THEN touched ELSE [touched EXCEPT ![t] = @ \cup {u}]
  /\ loaded' = [loaded EXCEPT ![t] = None]
  /\ UNCHANGED <<world, store, phase, started, ended, pre, post, set, state, sets,
                 thread, ui, budget>>

Restorable(t, p) == pre[t][p] = Absent \/ pre[t][p] \in blobs

HostWrote(c) == [hash |-> c, since |-> {t \in Turns : phase[t] # "idle"}]

(* What revert_file, forced, leaves at its pre-turn state. *)
UndoneAlways(t, p) == TRUE   \* mutant: a failed revert leaves the review all the same
Undone(t, p) == disk[p] = pre[t][p] \/ Restorable(t, p)

(* auto_revert_sensitive: forced; what cannot be restored stays in review. *)
AutoRevert(t) ==
  LET mine == set[t].keys \cap sensitive
      back == {p \in mine : disk[p] # pre[t][p] /\ Restorable(t, p)}
  IN
  /\ phase[t] = "marking" /\ todo[t] = {}
  /\ disk' = [p \in Paths |-> IF p \in back THEN pre[t][p] ELSE disk[p]]
  /\ author' = [p \in Paths |-> IF p \in back THEN None ELSE author[p]]
  /\ ledger' = [p \in Paths |-> IF p \in back THEN HostWrote(pre[t][p]) ELSE ledger[p]]
  /\ wrote' = [p \in Paths |-> IF p \in back THEN HostWrote(pre[t][p]) ELSE wrote[p]]
  /\ misread' = misread \ back
  /\ set' = [set EXCEPT ![t].keys = @ \ {p \in mine : Undone(t, p)}]
  /\ phase' = [phase EXCEPT ![t] = "saving"]
  /\ UNCHANGED <<sensitive, store, started, ended, pre, post, todo, loaded, touched, state,
                 files, thread, host, op, reverted, budget>>

SavePending(t) ==
  /\ phase[t] = "saving"
  /\ IF set[t].keys = {}
       THEN phase' = [phase EXCEPT ![t] = "over"] /\ UNCHANGED pending
       ELSE /\ pending' = [pending EXCEPT ![t] = set[t]]
            /\ phase' = [phase EXCEPT ![t] = "posted"]
  /\ UNCHANGED <<world, store, started, ended, pre, post, set, todo, loaded, touched, state,
                 sets, thread, ui, budget>>

------------------------------------------------------------------------------
(* The host's event loop.  It runs one handler at a time, but a handler's
   file operations interleave with the other processes'. *)

(* on_turn_review_pending: the reviews `end` marked are read back from disk. *)
Receive(t) ==
  /\ op = None
  /\ phase[t] = "posted"
  /\ host' = [u \in Turns |->
       IF u = t THEN set[t]
       ELSE IF u \in touched[t] /\ host[u] # None /\ pending[u] # None
              THEN [host[u] EXCEPT !.keys = pending[u].keys, !.marks = pending[u].marks]
              ELSE host[u]]
  /\ phase' = [phase EXCEPT ![t] = "over"]
  /\ UNCHANGED <<world, store, started, ended, pre, post, set, todo, loaded, touched, state,
                 files, thread, op, wrote, reverted, ledger, budget>>

EnqueueFirst(job) == jobs' = <<job>> \o jobs   \* mutant: the last job runs first
Enqueue(job) == jobs' = Append(jobs, job)

(* Record a decision, then advance_or_finish: save what is decided so far, or
   archive the review and take it off the list. *)
Decide(t, p, d) ==
  LET review == [host[t] EXCEPT !.dec[p] = d]
      done   == \A q \in review.keys : review.dec[q] # "none"
  IN /\ Enqueue([kind |-> IF done THEN "archive" ELSE "save", turn |-> t, review |-> review])
     /\ host' = [host EXCEPT ![t] = IF done THEN None ELSE review]
     /\ UNCHANGED <<io, keep>>

Open(t, p) ==
  /\ op = None
  /\ host[t] # None
  /\ p \in host[t].keys
  /\ host[t].dec[p] = "none"

Accept(t, p) ==
  /\ Open(t, p)
  /\ Decide(t, p, "keep")
  /\ UNCHANGED <<world, store, bracket, state, files, op, wrote, reverted, ledger, budget>>

Drifted(t, p) == disk[p] # post[t][p]

(* revert_file: look, write back, record.  A file that drifted needs `force`. *)
RejectLook(t, p) ==
  /\ Open(t, p)
  /\ IF disk[p] = pre[t][p]
       THEN Decide(t, p, "revert") /\ UNCHANGED op
       ELSE /\ Restorable(t, p)
            /\ \E force \in BOOLEAN :
                 /\ force \/ ~Drifted(t, p)
                 /\ op' = [kind |-> "revert", turn |-> t, path |-> p, force |-> force, step |-> "write"]
            /\ UNCHANGED <<host, thread>>
  /\ UNCHANGED <<world, store, bracket, state, files, wrote, reverted, ledger, budget>>

(* undo_reviewed_turn waits for the queue to drain, and never forces. *)
UndoLook(t, p) ==
  /\ op = None
  /\ host[t] = None
  /\ jobs = <<>> /\ io = None
  /\ sets[t] # None
  /\ p \in sets[t].keys
  /\ disk[p] # pre[t][p] /\ ~Drifted(t, p) /\ Restorable(t, p)
  /\ op' = [kind |-> "undo", turn |-> t, path |-> p, force |-> FALSE, step |-> "write"]
  /\ UNCHANGED <<world, store, bracket, state, files, thread, host, wrote, reverted, ledger, budget>>

WriteBack ==
  /\ op # None
  /\ op.step = "write"
  /\ disk' = [disk EXCEPT ![op.path] = pre[op.turn][op.path]]
  /\ author' = [author EXCEPT ![op.path] = None]
  /\ op' = [op EXCEPT !.step = "record"]
  /\ wrote' = [wrote EXCEPT ![op.path] = HostWrote(pre[op.turn][op.path])]
  /\ reverted' = IF op.kind = "revert" THEN reverted \cup {<<op.turn, op.path>>} ELSE reverted
  /\ misread' = misread \cup {op.path}
  /\ UNCHANGED <<sensitive, store, bracket, state, files, thread, host, ledger, budget>>

(* The host's write of p reaches the ledger, stamped now: as it was made, if no
   other process wrote p in between. *)
Note(p, c) ==
  /\ ledger' = [ledger EXCEPT ![p] = HostWrote(c)]
  /\ misread' = IF author[p] = None /\ wrote[p].hash = c THEN misread \ {p} ELSE misread \cup {p}
  /\ UNCHANGED <<disk, author, sensitive>>

(* mutant of RecordBack: the reject is recorded only if the user repeats it *)
RecordBackForgets ==
  /\ op # None
  /\ op.step = "record"
  /\ Note(op.path, pre[op.turn][op.path])
  /\ op' = None
  /\ UNCHANGED <<store, bracket, state, files, host, thread, wrote, reverted, budget>>

RecordBack ==
  /\ op # None
  /\ op.step = "record"
  /\ Note(op.path, pre[op.turn][op.path])
  /\ IF op.kind = "revert" THEN Decide(op.turn, op.path, "revert") ELSE UNCHANGED <<host, thread>>
  /\ op' = None
  /\ UNCHANGED <<store, bracket, state, files, wrote, reverted, budget>>

(* An editor save, and note_host_write, which reads the file back. *)
Save(p, c) ==
  /\ op = None
  /\ budget.saves > 0
  /\ disk' = [disk EXCEPT ![p] = c]
  /\ author' = [author EXCEPT ![p] = None]
  /\ wrote' = [wrote EXCEPT ![p] = HostWrote(c)]
  /\ misread' = misread \cup {p}
  /\ op' = [kind |-> "save", path |-> p, step |-> "note"]
  /\ budget' = [budget EXCEPT !.saves = @ - 1]
  /\ UNCHANGED <<sensitive, store, bracket, state, files, thread, host, reverted, ledger>>

NoteSave ==
  /\ op # None
  /\ op.step = "note"
  /\ Note(op.path, disk[op.path])
  /\ op' = None
  /\ UNCHANGED <<store, bracket, state, files, thread, host, wrote, reverted, budget>>

------------------------------------------------------------------------------
(* The I/O thread: jobs in submission order. *)

Free == io = None /\ jobs # <<>>

RunSave ==
  /\ Free
  /\ Head(jobs).kind = "save"
  /\ pending' = [pending EXCEPT ![Head(jobs).turn] = Head(jobs).review]
  /\ jobs' = Tail(jobs)
  /\ UNCHANGED <<world, store, bracket, state, sets, io, keep, ui, budget>>

(* mutant of RunArchive: a failed write of the archive is ignored *)
RunArchiveUnwritten ==
  /\ Free
  /\ Head(jobs).kind = "archive"
  /\ io' = [step |-> "remove", turn |-> Head(jobs).turn]
  /\ jobs' = Tail(jobs)
  /\ UNCHANGED <<world, store, bracket, state, files, keep, ui, budget>>

RunArchive ==
  /\ Free
  /\ Head(jobs).kind = "archive"
  /\ sets' = [sets EXCEPT ![Head(jobs).turn] = Head(jobs).review]
  /\ io' = [step |-> "remove", turn |-> Head(jobs).turn]
  /\ jobs' = Tail(jobs)
  /\ UNCHANGED <<world, store, bracket, state, pending, keep, ui, budget>>

RemovePending ==
  /\ io # None
  /\ io.step = "remove"
  /\ pending' = [pending EXCEPT ![io.turn] = None]
  /\ io' = [step |-> "baseline"]
  /\ UNCHANGED <<world, store, bracket, state, sets, jobs, keep, ui, budget>>

RunGc ==
  /\ Free
  /\ Head(jobs).kind = "gc"
  /\ io' = [step |-> "baseline"]
  /\ jobs' = Tail(jobs)
  /\ UNCHANGED <<world, store, bracket, state, files, keep, ui, budget>>

GcBaseline ==
  /\ io # None
  /\ io.step = "baseline"
  /\ keep' = Stored({baseline[p] : p \in Paths})
  /\ io' = [step |-> "pending"]
  /\ UNCHANGED <<world, store, bracket, state, files, jobs, ui, budget>>

PinnedBefore(t, keys) == Stored({pre[t][p] : p \in keys})   \* mutant: one side only
Pinned(t, keys) == Stored({pre[t][p] : p \in keys} \cup {post[t][p] : p \in keys})

GcPending ==
  /\ io # None
  /\ io.step = "pending"
  /\ keep' = keep \cup UNION {Pinned(t, pending[t].keys) : t \in {u \in Turns : pending[u] # None}}
  /\ io' = [step |-> "sets"]
  /\ UNCHANGED <<world, store, bracket, state, files, jobs, ui, budget>>

Archived == {t \in Turns : sets[t] # None}
Newest == {t \in Archived : Cardinality({u \in Archived : ended[u] > ended[t]}) < Retained}

GcSets ==
  /\ io # None
  /\ io.step = "sets"
  /\ sets' = [t \in Turns |-> IF t \in Newest THEN sets[t] ELSE None]
  /\ keep' = keep \cup UNION {Pinned(t, sets[t].keys) : t \in Newest}
  /\ io' = [step |-> "sweep"]
  /\ UNCHANGED <<world, store, bracket, state, pending, jobs, ui, budget>>

(* One blob at a time: old and unpinned when looked at, then unlinked. *)
SweepLook(h) ==
  /\ io # None
  /\ io.step = "sweep"
  /\ h \in blobs \ (keep \cup fresh)
  /\ io' = [step |-> "unlink", blob |-> h]
  /\ UNCHANGED <<world, store, bracket, state, files, jobs, keep, ui, budget>>

SweepUnlink ==
  /\ io # None
  /\ io.step = "unlink"
  /\ blobs' = blobs \ {io.blob}
  /\ raced' = raced \cup ({io.blob} \cap fresh)
  /\ fresh' = fresh \ {io.blob}
  /\ io' = [step |-> "sweep"]
  /\ UNCHANGED <<world, bracket, state, files, jobs, keep, ui, budget>>

SweepDone ==
  /\ io # None
  /\ io.step = "sweep"
  /\ blobs \subseteq keep \cup fresh
  /\ keep' = {}
  /\ io' = None
  /\ UNCHANGED <<world, store, bracket, state, files, jobs, ui, budget>>

(* A blob outlives the grace hour.  Neither a bracket between a scan and the
   lock or the save after it, nor a collection, takes that long. *)
Age(h) ==
  /\ budget.ages > 0
  /\ h \in fresh
  /\ io = None
  /\ \A t \in Turns : phase[t] \notin {"walked", "scanned", "marking", "saving"}
  /\ fresh' = fresh \ {h}
  /\ budget' = [budget EXCEPT !.ages = @ - 1]
  /\ UNCHANGED <<world, blobs, raced, bracket, state, files, thread, ui>>

Crashed ==
  [t \in Turns |->
     IF phase[t] \in {"idle", "over"} THEN phase[t]
     ELSE IF phase[t] = "posted" THEN "over" ELSE "lost"]

(* What lives in memory only. *)
Forgotten ==
  /\ todo' = [t \in Turns |-> {}] /\ touched' = [t \in Turns |-> {}]
  /\ loaded' = [t \in Turns |-> None]
  /\ active' = {} /\ recent' = {}
  /\ op' = None /\ io' = None /\ keep' = {}
  /\ ledger' = [p \in Paths |-> [hash |-> None, since |-> {}]]

(* mutant of Restart: the pending reviews are not reloaded *)
RestartEmpty ==
  /\ budget.crashes > 0
  /\ budget' = [budget EXCEPT !.crashes = @ - 1]
  /\ phase' = Crashed
  /\ set' = [t \in Turns |-> IF phase[t] \in {"posted", "over"} THEN set[t] ELSE NoReview]
  /\ host' = [t \in Turns |-> None]
  /\ jobs' = <<[kind |-> "gc"]>>
  /\ Forgotten
  /\ UNCHANGED <<world, store, started, ended, pre, post, baseline, clock, met, files, wrote, reverted>>

(* The host dies, and with it the agents; the next start reloads the pending
   reviews and queues a collection. *)
Restart ==
  /\ budget.crashes > 0
  /\ budget' = [budget EXCEPT !.crashes = @ - 1]
  /\ phase' = Crashed
  /\ set' = [t \in Turns |-> IF phase[t] \in {"posted", "over"} THEN set[t] ELSE NoReview]
  /\ host' = pending
  /\ jobs' = <<[kind |-> "gc"]>>
  /\ Forgotten
  /\ UNCHANGED <<world, store, started, ended, pre, post, baseline, clock, met, files, wrote, reverted>>

Bracket(t) ==
  \/ BeginWalk(t) \/ BeginPublish(t) \/ EndScan(t) \/ EndPublish(t)
  \/ \E u \in Turns : MarkLoad(t, u)
  \/ MarkSave(t) \/ AutoRevert(t) \/ SavePending(t)

IoThread ==
  RunSave \/ RunArchive \/ RemovePending \/ RunGc \/ GcBaseline \/ GcPending \/ GcSets
  \/ (\E h \in Contents : SweepLook(h)) \/ SweepUnlink \/ SweepDone

Host ==
  \/ \E t \in Turns : Receive(t)
  \/ \E t \in Turns, p \in Paths : Accept(t, p) \/ RejectLook(t, p) \/ UndoLook(t, p)
  \/ WriteBack \/ RecordBack \/ NoteSave
  \/ \E p \in Paths, c \in Values : Save(p, c)

Next ==
  \/ \E t \in Turns : Bracket(t)
  \/ \E t \in Turns, p \in Paths, c \in Values : AgentWrite(t, p, c)
  \/ IoThread
  \/ Host
  \/ \E h \in Contents : Age(h)
  \/ Restart

Spec == Init /\ [][Next]_vars

(* The event loop drains its events and finishes the handler it is in; the I/O
   thread works its queue off.  Nobody promises that the user decides. *)
FairSpec ==
  /\ Spec
  /\ WF_vars(IoThread)
  /\ WF_vars(WriteBack \/ RecordBack \/ NoteSave)
  /\ \A t \in Turns : WF_vars(Receive(t))

------------------------------------------------------------------------------
(* Properties. *)

After(t, keys)  == Stored({post[t][p] : p \in keys})

(* The post-turn side of every file under review can be read back for the diff,
   whatever the collector did in between (gc keeps what pending reviews name,
   mod.rs:698-701) -- unless a scan touched the blob after the collector had
   looked at its age and before it unlinked it. *)
AfterSideKept ==
  \A t \in Turns : host[t] # None => After(t, host[t].keys) \subseteq blobs \cup raced

(* A change on disk that an agent made last is in its turn's change set, however
   the host's own writes of the same file interleave with it -- unless the host
   itself had left those very bytes there during the turn (ledger.rs:6-9), or a write
   slipped in between a write of the host and its note. *)
AgentWriteReviewed ==
  \A t \in Turns, p \in Paths :
    (phase[t] = "marking" /\ author[p] = t /\ pre[t][p] # post[t][p])
      => \/ p \in set[t].keys
         \/ t \in wrote[p].since /\ wrote[p].hash = post[t][p]
         \/ p \in misread

(* An agent's change to a sensitive file is undone when its turn ends or it is put
   to review: never left on disk in silence (auto_revert_sensitive), but for what
   is taken for the host's own. *)
SensitiveHandled ==
  \A t \in Turns, p \in sensitive :
    (phase[t] \in {"saving", "posted", "over"} /\ author[p] = t /\ disk[p] # pre[t][p])
      => \/ p \in set[t].keys
         \/ t \in wrote[p].since /\ wrote[p].hash = disk[p]
         \/ p \in misread

(* Of two turns whose windows overlap on a file, the one that ends later names
   the earlier one in its review (end, mod.rs:331-346), provided it was
   registered by then. *)
EarlierTurnNamed ==
  \A t, u \in Turns :
    (host[t] # None /\ <<u, t>> \in met /\ ended[u] >= started[t])
      => \A p \in host[t].keys \cap set[u].keys : u \in host[t].marks[p]

(* An archive says "kept" of no file whose reject is on disk (a decision is
   final, turn_review.rs:435-436). *)
RejectsRecorded ==
  \A t \in Turns, p \in Paths :
    (sets[t] # None /\ <<t, p>> \in reverted) => sets[t].dec[p] # "keep"

(* A finished turn that changed something is pending or archived on disk at every
   moment, so a crash between any two steps cannot skip its review (mod.rs:22-24).
   For runs where retention drops no archive. *)
ReviewOnDisk ==
  \A t \in Turns :
    (phase[t] \in {"posted", "over"} /\ set[t].keys # {}) => pending[t] # None \/ sets[t] # None

Marking == \E u \in Turns : loaded[u] # None /\ loaded'[u] = None

(* Another turn's overlap mark aside, a review's file only moves forward: a saved
   decision stays saved while the review is pending (persist, so that a crash
   keeps it), and an archived review never comes back through a save queued
   before the archive (mod.rs:591-593). *)
OnlyMarksRollBack ==
  [][Marking \/ \A t \in Turns :
       /\ (sets[t] # None /\ pending[t] = None) => pending'[t] = None
       /\ (pending[t] # None /\ pending'[t] # None)
            => \A p \in Paths : pending[t].dec[p] # "none" => pending'[t].dec[p] = pending[t].dec[p]
    ]_vars

(* Every finished turn with changes is put to the user or is in the archive in
   the end, restarts included.  For runs where retention drops no archive. *)
ReviewSettles ==
  \A t \in Turns :
    (phase[t] \in {"posted", "over"} /\ set[t].keys # {}) ~> (host[t] # None \/ sets[t] # None)
==============================================================================
