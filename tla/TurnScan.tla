------------------------------ MODULE TurnScan ------------------------------
(***************************************************************************)
(* The two scans that bracket a chat turn (gaviero-core, turn_capture).    *)
(*                                                                         *)
(* `begin` walks the tree, reusing the manifest entry of every file whose  *)
(* (size, mtime) did not move, and re-reads the others; `end` walks again  *)
(* and reports what differs from the manifest `begin` built.  Files are    *)
(* written by agents, the user and other programs at any moment, also      *)
(* while a scan is under way, and their timestamps are coarse.  The module *)
(* asks whether the stat-only shortcut can hide a change.                  *)
(*                                                                         *)
(* What becomes of a change set afterwards (the store's collection, the    *)
(* review, the revert) is module TurnCapture.                              *)
(***************************************************************************)
EXTENDS Integers, FiniteSets

CONSTANTS
  Paths,            \* absolute file paths
  Contents,         \* file contents; a content stands for its SHA-256 too
  Turns,            \* turn ids: a prompt starts a turn of its own, once
  Size,             \* length of each content
  Big,              \* contents over MAX_BLOB_BYTES: hashed, never stored
  Scope,            \* the paths under each turn's capture roots
  MaxFiles,         \* BASELINE_MAX_FILES
  RacyWindow,       \* RACY_WINDOW_NS
  Granularity,      \* how far a file system's mtime lags the clock
  Ignorable,        \* paths whose ignore status may change while we look
  PreservingMoves,  \* whether programs rename files, keeping their mtime
  MaxTime,          \* bound on the clock
  MaxWrites,        \* bound on what other programs do to the tree
  NoFile, NoEntry, NoHash

(* A timestamp may be off by the granularity of the clock it came from; the
   window exists because it is (mod.rs:58-60). *)
ASSUME WindowAssumption ==
  /\ RacyWindow \in Nat
  /\ Granularity \in Nat
  /\ Granularity <= RacyWindow
  /\ MaxTime \in Nat
  /\ MaxWrites \in Nat
  /\ MaxFiles \in Nat

ASSUME ScopeAssumption ==
  /\ Scope \in [Turns -> SUBSET Paths]
  /\ Size \in [Contents -> Nat]
  /\ Big \subseteq Contents
  /\ Ignorable \subseteq Paths
  /\ PreservingMoves \in BOOLEAN

Times == (-Granularity) .. MaxTime

File     == [c : Contents, mtime : Times]
Observed == [size : Nat, mtime : Times, c : Contents]
Entry    == [size : Nat, mtime : Times, hash : Contents \cup {NoHash},
             stored : BOOLEAN, racy : BOOLEAN]
Manifest == [Paths -> Entry \cup {NoEntry}]

ASSUME DistinctAssumption ==
  /\ NoFile \notin Contents
  /\ NoHash \notin Contents
  /\ NoEntry \notin Contents
  /\ NoEntry # NoFile
  /\ NoFile \notin File \cup Observed
  /\ NoEntry \notin Entry

VARIABLES
  clock,     \* now_ns
  file,      \* path -> content and mtime on disk
  ignored,   \* paths an ignore file hides from the walk
  writes,    \* how often the world has acted (only the bound reads it)
  store,     \* blobs present in objects/
  baseline,  \* State.baseline
  saved,     \* baseline.json
  pc,        \* where each turn is
  scan,      \* started_ns / scan_ns of the scan under way
  prev,      \* begin's copy of the baseline it compares with
  seen,      \* the walk's output: path -> what stat said
  walked,    \* paths the walk has reached
  handled,   \* paths the loop over the walk's output has handled
  man,       \* the manifest being built: begin's `next`, end's `scoped`
  pre,       \* TurnHandle.pre
  changes,   \* keys of the change set `end` computes
  held,      \* history: what each file held when begin looked at it
  left       \* history: what each file held when end looked at it

tree   == <<clock, file, ignored, writes>>
shared == <<store, baseline, saved>>
local  == <<pc, scan, prev, seen, walked, handled, man, pre, changes>>
vars   == <<tree, shared, local, held, left>>

Phases == {"idle", "begin", "beginSave", "running", "end", "endSave", "over"}

EmptyManifest == [p \in Paths |-> NoEntry]
Unseen == [p \in Paths |-> NoFile]

TypeOK ==
  /\ clock \in 0 .. MaxTime
  /\ file \in [Paths -> File \cup {NoFile}]
  /\ ignored \subseteq Paths
  /\ writes \in 0 .. MaxWrites
  /\ store \subseteq Contents
  /\ baseline \in Manifest
  /\ saved \in Manifest
  /\ pc \in [Turns -> Phases]
  /\ scan \in [Turns -> 0 .. MaxTime]
  /\ prev \in [Turns -> Manifest]
  /\ seen \in [Turns -> [Paths -> Observed \cup {NoFile}]]
  /\ walked \in [Turns -> SUBSET Paths]
  /\ handled \in [Turns -> SUBSET Paths]
  /\ man \in [Turns -> Manifest]
  /\ pre \in [Turns -> Manifest]
  /\ changes \in [Turns -> SUBSET Paths]
  /\ held \in [Turns -> [Paths -> Contents \cup {NoFile}]]
  /\ left \in [Turns -> [Paths -> Contents \cup {NoFile, NoEntry}]]

(* The first run in a workspace: files of any age, no baseline yet. *)
Init ==
  /\ clock = 0
  /\ file \in [Paths -> [c : Contents, mtime : {-Granularity}] \cup {NoFile}]
  /\ ignored = {}
  /\ writes = 0
  /\ store = {}
  /\ baseline = EmptyManifest
  /\ saved = EmptyManifest
  /\ pc = [t \in Turns |-> "idle"]
  /\ scan = [t \in Turns |-> 0]
  /\ prev = [t \in Turns |-> EmptyManifest]
  /\ seen = [t \in Turns |-> Unseen]
  /\ walked = [t \in Turns |-> {}]
  /\ handled = [t \in Turns |-> {}]
  /\ man = [t \in Turns |-> EmptyManifest]
  /\ pre = [t \in Turns |-> EmptyManifest]
  /\ changes = [t \in Turns |-> {}]
  /\ held = [t \in Turns |-> Unseen]
  /\ left = [t \in Turns |-> Unseen]

------------------------------------------------------------------------------
(* The world: time, and every program that writes files. *)

Tick ==
  /\ clock < MaxTime
  /\ clock' = clock + 1
  /\ UNCHANGED <<file, ignored, writes, shared, local, held, left>>

(* A write stamps the file with the present, as the file system knows it. *)
Stamps == {m \in Times : clock - Granularity <= m /\ m <= clock}

Act ==
  /\ writes < MaxWrites
  /\ writes' = writes + 1

Write(p, c) ==
  /\ Act
  /\ \E m \in Stamps : file' = [file EXCEPT ![p] = [c |-> c, mtime |-> m]]
  /\ UNCHANGED <<clock, ignored, shared, local, held, left>>

Remove(p) ==
  /\ Act
  /\ file[p] # NoFile
  /\ file' = [file EXCEPT ![p] = NoFile]
  /\ UNCHANGED <<clock, ignored, shared, local, held, left>>

(* A rename (mv, cp -p) brings the other file's timestamp with it. *)
Move(p, q) ==
  /\ Act
  /\ PreservingMoves
  /\ p # q
  /\ file[p] # NoFile
  /\ file' = [file EXCEPT ![q] = file[p], ![p] = NoFile]
  /\ UNCHANGED <<clock, ignored, shared, local, held, left>>

(* An edit of an ignore file hides a path from the walk, or reveals it. *)
EditIgnore(p) ==
  /\ Act
  /\ p \in Ignorable
  /\ ignored' = IF p \in ignored THEN ignored \ {p} ELSE ignored \cup {p}
  /\ UNCHANGED <<clock, file, shared, local, held, left>>

(* The garbage collector may take any blob; which ones is TurnCapture's. *)
Collect(h) ==
  /\ Act
  /\ h \in store
  /\ store' = store \ {h}
  /\ UNCHANGED <<clock, file, ignored, baseline, saved, local, held, left>>

------------------------------------------------------------------------------
(* The pieces both scans use. *)

(* Mutant: sizes not compared. *)
ReusableByTime(e, o) == e # NoEntry /\ e.mtime = o.mtime /\ ~e.racy
Reusable(e, o) ==
  /\ e # NoEntry
  /\ e.size = o.size
  /\ e.mtime = o.mtime
  /\ ~e.racy
  /\ (e.hash # NoHash /\ e.stored) => e.hash \in store

(* Bug: the window is open at its end. *)
RacyOpen(t, o) == o.mtime > scan[t] - RacyWindow

Racy(t, o) == o.mtime >= scan[t] - RacyWindow

(* Past the caps a file is tracked by its stat alone.  budget.files counts
   the entries the loop has produced; the cap on bytes acts the same way and
   is left out. *)
Capped(t) == Cardinality({p \in handled[t] : man[t][p] # NoEntry}) >= MaxFiles

(* Bug: the wrong kind of nothing. *)
StatEntryMissing(t, o) ==
  [size |-> o.size, mtime |-> o.mtime, hash |-> NoFile,
   stored |-> FALSE, racy |-> Racy(t, o)]

StatEntry(t, o) ==
  [size |-> o.size, mtime |-> o.mtime, hash |-> NoHash,
   stored |-> FALSE, racy |-> Racy(t, o)]

(* The content is whatever the file holds now, the mtime what the walk saw. *)
ReadEntry(t, o, c, kept) ==
  [size |-> IF kept THEN Size[c] ELSE o.size, mtime |-> o.mtime, hash |-> c,
   stored |-> kept, racy |-> Racy(t, o)]

Walking(t) == pc[t] \in {"begin", "end"} /\ walked[t] # Scope[t]
Looping(t) == pc[t] \in {"begin", "end"} /\ walked[t] = Scope[t]
LoopDone(t) == \A p \in Scope[t] : seen[t][p] # NoFile => p \in handled[t]

Visible(p) == file[p] # NoFile /\ p \notin ignored

Stat(t, p) ==
  /\ Walking(t)
  /\ p \in Scope[t] \ walked[t]
  /\ walked' = [walked EXCEPT ![t] = @ \cup {p}]
  /\ seen' = [seen EXCEPT ![t][p] =
                IF Visible(p)
                  THEN [size |-> Size[file[p].c], mtime |-> file[p].mtime, c |-> file[p].c]
                  ELSE NoFile]
  /\ LET now == IF file[p] = NoFile THEN NoFile ELSE file[p].c
     IN IF pc[t] = "begin"
          THEN held' = [held EXCEPT ![t][p] = now] /\ UNCHANGED left
          ELSE left' = [left EXCEPT ![t][p] = now] /\ UNCHANGED held
  /\ UNCHANGED <<tree, shared, pc, scan, prev, handled, man, pre, changes>>

StartScan(t) ==
  /\ scan' = [scan EXCEPT ![t] = clock]
  /\ walked' = [walked EXCEPT ![t] = {}]
  /\ handled' = [handled EXCEPT ![t] = {}]
  /\ seen' = [seen EXCEPT ![t] = Unseen]
  /\ man' = [man EXCEPT ![t] = EmptyManifest]

(* A scan that returns drops its locals. *)
EndOfScan(t) ==
  /\ walked' = [walked EXCEPT ![t] = {}]
  /\ handled' = [handled EXCEPT ![t] = {}]
  /\ seen' = [seen EXCEPT ![t] = Unseen]
  /\ man' = [man EXCEPT ![t] = EmptyManifest]
  /\ prev' = [prev EXCEPT ![t] = EmptyManifest]
  /\ scan' = [scan EXCEPT ![t] = 0]

Handle(t, p, e) ==
  /\ handled' = [handled EXCEPT ![t] = @ \cup {p}]
  /\ man' = [man EXCEPT ![t][p] = e]

Due(t, p) ==
  /\ Looping(t)
  /\ p \in Scope[t] \ handled[t]
  /\ seen[t][p] # NoFile

------------------------------------------------------------------------------
(* TurnCapture::begin *)

BeginStart(t) ==
  /\ pc[t] = "idle"
  /\ pc' = [pc EXCEPT ![t] = "begin"]
  /\ prev' = [prev EXCEPT ![t] = baseline]
  /\ StartScan(t)
  /\ UNCHANGED <<tree, shared, pre, changes, held, left>>

BeginReuse(t, p) ==
  /\ pc[t] = "begin"
  /\ Due(t, p)
  /\ Reusable(prev[t][p], seen[t][p])
  /\ Handle(t, p, prev[t][p])
  /\ UNCHANGED <<tree, shared, pc, scan, prev, seen, walked, pre, changes, held, left>>

BeginCapture(t, p) ==
  /\ pc[t] = "begin"
  /\ Due(t, p)
  /\ ~Reusable(prev[t][p], seen[t][p])
  /\ \/ /\ Capped(t)
        /\ Handle(t, p, StatEntry(t, seen[t][p]))
        /\ UNCHANGED <<store, held>>
     \/ /\ ~Capped(t)
        /\ file[p] # NoFile
        /\ LET c == file[p].c IN
             /\ Handle(t, p, ReadEntry(t, seen[t][p], c, c \notin Big))
             /\ store' = store \cup ({c} \ Big)
             /\ held' = [held EXCEPT ![t][p] = c]
     \/ /\ ~Capped(t)
        /\ file[p] = NoFile
        /\ Handle(t, p, NoEntry)
        /\ held' = [held EXCEPT ![t][p] = NoFile]
        /\ UNCHANGED store
  /\ UNCHANGED <<tree, baseline, saved, pc, scan, prev, seen, walked, pre, changes, left>>

(* A blob that cannot be written fails the bracket before any state changes;
   the turn then runs under the Write Gate. *)
BeginFail(t) ==
  /\ pc[t] = "begin"
  /\ Looping(t)
  /\ \E p \in Scope[t] \ handled[t] :
       /\ seen[t][p] # NoFile
       /\ ~Reusable(prev[t][p], seen[t][p])
       /\ ~Capped(t)
       /\ file[p] # NoFile
       /\ file[p].c \notin Big
  /\ pc' = [pc EXCEPT ![t] = "over"]
  /\ held' = [held EXCEPT ![t] = Unseen]
  /\ EndOfScan(t)
  /\ UNCHANGED <<tree, shared, pre, changes, left>>

BeginPublish(t) ==
  /\ pc[t] = "begin"
  /\ Looping(t)
  /\ LoopDone(t)
  /\ LET next == [p \in Paths |-> IF p \in Scope[t] THEN man[t][p] ELSE prev[t][p]] IN
       /\ baseline' = next
       /\ pre' = [pre EXCEPT ![t] = next]
  /\ pc' = [pc EXCEPT ![t] = "beginSave"]
  /\ UNCHANGED <<tree, store, saved, scan, prev, seen, walked, handled, man, changes, held, left>>

(* save_baseline runs outside the lock, after it. *)
BeginSave(t) ==
  /\ pc[t] = "beginSave"
  /\ saved' = pre[t]
  /\ pc' = [pc EXCEPT ![t] = "running"]
  /\ EndOfScan(t)
  /\ UNCHANGED <<tree, store, baseline, pre, changes, held, left>>

------------------------------------------------------------------------------
(* TurnCapture::end *)

EndStart(t) ==
  /\ pc[t] = "running"
  /\ pc' = [pc EXCEPT ![t] = "end"]
  /\ StartScan(t)
  /\ UNCHANGED <<tree, shared, prev, pre, changes, held, left>>

EndReuse(t, p) ==
  /\ pc[t] = "end"
  /\ Due(t, p)
  /\ Reusable(pre[t][p], seen[t][p])
  /\ Handle(t, p, pre[t][p])
  /\ UNCHANGED <<tree, shared, pc, scan, prev, seen, walked, pre, changes, held, left>>

(* Bug: a touched file counts as changed. *)
DiffersByStat(b, a) == b = NoEntry \/ b.hash # a.hash \/ b.mtime # a.mtime

Differs(b, a) == b = NoEntry \/ b.hash = NoHash \/ b.hash # a.hash

EndCompare(t, p, a) ==
  /\ Handle(t, p, a)
  /\ changes' = [changes EXCEPT ![t] = IF Differs(pre[t][p], a) THEN @ \cup {p} ELSE @]

(* A store that broke mid-turn still lists the change, by its hash. *)
EndCapture(t, p) ==
  /\ pc[t] = "end"
  /\ Due(t, p)
  /\ ~Reusable(pre[t][p], seen[t][p])
  /\ \/ /\ Capped(t)
        /\ EndCompare(t, p, StatEntry(t, seen[t][p]))
        /\ UNCHANGED <<store, left>>
     \/ /\ ~Capped(t)
        /\ file[p] # NoFile
        /\ \E put \in BOOLEAN :
             LET c    == file[p].c
                 kept == put /\ c \notin Big
             IN /\ EndCompare(t, p, ReadEntry(t, seen[t][p], c, kept))
                /\ store' = store \cup (IF kept THEN {c} ELSE {})
                /\ left' = [left EXCEPT ![t][p] = c]
     \/ /\ ~Capped(t)
        /\ file[p] = NoFile
        /\ Handle(t, p, NoEntry)
        /\ left' = [left EXCEPT ![t][p] = NoEntry]
        /\ UNCHANGED <<store, changes>>
  /\ UNCHANGED <<tree, baseline, saved, pc, scan, prev, seen, walked, pre, held>>

Deleted(t) == {p \in Scope[t] : pre[t][p] # NoEntry /\ seen[t][p] = NoFile}

EndPublish(t) ==
  /\ pc[t] = "end"
  /\ Looping(t)
  /\ LoopDone(t)
  /\ changes' = [changes EXCEPT ![t] = @ \cup Deleted(t)]
  /\ baseline' = [p \in Paths |-> IF p \in Scope[t] THEN man[t][p] ELSE baseline[p]]
  /\ pc' = [pc EXCEPT ![t] = "endSave"]
  /\ UNCHANGED <<tree, store, saved, scan, prev, seen, walked, handled, man, pre, held, left>>

EndSave(t) ==
  /\ pc[t] = "endSave"
  /\ saved' = baseline
  /\ pc' = [pc EXCEPT ![t] = "over"]
  /\ pre' = [pre EXCEPT ![t] = EmptyManifest]
  /\ changes' = [changes EXCEPT ![t] = {}]
  /\ held' = [held EXCEPT ![t] = Unseen]
  /\ left' = [left EXCEPT ![t] = Unseen]
  /\ EndOfScan(t)
  /\ UNCHANGED <<tree, store, baseline>>

------------------------------------------------------------------------------
(* The process dies: turns in memory are gone, the next begin reads what
   baseline.json holds. *)
Restart ==
  /\ \E t \in Turns : pc[t] \notin {"idle", "over"}
  /\ baseline' = saved
  /\ pc' = [t \in Turns |-> IF pc[t] = "idle" THEN "idle" ELSE "over"]
  /\ scan' = [t \in Turns |-> 0]
  /\ prev' = [t \in Turns |-> EmptyManifest]
  /\ seen' = [t \in Turns |-> Unseen]
  /\ walked' = [t \in Turns |-> {}]
  /\ handled' = [t \in Turns |-> {}]
  /\ man' = [t \in Turns |-> EmptyManifest]
  /\ pre' = [t \in Turns |-> EmptyManifest]
  /\ changes' = [t \in Turns |-> {}]
  /\ held' = [t \in Turns |-> Unseen]
  /\ left' = [t \in Turns |-> Unseen]
  /\ UNCHANGED <<tree, store, saved>>

World ==
  \/ Tick
  \/ \E p \in Paths : Remove(p) \/ EditIgnore(p)
  \/ \E p \in Paths, c \in Contents : Write(p, c)
  \/ \E p, q \in Paths : Move(p, q)
  \/ \E h \in Contents : Collect(h)

Begin(t) ==
  \/ BeginStart(t) \/ BeginFail(t) \/ BeginPublish(t) \/ BeginSave(t)
  \/ \E p \in Paths : BeginReuse(t, p) \/ BeginCapture(t, p)

End(t) ==
  \/ EndStart(t) \/ EndPublish(t) \/ EndSave(t)
  \/ \E p \in Paths : EndReuse(t, p) \/ EndCapture(t, p)

Next ==
  \/ World
  \/ Restart
  \/ \E t \in Turns : Begin(t) \/ End(t) \/ \E p \in Paths : Stat(t, p)

Spec == Init /\ [][Next]_vars

------------------------------------------------------------------------------
(* Properties *)

(* What a manifest entry claims of the file now on disk: if its stat still
   matches and the entry is not racy, its hash is the file's. *)
Agrees(e, f) ==
  (/\ e # NoEntry
   /\ f # NoFile
   /\ ~e.racy
   /\ e.mtime = f.mtime
   /\ e.size = Size[f.c]
   /\ e.hash # NoHash) => e.hash = f.c

(* No manifest, in memory, in a turn's hands or on disk, ever vouches by its
   stat for a content the file does not have: the shortcut of `reusable`
   (mod.rs:425) is sound through every interleaving of writers and scans. *)
Truthful ==
  \A p \in Paths :
    /\ Agrees(baseline[p], file[p])
    /\ Agrees(saved[p], file[p])
    /\ \A t \in Turns : /\ Agrees(prev[t][p], file[p])
                         /\ Agrees(man[t][p], file[p])
                         /\ Agrees(pre[t][p], file[p])

(* The paths the end scan looked at without finding one gone under its eyes. *)
Settled(t) == {p \in Scope[t] \ Ignorable : left[t][p] # NoEntry}

(* Every file whose content at the end of a turn is not its content at the
   beginning is in the turn's change set, so it reaches the review. *)
NoChangeMissed ==
  \A t \in Turns : pc[t] = "endSave" =>
    \A p \in Settled(t) : left[t][p] # held[t][p] => p \in changes[t]

Hashed(t, p) ==
  /\ pre[t][p] # NoEntry => pre[t][p].hash # NoHash
  /\ man[t][p] # NoEntry => man[t][p].hash # NoHash

(* Where both scans know the content, the change set is exact: a file that
   was only touched, or rewritten with what it held, is not up for review. *)
NoPhantomChange ==
  \A t \in Turns : pc[t] = "endSave" =>
    \A p \in Settled(t) :
      (p \in changes[t] /\ Hashed(t, p)) => left[t][p] # held[t][p]
==============================================================================
