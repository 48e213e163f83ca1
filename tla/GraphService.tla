---------------------------- MODULE GraphService ----------------------------
(***************************************************************************)
(* The live graph of one folder (gaviero-core repo_map/service.rs).  Any   *)
(* number of callers queue changed paths, rescans and flushes; one writer  *)
(* thread scans the folder at its start, then gathers messages into a      *)
(* batch, applies it in one transaction of the database and swaps the      *)
(* snapshot that readers see.                                              *)
(*                                                                         *)
(* A file is its version: the number of edits it has had, 0 where nothing  *)
(* was read.  Edits go on while a batch reads file after file.  The edges  *)
(* of the graph and paths the service does not index are left out.         *)
(***************************************************************************)
EXTENDS Integers, Sequences, FiniteSets

CONSTANTS
  Paths,      \* indexed files
  Waiters,    \* callers of flush
  Threshold,  \* FULL_SCAN_THRESHOLD
  MaxEdits,   \* bound on edits
  MaxNotes,   \* bound on notifications and rescans
  MaxFaults   \* bound on failures of the database and unreadable files

ASSUME GraphAssumption ==
  /\ IsFiniteSet(Paths) /\ Threshold \in Nat
  /\ {MaxEdits, MaxNotes, MaxFaults} \subseteq Nat

VARIABLES
  disk,     \* versions of the files
  told,     \* versions at their last notification, 0 before
  queue,    \* the channel
  alive,    \* whether a handle is left
  asked,    \* a caller: "idle", "waiting", "answered"
  need,     \* versions told when it asked
  excused,  \* callers answered while something had failed
  pc,       \* the writer
  batch,    \* what it gathers or applies
  rescan,   \* needs_full
  read,     \* versions read in the transaction, -1 where not yet
  bad,      \* files it could not read
  store,    \* committed versions
  hashless, \* files committed without a hash: they could not be read
  snap,     \* published versions
  lag,      \* whether a commit went by without its publication
  load      \* what is left of the bounds

callVars == <<told, alive, asked, need>>
dbVars == <<store, hashless, snap, lag>>
vars == <<disk, callVars, queue, excused, pc, batch, rescan, read, bad, dbVars, load>>

Changed(S) == [kind |-> "changed", paths |-> S, who |-> {}]
Flush(x) == [kind |-> "flush", paths |-> {}, who |-> {x}]
Rescan == [kind |-> "rescan", paths |-> {}, who |-> {}]

EmptyBatch == [dirty |-> {}, full |-> FALSE, waiters |-> {}]
Nothing == [p \in Paths |-> 0]
Unread == [p \in Paths |-> -1]

(* The database is what an earlier process left. *)
Init ==
  /\ disk = [p \in Paths |-> 1] /\ told = Nothing /\ queue = <<>> /\ alive = TRUE
  /\ asked = [x \in Waiters |-> "idle"] /\ need = [x \in Waiters |-> Nothing] /\ excused = {}
  /\ pc = "off" /\ batch = EmptyBatch /\ rescan = FALSE /\ read = Unread /\ bad = {}
  /\ store \in [Paths -> {0, 1}] /\ hashless = {} /\ snap = Nothing /\ lag = FALSE
  /\ load = [edits |-> MaxEdits, notes |-> MaxNotes, faults |-> MaxFaults]

Spend(what) == load[what] > 0 /\ load' = [load EXCEPT ![what] = @ - 1]

Edit(p) ==
  /\ Spend("edits") /\ disk' = [disk EXCEPT ![p] = @ + 1]
  /\ UNCHANGED <<callVars, queue, excused, pc, batch, rescan, read, bad, dbVars>>

----------------------------------------------------------------------------
(* Callers.  The first message starts the thread. *)
Queue(m) == alive /\ queue' = Append(queue, m) /\ pc' = IF pc = "off" THEN "open" ELSE pc

NotifyChanged(S) ==
  /\ Spend("notes") /\ Queue(Changed(S))
  /\ told' = [p \in Paths |-> IF p \in S THEN disk[p] ELSE told[p]]
  /\ UNCHANGED <<disk, alive, asked, need, excused, batch, rescan, read, bad, dbVars>>

RescanAll ==
  /\ Spend("notes") /\ Queue(Rescan)
  /\ UNCHANGED <<disk, callVars, excused, batch, rescan, read, bad, dbVars>>

AskFlush(x) ==
  /\ asked[x] = "idle" /\ Queue(Flush(x))
  /\ asked' = [asked EXCEPT ![x] = "waiting"] /\ need' = [need EXCEPT ![x] = told]
  /\ UNCHANGED <<disk, told, alive, excused, batch, rescan, read, bad, dbVars, load>>

(* Who waits holds a handle. *)
LastHandleDropped ==
  /\ alive /\ (\A x \in Waiters : asked[x] # "waiting") /\ alive' = FALSE
  /\ UNCHANGED <<disk, told, asked, need, queue, excused, pc, batch, rescan, read, bad, dbVars, load>>

----------------------------------------------------------------------------
(* The writer thread. *)
Answers(ws) == asked' = [x \in Waiters |-> IF x \in ws THEN "answered" ELSE asked[x]]

Open ==
  /\ pc = "open"
  /\ \/ pc' = "read" /\ batch' = [EmptyBatch EXCEPT !.full = TRUE] /\ UNCHANGED load
     \/ pc' = "dead" /\ Spend("faults") /\ UNCHANGED batch
  /\ UNCHANGED <<disk, callVars, queue, excused, rescan, read, bad, dbVars>>

(* Keep answering flushes so readers never hang, until no handle is left. *)
DeadAnswers ==
  /\ pc = "dead" /\ queue # <<>> /\ queue' = Tail(queue)
  /\ Answers(Head(queue).who) /\ excused' = excused \cup Head(queue).who
  /\ UNCHANGED <<disk, told, alive, need, pc, batch, rescan, read, bad, dbVars, load>>

GatheredNew(m) == [dirty |-> m.paths, full |-> m.kind = "rescan", waiters |-> batch.waiters \cup m.who]
Gathered(m) ==
  [dirty |-> batch.dirty \cup m.paths, full |-> batch.full \/ m.kind = "rescan",
   waiters |-> batch.waiters \cup m.who]

(* A flush closes the batch. *)
Gather ==
  /\ pc \in {"recv", "gather"} /\ queue # <<>> /\ queue' = Tail(queue)
  /\ batch' = Gathered(Head(queue))
  /\ pc' = IF Head(queue).kind = "flush" THEN "begin" ELSE "gather"
  /\ UNCHANGED <<disk, callVars, excused, rescan, read, bad, dbVars, load>>

(* Quiet, the longest wait, or no handle left. *)
Close ==
  /\ pc = "gather" /\ pc' = "begin"
  /\ UNCHANGED <<disk, callVars, queue, excused, batch, rescan, read, bad, dbVars, load>>

Gone ==
  /\ pc = "recv" /\ queue = <<>> /\ ~alive /\ pc' = "gone"
  /\ UNCHANGED <<disk, callVars, queue, excused, batch, rescan, read, bad, dbVars, load>>

Begin ==
  /\ pc = "begin"
  /\ LET full == batch.full \/ rescan
     IN /\ batch' = [batch EXCEPT !.full = full \/ Cardinality(batch.dirty) > Threshold]
        /\ pc' = IF full \/ batch.dirty # {} THEN "read" ELSE "answer"
  /\ UNCHANGED <<disk, callVars, queue, excused, rescan, read, bad, dbVars, load>>

----------------------------------------------------------------------------
(* One transaction: the files of the batch, all of them in a full scan. *)
Scanned == IF batch.full THEN Paths ELSE batch.dirty

ReadFile(p) ==
  /\ pc = "read" /\ p \in Scanned /\ read[p] = -1 /\ read' = [read EXCEPT ![p] = disk[p]]
  /\ \/ UNCHANGED <<bad, load>>
     \/ bad' = bad \cup {p} /\ Spend("faults")
  /\ UNCHANGED <<disk, callVars, queue, excused, pc, batch, rescan, dbVars>>

(* A file that was read is changed where its hash is another or was missing. *)
Differs(p) == read[p] # store[p] \/ p \in hashless
CountsIfDiffers == \E p \in Scanned \ bad : Differs(p)
Counts == batch.full \/ \E p \in Scanned \ bad : Differs(p)

(* A file that could not be read leaves the graph; that counts only where other
   files are resolved again for it. *)
Commit ==
  /\ pc = "read" /\ \A p \in Scanned : read[p] # -1
  /\ store' = [p \in Paths |-> IF p \in Scanned THEN read[p] ELSE store[p]]
  /\ hashless' = (hashless \ Scanned) \cup bad /\ rescan' = FALSE
  /\ \/ (Counts \/ bad # {}) /\ pc' = "publish" /\ UNCHANGED lag
     \/ ~Counts /\ pc' = "answer" /\ lag' = (lag \/ bad # {})
  /\ read' = Unread /\ bad' = {}
  /\ UNCHANGED <<disk, callVars, queue, excused, batch, snap, load>>

(* A failed targeted update is tried again as a full scan; a failed scan leaves
   the next batch to be one. *)
RollBack ==
  /\ pc = "read" /\ Spend("faults") /\ read' = Unread /\ bad' = {}
  /\ \/ ~batch.full /\ batch' = [batch EXCEPT !.full = TRUE] /\ UNCHANGED <<pc, rescan>>
     \/ batch.full /\ pc' = "answer" /\ rescan' = TRUE /\ UNCHANGED batch
  /\ UNCHANGED <<disk, callVars, queue, excused, dbVars>>

Publish ==
  /\ pc = "publish" /\ pc' = "answer"
  /\ \/ snap' = store /\ lag' = FALSE /\ UNCHANGED load
     \/ Spend("faults") /\ lag' = TRUE /\ UNCHANGED snap
  /\ UNCHANGED <<disk, callVars, queue, excused, batch, rescan, read, bad, store, hashless>>

Trouble == rescan \/ lag
Answer ==
  /\ pc = "answer" /\ pc' = "recv" /\ Answers(batch.waiters) /\ batch' = EmptyBatch
  /\ excused' = IF Trouble THEN excused \cup batch.waiters ELSE excused
  /\ UNCHANGED <<disk, told, alive, need, queue, rescan, read, bad, dbVars, load>>

----------------------------------------------------------------------------
Write == \/ Open \/ DeadAnswers \/ Gather \/ Close \/ Gone \/ Begin
         \/ \E p \in Paths : ReadFile(p)
         \/ Commit \/ RollBack \/ Publish \/ Answer

Next ==
  \/ \E p \in Paths : Edit(p)
  \/ \E S \in SUBSET Paths \ {{}} : NotifyChanged(S)
  \/ RescanAll \/ LastHandleDropped
  \/ \E x \in Waiters : AskFlush(x)
  \/ Write

Spec == Init /\ [][Next]_vars
(* The thread runs; nobody need call. *)
FairSpec == Spec /\ WF_vars(Write)

----------------------------------------------------------------------------
Messages == {Changed(S) : S \in SUBSET Paths} \cup {Rescan} \cup {Flush(x) : x \in Waiters}
TypeOK ==
  /\ disk \in [Paths -> Nat] /\ told \in [Paths -> Nat] /\ queue \in Seq(Messages)
  /\ alive \in BOOLEAN /\ asked \in [Waiters -> {"idle", "waiting", "answered"}]
  /\ need \in [Waiters -> [Paths -> Nat]] /\ excused \subseteq Waiters
  /\ pc \in {"off", "open", "dead", "read", "publish", "answer", "recv", "gather", "begin", "gone"}
  /\ batch \in [dirty : SUBSET Paths, full : BOOLEAN, waiters : SUBSET Waiters]
  /\ rescan \in BOOLEAN /\ read \in [Paths -> Nat \cup {-1}] /\ bad \subseteq Paths
  /\ store \in [Paths -> Nat] /\ hashless \subseteq Paths /\ snap \in [Paths -> Nat] /\ lag \in BOOLEAN
  /\ load \in [{"edits", "notes", "faults"} -> Nat]

(* When a flush returns, every change notified before it was called is committed
   and published, whatever was edited, notified or rescanned meanwhile; unless the
   database failed, or a file that could not be read left the graph unseen
   (service.rs:150, service.rs:301). *)
FlushHonoured ==
  \A x \in Waiters :
    asked[x] = "answered" /\ x \notin excused =>
      \A p \in Paths : need[x][p] <= store[p] /\ need[x][p] <= snap[p]

(* Every flush returns, even of a writer whose database cannot be opened; and every
   change notified is in the snapshot in the end, also one that was still queued
   when the last handle went, unless a failure is outstanding that only a further
   message would mend (service.rs:232, service.rs:304). *)
CaughtUp ==
  <>[](/\ \A x \in Waiters : asked[x] # "waiting"
       /\ pc = "dead" \/ Trouble \/ \A p \in Paths : told[p] <= snap[p])
============================================================================
