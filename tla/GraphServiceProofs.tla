------------------------ MODULE GraphServiceProofs ------------------------
(***************************************************************************)
(* Types of GraphService, and that a flush keeps its promise, for any      *)
(* files, callers and bounds.                                              *)
(*                                                                         *)
(* FlushHonoured is about callers already answered; what makes it hold is  *)
(* about those that are not: whatever a caller was promised is committed,  *)
(* or will be read again by what the writer has in hand, or was noticed    *)
(* ahead of it in the channel.  Versions orders the copies of a file,      *)
(* Phase says what the writer's place implies, Fresh when the snapshot is  *)
(* the database.                                                           *)
(***************************************************************************)
EXTENDS GraphService, TLAPS

(* Notified after it was on disk, promised after it was notified; what is read,
   committed and published only grows. *)
Versions ==
  \A p \in Paths :
    /\ told[p] <= disk[p] /\ store[p] <= disk[p] /\ snap[p] <= store[p]
    /\ read[p] # -1 => store[p] <= read[p] /\ read[p] <= disk[p]
    /\ \A x \in Waiters : need[x][p] <= told[p]

(* Nothing is read outside a transaction, nothing is in hand between batches, and
   after a failure the next transaction is a full scan. *)
Phase ==
  /\ pc = "recv" => batch = EmptyBatch
  /\ pc # "read" => read = Unread /\ bad = {}
  /\ pc = "read" /\ rescan => batch.full

(* What the writer has in hand will commit version v of p or a later one. *)
WillRead(p, v) ==
  \/ pc \in {"off", "open", "dead"}
  \/ pc \in {"recv", "gather", "begin"} /\ (p \in batch.dirty \/ batch.full \/ rescan)
  \/ pc = "read" /\ p \in Scanned /\ (read[p] = -1 \/ v <= read[p])
  \/ pc \in {"publish", "answer", "gone"} /\ rescan

Secured(p, v) == v <= store[p] \/ WillRead(p, v)

Covered ==
  /\ \A p \in Paths : Secured(p, told[p]) \/ \E j \in 1..Len(queue) : p \in queue[j].paths
  /\ \A x \in batch.waiters : asked[x] # "idle" /\ \A p \in Paths : Secured(p, need[x][p])
  /\ \A i \in 1..Len(queue) : \A x \in queue[i].who :
       /\ asked[x] # "idle"
       /\ \A p \in Paths : Secured(p, need[x][p]) \/ \E j \in 1..i : p \in queue[j].paths

(* The snapshot is the database, or something says that it is not. *)
Current ==
  \/ pc \in {"off", "open", "dead", "publish"} \/ rescan \/ lag
  \/ pc = "read" /\ batch.full
  \/ snap = store

(* Who was answered cannot ask again. *)
Answered ==
  \A x \in Waiters :
    asked[x] = "answered" /\ x \notin excused =>
      \A p \in Paths : need[x][p] <= store[p] /\ need[x][p] <= snap[p]

IInv == TypeOK /\ Versions /\ Phase /\ Covered /\ Current /\ Answered

---------------------------------------------------------------------------
(* What a message carries. *)
LEMMA MessageFields ==
  ASSUME NEW m \in Messages
  PROVE  /\ m.paths \subseteq Paths /\ m.who \subseteq Waiters
         /\ m.kind \in {"changed", "rescan", "flush"}
BY DEF Messages, Changed, Flush, Rescan

(* What the callers put into the channel. *)
LEMMA Messaged ==
  /\ \A S \in SUBSET Paths : Changed(S) \in Messages
  /\ \A x \in Waiters : Flush(x) \in Messages
  /\ Rescan \in Messages
BY DEF Messages

Batches == [dirty : SUBSET Paths, full : BOOLEAN, waiters : SUBSET Waiters]

(* A batch made a full scan. *)
LEMMA MadeFull ==
  ASSUME NEW b \in Batches, NEW f \in BOOLEAN
  PROVE  [b EXCEPT !.full = f] = [dirty |-> b.dirty, full |-> f, waiters |-> b.waiters]
BY DEF Batches

(* What the first scan starts from. *)
LEMMA FirstBatch ==
  [EmptyBatch EXCEPT !.full = TRUE] = [dirty |-> {}, full |-> TRUE, waiters |-> {}]
<1>1. EmptyBatch \in Batches
  BY DEF EmptyBatch, Batches
<1>2. EmptyBatch.dirty = {} /\ EmptyBatch.waiters = {}
  BY DEF EmptyBatch
<1> QED BY <1>1, <1>2, MadeFull

Loads == [{"edits", "notes", "faults"} -> Nat]

(* A bound is used up one by one. *)
LEMMA Spending ==
  ASSUME load \in Loads, NEW what \in {"edits", "notes", "faults"}, Spend(what)
  PROVE  load' \in Loads
BY DEF Loads, Spend

(* Types are kept. *)
LEMMA TypeStep ==
  ASSUME TypeOK, [Next]_vars
  PROVE  TypeOK'
<1>1. ASSUME NEW p \in Paths, Edit(p)
     PROVE  TypeOK'
  <2>1. load' \in Loads
    BY <1>1, Spending DEF Edit, Loads, TypeOK
  <2>2. disk' \in [Paths -> Nat]
    BY <1>1 DEF Edit, TypeOK
  <2> QED BY <1>1, <2>1, <2>2 DEF Edit, Loads, TypeOK, callVars, dbVars
<1>2. ASSUME NEW S \in SUBSET Paths, NotifyChanged(S)
     PROVE  TypeOK'
  <2>1. queue' \in Seq(Messages)
    BY <1>2, Messaged DEF NotifyChanged, Queue, TypeOK
  <2> QED BY <1>2, <2>1, Spending DEF NotifyChanged, Queue, Loads, TypeOK, callVars, dbVars
<1>3. ASSUME RescanAll
     PROVE  TypeOK'
  <2>1. queue' \in Seq(Messages)
    BY <1>3, Messaged DEF RescanAll, Queue, TypeOK
  <2> QED BY <1>3, <2>1, Spending DEF RescanAll, Queue, Loads, TypeOK, callVars, dbVars
<1>4. ASSUME LastHandleDropped
     PROVE  TypeOK'
  BY <1>4 DEF LastHandleDropped, TypeOK, callVars, dbVars
<1>5. ASSUME NEW x \in Waiters, AskFlush(x)
     PROVE  TypeOK'
  <2>1. queue' \in Seq(Messages)
    BY <1>5, Messaged DEF AskFlush, Queue, TypeOK
  <2> QED BY <1>5, <2>1 DEF AskFlush, Queue, TypeOK, callVars, dbVars
<1>6. ASSUME Open
     PROVE  TypeOK'
  BY <1>6, FirstBatch, Spending DEF Open, Loads, TypeOK, callVars, dbVars
<1>7. ASSUME DeadAnswers
     PROVE  TypeOK'
  BY <1>7, MessageFields DEF DeadAnswers, Answers, TypeOK, vars, callVars, dbVars
<1>8. ASSUME Gather
     PROVE  TypeOK'
  <2>1. queue' \in Seq(Messages) /\ Head(queue) \in Messages
    BY <1>8 DEF Gather, TypeOK
  <2>2. batch' \in Batches
    BY <1>8, <2>1, MessageFields DEF Gather, Gathered, Batches, TypeOK
  <2> QED BY <1>8, <2>1, <2>2 DEF Gather, Batches, TypeOK, callVars, dbVars
<1>9. ASSUME Close
     PROVE  TypeOK'
  BY <1>9 DEF Close, TypeOK, vars, callVars, dbVars
<1>10. ASSUME Gone
     PROVE  TypeOK'
  BY <1>10 DEF Gone, TypeOK, vars, callVars, dbVars
<1>11. ASSUME Begin
     PROVE  TypeOK'
  <2>1. batch' \in Batches
    BY <1>11, MadeFull DEF Begin, Batches, TypeOK
  <2> QED BY <1>11, <2>1 DEF Begin, Batches, TypeOK, callVars, dbVars
<1>12. ASSUME NEW p \in Paths, ReadFile(p)
     PROVE  TypeOK'
  BY <1>12, Spending DEF ReadFile, Loads, Scanned, TypeOK, vars, callVars, dbVars
<1>13. ASSUME Commit
     PROVE  TypeOK'
  BY <1>13 DEF Commit, Scanned, Unread, Counts, Differs, TypeOK, vars, callVars, dbVars
<1>14. ASSUME RollBack
     PROVE  TypeOK'
  <2>1. batch' \in Batches
    BY <1>14, MadeFull DEF RollBack, Batches, TypeOK
  <2> QED BY <1>14, <2>1, Spending DEF RollBack, Loads, Unread, Batches, TypeOK, callVars, dbVars
<1>15. ASSUME Publish
     PROVE  TypeOK'
  BY <1>15, Spending DEF Publish, Loads, TypeOK, vars, callVars, dbVars
<1>16. ASSUME Answer
     PROVE  TypeOK'
  BY <1>16 DEF Answer, Answers, EmptyBatch, Trouble, TypeOK, vars, callVars, dbVars
<1>17. CASE UNCHANGED vars
  BY <1>17 DEF vars, TypeOK, vars, callVars, dbVars
<1> QED BY <1>1, <1>2, <1>3, <1>4, <1>5, <1>6, <1>7, <1>8, <1>9, <1>10, <1>11, <1>12, <1>13, <1>14, <1>15, <1>16, <1>17 DEF Next, Write

(* Versions are numbers. *)
LEMMA VersionTypes ==
  ASSUME TypeOK, NEW p \in Paths
  PROVE  /\ disk[p] \in Nat /\ told[p] \in Nat /\ store[p] \in Nat /\ snap[p] \in Nat
         /\ read[p] \in Nat \cup {-1}
         /\ \A x \in Waiters : need[x][p] \in Nat
BY DEF TypeOK

(* Versions only grow, in their order. *)
LEMMA VersionsStep ==
  ASSUME TypeOK, TypeOK', Versions, Phase, [Next]_vars
  PROVE  Versions'
<1>1. ASSUME NEW p \in Paths, Edit(p)
     PROVE  Versions'
  <2>1. \A q \in Paths : disk[q] \in Nat /\ disk'[q] \in Nat /\ disk[q] <= disk'[q]
    <3> TAKE q \in Paths
    <3>1. disk' = [disk EXCEPT ![p] = @ + 1] /\ disk \in [Paths -> Nat]
      BY <1>1 DEF Edit, TypeOK
    <3>2. CASE q = p
      BY <3>1, <3>2
    <3>3. CASE q # p
      BY <3>1, <3>3
    <3> QED BY <3>2, <3>3
  <2>2. UNCHANGED <<told, store, snap, read, need>>
    BY <1>1 DEF Edit, callVars, dbVars
  <2> QED BY <2>1, <2>2, VersionTypes DEF Versions
<1>2. ASSUME NEW S \in SUBSET Paths, NotifyChanged(S)
     PROVE  Versions'
  BY <1>2 DEF NotifyChanged, Queue, Versions, Phase, TypeOK, callVars, dbVars
<1>3. ASSUME RescanAll
     PROVE  Versions'
  BY <1>3 DEF RescanAll, Queue, Versions, Phase, TypeOK, callVars, dbVars
<1>4. ASSUME LastHandleDropped
     PROVE  Versions'
  BY <1>4 DEF LastHandleDropped, Versions, Phase, TypeOK, callVars, dbVars
<1>5. ASSUME NEW x \in Waiters, AskFlush(x)
     PROVE  Versions'
  BY <1>5 DEF AskFlush, Queue, Versions, Phase, TypeOK, callVars, dbVars
<1>6. ASSUME Open
     PROVE  Versions'
  BY <1>6 DEF Open, Versions, Phase, TypeOK, callVars, dbVars
<1>7. ASSUME DeadAnswers
     PROVE  Versions'
  BY <1>7 DEF DeadAnswers, Answers, Versions, Phase, TypeOK, callVars, dbVars
<1>8. ASSUME Gather
     PROVE  Versions'
  BY <1>8 DEF Gather, Versions, Phase, TypeOK, callVars, dbVars
<1>9. ASSUME Close
     PROVE  Versions'
  BY <1>9 DEF Close, Versions, Phase, TypeOK, callVars, dbVars
<1>10. ASSUME Gone
     PROVE  Versions'
  BY <1>10 DEF Gone, Versions, Phase, TypeOK, callVars, dbVars
<1>11. ASSUME Begin
     PROVE  Versions'
  BY <1>11 DEF Begin, Versions, Phase, TypeOK, callVars, dbVars
<1>12. ASSUME NEW p \in Paths, ReadFile(p)
     PROVE  Versions'
  <2>1. \A q \in Paths : read'[q] = read[q] \/ read'[q] = disk[q]
    BY <1>12 DEF ReadFile, TypeOK
  <2>2. UNCHANGED <<disk, told, store, snap, need>>
    BY <1>12 DEF ReadFile, callVars, dbVars
  <2> QED BY <2>1, <2>2, VersionTypes DEF Versions
<1>13. ASSUME Commit
     PROVE  Versions'
  BY <1>13 DEF Commit, Versions, Phase, TypeOK, Unread, callVars, dbVars
<1>14. ASSUME RollBack
     PROVE  Versions'
  BY <1>14 DEF RollBack, Versions, Phase, TypeOK, Unread, callVars, dbVars
<1>15. ASSUME Publish
     PROVE  Versions'
  <2>1. snap' = store \/ snap' = snap
    BY <1>15 DEF Publish
  <2>2. UNCHANGED <<disk, told, store, read, need>>
    BY <1>15 DEF Publish, callVars
  <2> QED BY <2>1, <2>2, VersionTypes DEF Versions
<1>16. ASSUME Answer
     PROVE  Versions'
  BY <1>16 DEF Answer, Answers, Versions, Phase, TypeOK, callVars, dbVars
<1>17. CASE UNCHANGED vars
  BY <1>17 DEF vars, Versions, Phase, TypeOK, callVars, dbVars
<1> QED BY <1>1, <1>2, <1>3, <1>4, <1>5, <1>6, <1>7, <1>8, <1>9,
       <1>10, <1>11, <1>12, <1>13, <1>14, <1>15, <1>16, <1>17 DEF Next, Write

(* The phases of the writer. *)
LEMMA PhaseStep ==
  ASSUME TypeOK, TypeOK', Phase, [Next]_vars
  PROVE  Phase'
<1>1. ASSUME NEW p \in Paths, Edit(p)
     PROVE  Phase'
  BY <1>1 DEF Edit, Phase, TypeOK, callVars, dbVars
<1>2. ASSUME NEW S \in SUBSET Paths, NotifyChanged(S)
     PROVE  Phase'
  BY <1>2 DEF NotifyChanged, Queue, Phase, TypeOK, callVars, dbVars
<1>3. ASSUME RescanAll
     PROVE  Phase'
  BY <1>3 DEF RescanAll, Queue, Phase, TypeOK, callVars, dbVars
<1>4. ASSUME LastHandleDropped
     PROVE  Phase'
  BY <1>4 DEF LastHandleDropped, Phase, TypeOK, callVars, dbVars
<1>5. ASSUME NEW x \in Waiters, AskFlush(x)
     PROVE  Phase'
  BY <1>5 DEF AskFlush, Queue, Phase, TypeOK, callVars, dbVars
<1>6. ASSUME Open
     PROVE  Phase'
  BY <1>6, FirstBatch DEF Open, Phase, TypeOK, callVars, dbVars
<1>7. ASSUME DeadAnswers
     PROVE  Phase'
  BY <1>7 DEF DeadAnswers, Answers, Phase, TypeOK, callVars, dbVars
<1>8. ASSUME Gather
     PROVE  Phase'
  BY <1>8 DEF Gather, Phase, TypeOK, callVars, dbVars
<1>9. ASSUME Close
     PROVE  Phase'
  BY <1>9 DEF Close, Phase, TypeOK, callVars, dbVars
<1>10. ASSUME Gone
     PROVE  Phase'
  BY <1>10 DEF Gone, Phase, TypeOK, callVars, dbVars
<1>11. ASSUME Begin
     PROVE  Phase'
  BY <1>11, MadeFull DEF Begin, Phase, TypeOK, callVars, dbVars
<1>12. ASSUME NEW p \in Paths, ReadFile(p)
     PROVE  Phase'
  BY <1>12 DEF ReadFile, Phase, TypeOK, callVars, dbVars
<1>13. ASSUME Commit
     PROVE  Phase'
  BY <1>13 DEF Commit, Phase, TypeOK, callVars, dbVars
<1>14. ASSUME RollBack
     PROVE  Phase'
  BY <1>14, MadeFull DEF RollBack, Phase, TypeOK, Batches, callVars, dbVars
<1>15. ASSUME Publish
     PROVE  Phase'
  BY <1>15 DEF Publish, Phase, TypeOK, callVars, dbVars
<1>16. ASSUME Answer
     PROVE  Phase'
  BY <1>16 DEF Answer, Answers, Phase, TypeOK, callVars, dbVars
<1>17. CASE UNCHANGED vars
  BY <1>17 DEF vars, Phase, TypeOK, callVars, dbVars
<1> QED BY <1>1, <1>2, <1>3, <1>4, <1>5, <1>6, <1>7, <1>8, <1>9,
       <1>10, <1>11, <1>12, <1>13, <1>14, <1>15, <1>16, <1>17 DEF Next, Write

(* The snapshot falls behind the database only where that is known. *)
LEMMA CurrentStep ==
  ASSUME TypeOK, TypeOK', Phase, Current, [Next]_vars
  PROVE  Current'
<1>1. ASSUME NEW p \in Paths, Edit(p)
     PROVE  Current'
  BY <1>1 DEF Edit, Current, Phase, TypeOK, callVars, dbVars
<1>2. ASSUME NEW S \in SUBSET Paths, NotifyChanged(S)
     PROVE  Current'
  BY <1>2 DEF NotifyChanged, Queue, Current, Phase, TypeOK, callVars, dbVars
<1>3. ASSUME RescanAll
     PROVE  Current'
  BY <1>3 DEF RescanAll, Queue, Current, Phase, TypeOK, callVars, dbVars
<1>4. ASSUME LastHandleDropped
     PROVE  Current'
  BY <1>4 DEF LastHandleDropped, Current, Phase, TypeOK, callVars, dbVars
<1>5. ASSUME NEW x \in Waiters, AskFlush(x)
     PROVE  Current'
  BY <1>5 DEF AskFlush, Queue, Current, Phase, TypeOK, callVars, dbVars
<1>6. ASSUME Open
     PROVE  Current'
  BY <1>6, FirstBatch DEF Open, Current, Phase, TypeOK, callVars, dbVars
<1>7. ASSUME DeadAnswers
     PROVE  Current'
  BY <1>7 DEF DeadAnswers, Answers, Current, Phase, TypeOK, callVars, dbVars
<1>8. ASSUME Gather
     PROVE  Current'
  BY <1>8 DEF Gather, Current, Phase, TypeOK, callVars, dbVars
<1>9. ASSUME Close
     PROVE  Current'
  BY <1>9 DEF Close, Current, Phase, TypeOK, callVars, dbVars
<1>10. ASSUME Gone
     PROVE  Current'
  BY <1>10 DEF Gone, Current, Phase, TypeOK, callVars, dbVars
<1>11. ASSUME Begin
     PROVE  Current'
  BY <1>11, MadeFull DEF Begin, Current, Phase, TypeOK, Batches, callVars, dbVars
<1>12. ASSUME NEW p \in Paths, ReadFile(p)
     PROVE  Current'
  BY <1>12 DEF ReadFile, Current, Phase, TypeOK, callVars, dbVars
<1>13. ASSUME Commit
     PROVE  Current'
  BY <1>13 DEF Commit, Current, Phase, TypeOK, Counts, Differs, Scanned, callVars, dbVars
<1>14. ASSUME RollBack
     PROVE  Current'
  BY <1>14, MadeFull DEF RollBack, Current, Phase, TypeOK, Batches, callVars, dbVars
<1>15. ASSUME Publish
     PROVE  Current'
  BY <1>15 DEF Publish, Current, Phase, TypeOK, callVars, dbVars
<1>16. ASSUME Answer
     PROVE  Current'
  BY <1>16 DEF Answer, Answers, Current, Phase, TypeOK, callVars, dbVars
<1>17. CASE UNCHANGED vars
  BY <1>17 DEF vars, Current, Phase, TypeOK, callVars, dbVars
<1> QED BY <1>1, <1>2, <1>3, <1>4, <1>5, <1>6, <1>7, <1>8, <1>9,
       <1>10, <1>11, <1>12, <1>13, <1>14, <1>15, <1>16, <1>17 DEF Next, Write

(* What was promised to a caller is there when it is answered, and stays. *)
LEMMA AnsweredStep ==
  ASSUME TypeOK, Versions, Versions', Covered, Current, Phase, Answered, [Next]_vars
  PROVE  Answered'
<1>1. ASSUME NEW p \in Paths, Edit(p)
     PROVE  Answered'
  BY <1>1 DEF Edit, Answered, Versions, TypeOK, callVars, dbVars
<1>2. ASSUME NEW S \in SUBSET Paths, NotifyChanged(S)
     PROVE  Answered'
  BY <1>2 DEF NotifyChanged, Queue, Answered, Versions, TypeOK, callVars, dbVars
<1>3. ASSUME RescanAll
     PROVE  Answered'
  BY <1>3 DEF RescanAll, Queue, Answered, Versions, TypeOK, callVars, dbVars
<1>4. ASSUME LastHandleDropped
     PROVE  Answered'
  BY <1>4 DEF LastHandleDropped, Answered, Versions, TypeOK, callVars, dbVars
<1>5. ASSUME NEW x \in Waiters, AskFlush(x)
     PROVE  Answered'
  BY <1>5 DEF AskFlush, Queue, Answered, Versions, TypeOK, callVars, dbVars
<1>6. ASSUME Open
     PROVE  Answered'
  BY <1>6 DEF Open, Answered, Versions, TypeOK, callVars, dbVars
<1>7. ASSUME DeadAnswers
     PROVE  Answered'
  BY <1>7, MessageFields DEF DeadAnswers, Answers, Answered, Versions, TypeOK, callVars, dbVars
<1>8. ASSUME Gather
     PROVE  Answered'
  BY <1>8 DEF Gather, Answered, Versions, TypeOK, callVars, dbVars
<1>9. ASSUME Close
     PROVE  Answered'
  BY <1>9 DEF Close, Answered, Versions, TypeOK, callVars, dbVars
<1>10. ASSUME Gone
     PROVE  Answered'
  BY <1>10 DEF Gone, Answered, Versions, TypeOK, callVars, dbVars
<1>11. ASSUME Begin
     PROVE  Answered'
  BY <1>11 DEF Begin, Answered, Versions, TypeOK, callVars, dbVars
<1>12. ASSUME NEW p \in Paths, ReadFile(p)
     PROVE  Answered'
  BY <1>12 DEF ReadFile, Answered, Versions, TypeOK, callVars, dbVars
<1>13. ASSUME Commit
     PROVE  Answered'
  BY <1>13 DEF Commit, Answered, Versions, TypeOK, Phase, callVars, dbVars
<1>14. ASSUME RollBack
     PROVE  Answered'
  BY <1>14 DEF RollBack, Answered, Versions, TypeOK, callVars, dbVars
<1>15. ASSUME Publish
     PROVE  Answered'
  BY <1>15 DEF Publish, Answered, Versions, TypeOK, callVars, dbVars
<1>16. ASSUME Answer
     PROVE  Answered'
  BY <1>16 DEF Answer, Answers, Answered, Versions, TypeOK, Covered, Current, Secured, WillRead, Trouble, callVars, dbVars
<1>17. CASE UNCHANGED vars
  BY <1>17 DEF vars, Answered, Versions, TypeOK, callVars, dbVars
<1> QED BY <1>1, <1>2, <1>3, <1>4, <1>5, <1>6, <1>7, <1>8, <1>9,
       <1>10, <1>11, <1>12, <1>13, <1>14, <1>15, <1>16, <1>17 DEF Next, Write

(* What is secured stays so while it waits in the channel or in the batch, but for
   the batch that Answer lets go. *)
LEMMA SecuredStep ==
  ASSUME TypeOK, TypeOK', Versions, Versions', Phase, Phase', [Next]_vars,
         NEW q \in Paths, NEW v \in Nat, v <= told[q], Secured(q, v)
  PROVE  Secured(q, v)'
<1>1. ASSUME NEW p \in Paths, Edit(p)
     PROVE  Secured(q, v)'
  BY <1>1 DEF Edit, Secured, WillRead, Scanned, TypeOK, Versions, Phase, callVars, dbVars
<1>2. ASSUME NEW S \in SUBSET Paths, NotifyChanged(S)
     PROVE  Secured(q, v)'
  BY <1>2 DEF NotifyChanged, Queue, Secured, WillRead, Scanned, TypeOK, Versions, Phase, callVars, dbVars
<1>3. ASSUME RescanAll
     PROVE  Secured(q, v)'
  BY <1>3 DEF RescanAll, Queue, Secured, WillRead, Scanned, TypeOK, Versions, Phase, callVars, dbVars
<1>4. ASSUME LastHandleDropped
     PROVE  Secured(q, v)'
  BY <1>4 DEF LastHandleDropped, Secured, WillRead, Scanned, TypeOK, Versions, Phase, callVars, dbVars
<1>5. ASSUME NEW x \in Waiters, AskFlush(x)
     PROVE  Secured(q, v)'
  BY <1>5 DEF AskFlush, Queue, Secured, WillRead, Scanned, TypeOK, Versions, Phase, callVars, dbVars
<1>6. ASSUME Open
     PROVE  Secured(q, v)'
  <2>1. CASE pc' = "dead"
    BY <2>1 DEF Secured, WillRead
  <2>2. CASE pc' = "read"
    <3>1. batch'.full = TRUE /\ read'[q] = -1
      BY <1>6, <2>2, FirstBatch DEF Open, Phase, Unread
    <3> QED BY <2>2, <3>1 DEF Secured, WillRead, Scanned
  <2> QED BY <1>6, <2>1, <2>2 DEF Open
<1>7. ASSUME DeadAnswers
     PROVE  Secured(q, v)'
  BY <1>7 DEF DeadAnswers, Answers, Secured, WillRead, Scanned, TypeOK, Versions, Phase, callVars, dbVars
<1>8. ASSUME Gather
     PROVE  Secured(q, v)'
  BY <1>8, MessageFields DEF Gather, Secured, WillRead, Scanned, TypeOK, Versions, Phase, Gathered, callVars, dbVars
<1>9. ASSUME Close
     PROVE  Secured(q, v)'
  BY <1>9 DEF Close, Secured, WillRead, Scanned, TypeOK, Versions, Phase, callVars, dbVars
<1>10. ASSUME Gone
     PROVE  Secured(q, v)'
  BY <1>10 DEF Gone, Secured, WillRead, Phase, EmptyBatch, callVars, dbVars
<1>11. ASSUME Begin
     PROVE  Secured(q, v)'
  <2>1. batch \in Batches /\ rescan \in BOOLEAN
    BY DEF TypeOK, Batches
  <2>2. batch'.dirty = batch.dirty /\ (batch.full \/ rescan => batch'.full)
    BY <1>11, <2>1, MadeFull DEF Begin
  <2>3. UNCHANGED <<read, store, rescan>> /\ read = Unread /\ pc = "begin"
    BY <1>11 DEF Begin, Phase, dbVars
  <2>4. CASE v <= store[q]
    BY <2>3, <2>4 DEF Secured
  <2>5. CASE q \in batch.dirty \/ batch.full \/ rescan
    <3>1. pc' = "read"
      BY <1>11, <2>5 DEF Begin
    <3> QED BY <3>1, <2>2, <2>3, <2>5 DEF Secured, WillRead, Scanned, Unread
  <2> QED BY <2>3, <2>4, <2>5 DEF Secured, WillRead
<1>12. ASSUME NEW p \in Paths, ReadFile(p)
     PROVE  Secured(q, v)'
  BY <1>12 DEF ReadFile, Secured, WillRead, Scanned, TypeOK, Versions, Phase, callVars, dbVars
<1>13. ASSUME Commit
     PROVE  Secured(q, v)'
  BY <1>13 DEF Commit, Secured, WillRead, Scanned, TypeOK, Versions, Phase, Unread, callVars, dbVars
<1>14. ASSUME RollBack
     PROVE  Secured(q, v)'
  BY <1>14, MadeFull DEF RollBack, Secured, WillRead, Scanned, TypeOK, Versions, Phase, Batches, Unread, callVars, dbVars
<1>15. ASSUME Publish
     PROVE  Secured(q, v)'
  BY <1>15 DEF Publish, Secured, WillRead, Scanned, TypeOK, Versions, Phase, callVars, dbVars
<1>16. ASSUME Answer
     PROVE  Secured(q, v)'
  BY <1>16 DEF Answer, Answers, Secured, WillRead, Scanned, TypeOK, Versions, Phase, EmptyBatch, callVars, dbVars
<1>17. CASE UNCHANGED vars
  BY <1>17 DEF vars, Secured, WillRead, Scanned, TypeOK, Versions, Phase, callVars, dbVars
<1> QED BY <1>1, <1>2, <1>3, <1>4, <1>5, <1>6, <1>7, <1>8, <1>9,
       <1>10, <1>11, <1>12, <1>13, <1>14, <1>15, <1>16, <1>17 DEF Next, Write

(* What was promised to a caller, and what was noticed, stays secured. *)
Settled == TypeOK /\ TypeOK' /\ Versions /\ Versions' /\ Phase /\ Phase' /\ [Next]_vars

LEMMA SecuredNeed ==
  ASSUME Settled, NEW x \in Waiters, NEW q \in Paths, need'[x] = need[x], Secured(q, need[x][q])
  PROVE  Secured(q, need[x][q])'
<1>1. ASSUME NEW v \in Nat, v = need[x][q]
      PROVE  Secured(q, v)'
  BY <1>1, SecuredStep DEF Settled, Versions
<1>2. need[x][q] \in Nat
  BY VersionTypes DEF Settled
<1> QED BY <1>1, <1>2 DEF Secured, WillRead

LEMMA SecuredTold ==
  ASSUME Settled, NEW q \in Paths, told'[q] = told[q], Secured(q, told[q])
  PROVE  Secured(q, told[q])'
<1>1. ASSUME NEW v \in Nat, v = told[q]
      PROVE  Secured(q, v)'
  BY <1>1, SecuredStep DEF Settled
<1>2. told[q] \in Nat
  BY VersionTypes DEF Settled
<1> QED BY <1>1, <1>2 DEF Secured, WillRead

(* Covered, its parts. *)
ToldCovered == \A p \in Paths : Secured(p, told[p]) \/ \E j \in 1..Len(queue) : p \in queue[j].paths
BatchCovered ==
  \A x \in batch.waiters : asked[x] # "idle" /\ \A p \in Paths : Secured(p, need[x][p])
Promised(x, i) ==
  /\ asked[x] # "idle"
  /\ \A p \in Paths : Secured(p, need[x][p]) \/ \E j \in 1..i : p \in queue[j].paths
QueueCovered == \A i \in 1..Len(queue) : \A x \in queue[i].who : Promised(x, i)

LEMMA CoveredParts ==
  /\ Covered <=> ToldCovered /\ BatchCovered /\ QueueCovered
  /\ Covered' <=> ToldCovered' /\ BatchCovered' /\ QueueCovered'
BY DEF Covered, ToldCovered, BatchCovered, QueueCovered, Promised

(* Who is in the batch or in the channel is a caller. *)
LEMMA Callers ==
  ASSUME TypeOK
  PROVE  /\ batch.waiters \subseteq Waiters
         /\ \A i \in 1..Len(queue) : queue[i].who \subseteq Waiters
<1>1. queue \in Seq(Messages) /\ batch.waiters \subseteq Waiters
  BY DEF TypeOK
<1> QED BY <1>1, MessageFields

(* Steps that leave the channel alone, and may answer the batch. *)
LEMMA CoveredKept ==
  ASSUME Settled, Covered, UNCHANGED <<queue, told, need>>, batch'.waiters \subseteq batch.waiters,
         \A x \in Waiters : asked[x] # "idle" => asked'[x] # "idle"
  PROVE  Covered'
<1> USE CoveredParts
<1>1. ToldCovered'
  BY SecuredTold DEF ToldCovered
<1>2. BatchCovered'
  BY SecuredNeed, Callers DEF BatchCovered, Settled
<1>3. ASSUME NEW i \in 1..Len(queue), NEW x \in queue[i].who
      PROVE  Promised(x, i)'
  <2>1. x \in Waiters /\ Promised(x, i)
    BY <1>3, Callers DEF Settled, QueueCovered
  <2> QED BY <2>1, SecuredNeed DEF Promised
<1>4. QueueCovered'
  BY <1>3 DEF QueueCovered
<1> QED BY <1>1, <1>2, <1>4

(* Steps that put a message into the channel. *)
LEMMA CoveredQueued ==
  ASSUME Settled, Covered, NEW m \in Messages, queue' = Append(queue, m), batch' = batch,
         \A q \in Paths : told'[q] = told[q] \/ q \in m.paths,
         \A x \in Waiters : asked[x] # "idle" => need'[x] = need[x] /\ asked'[x] # "idle",
         \A x \in m.who : asked'[x] # "idle" /\ need'[x] = told'
  PROVE  Covered'
<1> USE CoveredParts
<1>1. /\ Len(queue) \in Nat /\ Len(queue') = Len(queue) + 1
      /\ \A j \in 1..Len(queue) : queue'[j] = queue[j]
      /\ queue'[Len(queue) + 1] = m
  BY DEF Settled, TypeOK
<1>2. ToldCovered'
  <2> SUFFICES ASSUME NEW q \in Paths
               PROVE  Secured(q, told[q])' \/ \E j \in 1..Len(queue') : q \in queue'[j].paths
    BY DEF ToldCovered
  <2>1. CASE q \in m.paths
    BY <2>1, <1>1
  <2>2. CASE told'[q] = told[q]
    BY <2>2, <1>1, SecuredTold DEF ToldCovered
  <2> QED BY <2>1, <2>2
<1>3. BatchCovered'
  BY SecuredNeed, Callers DEF BatchCovered, Settled
<1>4. ASSUME NEW i \in 1..Len(queue), NEW x \in queue[i].who
      PROVE  Promised(x, i)'
  <2>1. x \in Waiters /\ Promised(x, i)
    BY <1>4, Callers DEF Settled, QueueCovered
  <2>2. \A j \in 1..i : queue'[j] = queue[j]
    BY <1>1, <1>4
  <2> QED BY <2>1, <2>2, SecuredNeed DEF Promised
<1>5. ASSUME NEW x \in m.who
      PROVE  Promised(x, Len(queue))'
  <2>1. \A q \in Paths : Secured(q, told[q])' \/ \E j \in 1..Len(queue') : q \in queue'[j].paths
    BY <1>2 DEF ToldCovered
  <2>2. need'[x] = told' /\ asked'[x] # "idle"
    BY <1>5
  <2>3. \A q \in Paths : Secured(q, told[q])' => Secured(q, need[x][q])'
    BY <2>2 DEF Secured, WillRead
  <2> QED BY <1>1, <2>1, <2>2, <2>3 DEF Promised
<1>6. QueueCovered'
  <2> SUFFICES ASSUME NEW i \in 1..Len(queue'), NEW x \in queue'[i].who
               PROVE  Promised(x, i)'
    BY DEF QueueCovered
  <2>1. CASE i \in 1..Len(queue)
    BY <2>1, <1>1, <1>4
  <2>2. CASE i = Len(queue) + 1
    <3>1. x \in m.who /\ i = Len(queue')
      BY <2>2, <1>1
    <3>2. Promised(x, Len(queue))'
      BY <3>1, <1>5
    <3> QED BY <3>1, <3>2 DEF Promised
  <2> QED BY <1>1, <2>1, <2>2
<1> QED BY <1>2, <1>3, <1>6

(* The message at the head goes into the batch. *)
LEMMA CoveredGathered ==
  ASSUME Settled, Covered, Gather
  PROVE  Covered'
<1> USE CoveredParts
<1>1. /\ queue # <<>> /\ queue \in Seq(Messages) /\ queue' = Tail(queue) /\ queue[1] = Head(queue)
      /\ Len(queue) \in Nat /\ Len(queue') = Len(queue) - 1
      /\ \A j \in 1..Len(queue') : queue'[j] = queue[j + 1]
  BY DEF Gather, Settled, TypeOK
<1>2. /\ batch' = Gathered(Head(queue)) /\ pc' \in {"begin", "gather"}
      /\ UNCHANGED <<asked, need, told>>
  BY DEF Gather, callVars
<1>3. \A q \in queue[1].paths : WillRead(q, told[q])' /\ \A x \in Waiters : WillRead(q, need[x][q])'
  BY <1>1, <1>2 DEF WillRead, Gathered
<1>4. ToldCovered'
  <2> SUFFICES ASSUME NEW q \in Paths, ~Secured(q, told[q])'
               PROVE  \E j \in 1..Len(queue') : q \in queue'[j].paths
    BY DEF ToldCovered
  <2>1. ~Secured(q, told[q]) /\ q \notin queue[1].paths
    BY <1>2, <1>3, SecuredTold DEF Secured
  <2>2. PICK j \in 1..Len(queue) : q \in queue[j].paths
    BY <2>1 DEF ToldCovered
  <2>3. j - 1 \in 1..Len(queue') /\ queue'[j - 1] = queue[j]
    BY <1>1, <2>1, <2>2
  <2> QED BY <2>2, <2>3
<1>5. ASSUME NEW i \in 1..Len(queue), NEW x \in queue[i].who
      PROVE  /\ asked'[x] # "idle"
             /\ \A q \in Paths : Secured(q, need[x][q])' \/ \E j \in 1..(i - 1) : q \in queue'[j].paths
  <2>1. x \in Waiters /\ Promised(x, i)
    BY <1>5, Callers DEF Settled, QueueCovered
  <2>2. ASSUME NEW q \in Paths, ~Secured(q, need[x][q])'
        PROVE  \E j \in 1..(i - 1) : q \in queue'[j].paths
    <3>1. ~Secured(q, need[x][q]) /\ q \notin queue[1].paths
      BY <1>2, <1>3, <2>1, <2>2, SecuredNeed DEF Secured
    <3>2. PICK j \in 1..i : q \in queue[j].paths
      BY <2>1, <3>1 DEF Promised
    <3>3. j - 1 \in 1..(i - 1) /\ queue'[j - 1] = queue[j]
      BY <1>1, <3>1, <3>2
    <3> QED BY <3>2, <3>3
  <2> QED BY <1>2, <2>1, <2>2 DEF Promised
<1>6. BatchCovered'
  <2> SUFFICES ASSUME NEW x \in batch'.waiters
               PROVE  asked'[x] # "idle" /\ \A q \in Paths : Secured(q, need[x][q])'
    BY DEF BatchCovered
  <2>1. x \in batch.waiters \/ x \in queue[1].who
    BY <1>1, <1>2 DEF Gathered
  <2>2. CASE x \in batch.waiters
    BY <1>2, <2>2, SecuredNeed, Callers DEF BatchCovered, Settled
  <2>3. CASE x \in queue[1].who
    BY <1>1, <1>5, <2>3
  <2> QED BY <2>1, <2>2, <2>3
<1>7. QueueCovered'
  <2> SUFFICES ASSUME NEW i \in 1..Len(queue'), NEW x \in queue'[i].who
               PROVE  Promised(x, i)'
    BY DEF QueueCovered
  <2>1. i + 1 \in 1..Len(queue) /\ x \in queue[i + 1].who /\ (i + 1) - 1 = i
    BY <1>1
  <2> QED BY <2>1, <1>5 DEF Promised
<1> QED BY <1>4, <1>6, <1>7

(* A writer without a database has nothing to secure. *)
LEMMA CoveredDead ==
  ASSUME Settled, Covered, DeadAnswers
  PROVE  Covered'
<1> USE CoveredParts
<1>1. /\ queue # <<>> /\ queue \in Seq(Messages) /\ queue' = Tail(queue)
      /\ Len(queue) \in Nat /\ Len(queue') = Len(queue) - 1
      /\ \A j \in 1..Len(queue') : queue'[j] = queue[j + 1]
  BY DEF DeadAnswers, Settled, TypeOK
<1>2. pc' = "dead" /\ batch' = batch
  BY DEF DeadAnswers
<1>3. \A x \in Waiters : asked[x] # "idle" => asked'[x] # "idle"
  BY DEF DeadAnswers, Answers
<1>4. ToldCovered' /\ BatchCovered'
  BY <1>2, <1>3, Callers DEF ToldCovered, BatchCovered, Secured, WillRead, Settled
<1>5. QueueCovered'
  <2> SUFFICES ASSUME NEW i \in 1..Len(queue'), NEW x \in queue'[i].who
               PROVE  Promised(x, i)'
    BY DEF QueueCovered
  <2>1. i + 1 \in 1..Len(queue) /\ x \in queue[i + 1].who
    BY <1>1
  <2>2. asked[x] # "idle" /\ x \in Waiters
    BY <2>1, Callers DEF QueueCovered, Promised, Settled
  <2> QED BY <1>2, <1>3, <2>2 DEF Promised, Secured, WillRead
<1> QED BY <1>4, <1>5

(* Whatever was noticed or promised is secured or ahead in the channel. *)
LEMMA CoveredStep ==
  ASSUME Settled, Covered
  PROVE  Covered'
<1>1. ASSUME NEW S \in SUBSET Paths, NotifyChanged(S)
      PROVE  Covered'
  <2>1. Changed(S) \in Messages /\ Changed(S).paths = S /\ Changed(S).who = {}
    BY Messaged DEF Changed
  <2>2. /\ queue' = Append(queue, Changed(S)) /\ UNCHANGED <<batch, asked, need>>
        /\ \A q \in Paths : told'[q] = told[q] \/ q \in S
    BY <1>1 DEF NotifyChanged, Queue
  <2> QED BY <2>1, <2>2, CoveredQueued
<1>2. ASSUME RescanAll
      PROVE  Covered'
  <2>1. Rescan \in Messages /\ Rescan.who = {}
    BY Messaged DEF Rescan
  <2>2. queue' = Append(queue, Rescan) /\ UNCHANGED <<batch, asked, need, told>>
    BY <1>2 DEF RescanAll, Queue, callVars
  <2> QED BY <2>1, <2>2, CoveredQueued
<1>3. ASSUME NEW x \in Waiters, AskFlush(x)
      PROVE  Covered'
  <2>1. Flush(x) \in Messages /\ Flush(x).who = {x}
    BY Messaged DEF Flush
  <2>2. /\ queue' = Append(queue, Flush(x)) /\ UNCHANGED <<batch, told>>
        /\ asked[x] = "idle" /\ asked' = [asked EXCEPT ![x] = "waiting"]
        /\ need' = [need EXCEPT ![x] = told]
    BY <1>3 DEF AskFlush, Queue
  <2>3. asked \in [Waiters -> {"idle", "waiting", "answered"}] /\ need \in [Waiters -> [Paths -> Nat]]
    BY DEF Settled, TypeOK
  <2>4. /\ \A y \in Waiters : asked[y] # "idle" => need'[y] = need[y] /\ asked'[y] # "idle"
        /\ asked'[x] # "idle" /\ need'[x] = told'
    BY <2>2, <2>3
  <2> QED BY <2>1, <2>2, <2>4, CoveredQueued
<1>4. ASSUME \/ \E p \in Paths : Edit(p) \/ ReadFile(p)
             \/ LastHandleDropped \/ Open \/ Close \/ Gone \/ Begin
             \/ Commit \/ RollBack \/ Publish \/ Answer \/ UNCHANGED vars
      PROVE  Covered'
  <2>1. UNCHANGED <<queue, told, need>>
    BY <1>4 DEF Edit, ReadFile, LastHandleDropped, Open, Close, Gone, Begin, Commit, RollBack,
                Publish, Answer, vars, callVars
  <2>2. \A x \in Waiters : asked[x] # "idle" => asked'[x] # "idle"
    BY <1>4 DEF Edit, ReadFile, LastHandleDropped, Open, Close, Gone, Begin, Commit, RollBack,
                Publish, Answer, Answers, vars, callVars
  <2>3. batch \in Batches
    BY DEF Settled, TypeOK, Batches
  <2>4. batch'.waiters \subseteq batch.waiters
    BY <1>4, <2>3, FirstBatch, MadeFull DEF Edit, ReadFile, LastHandleDropped, Open, Close, Gone,
       Begin, Commit, RollBack, Publish, Answer, EmptyBatch, vars
  <2> QED BY <2>1, <2>2, <2>4, CoveredKept
<1> QED BY <1>1, <1>2, <1>3, <1>4, CoveredGathered, CoveredDead DEF Settled, Next, Write

---------------------------------------------------------------------------
LEMMA InitInv == Init => IInv
<1> SUFFICES ASSUME Init PROVE IInv
  OBVIOUS
<1>1. TypeOK
  <2>1. batch \in [dirty : SUBSET Paths, full : BOOLEAN, waiters : SUBSET Waiters]
    BY DEF Init, EmptyBatch
  <2>2. load \in [{"edits", "notes", "faults"} -> Nat]
    BY GraphAssumption DEF Init
  <2>3. need \in [Waiters -> [Paths -> Nat]] /\ store \in [Paths -> Nat]
    BY DEF Init, Nothing
  <2>4. queue \in Seq(Messages)
    BY DEF Init
  <2> QED BY <2>1, <2>2, <2>3, <2>4 DEF Init, TypeOK, Nothing, Unread
<1> QED BY <1>1 DEF Init, IInv, Versions, Phase, Covered, Current, Answered, Secured, WillRead,
                    Nothing, Unread, EmptyBatch

LEMMA NextInv == IInv /\ [Next]_vars => IInv'
<1> SUFFICES ASSUME IInv, [Next]_vars PROVE IInv'
  OBVIOUS
<1>1. TypeOK'
  BY TypeStep DEF IInv
<1>2. Versions' /\ Phase' /\ Current'
  BY <1>1, VersionsStep, PhaseStep, CurrentStep DEF IInv
<1>3. Covered'
  BY <1>1, <1>2, CoveredStep DEF IInv, Settled
<1>4. Answered'
  BY <1>2, AnsweredStep DEF IInv
<1> QED BY <1>1, <1>2, <1>3, <1>4 DEF IInv

(* The inductive invariant holds throughout. *)
THEOREM Inductive == Spec => []IInv
BY InitInv, NextInv, PTL DEF Spec

(* The types of the service's state: the channel holds messages, versions are numbers
   (service.rs:58, service.rs:87). *)
THEOREM TypeCorrect == Spec => []TypeOK
<1>1. IInv => TypeOK
  BY DEF IInv
<1> QED BY <1>1, Inductive, PTL

(* A flush returns only when what was notified before it is committed and published,
   for any number of files and callers and whatever happens meanwhile, but for the
   failures FlushHonoured names (service.rs:150, service.rs:301). *)
THEOREM FlushKeepsPromise == Spec => []FlushHonoured
<1>1. IInv => FlushHonoured
  BY DEF IInv, Answered, FlushHonoured
<1> QED BY <1>1, Inductive, PTL
============================================================================
