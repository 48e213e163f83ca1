--------------------------- MODULE TurnScanProofs ---------------------------
(***************************************************************************)
(* Proofs about TurnScan, for any number of paths, turns and writers and   *)
(* any racy window at least as wide as the clock is coarse: the stat-only  *)
(* shortcut never hides a change of a turn.                                *)
(***************************************************************************)
EXTENDS TurnScan, TLAPS

USE WindowAssumption, ScopeAssumption, DistinctAssumption DEF Times

(* An entry that is not racy is older than any stamp still to come. *)
Past(e) == (e # NoEntry /\ ~e.racy) => e.mtime < clock - RacyWindow

EntryOK(e, p) == Past(e) /\ Agrees(e, file[p])

(* If the file still bears the stamp m, it still holds c. *)
Fixed(p, m, c) ==
  (file[p] # NoFile /\ file[p].mtime = m) => file[p].c = c

SharedInv == \A p \in Paths : EntryOK(baseline[p], p) /\ EntryOK(saved[p], p)

Entries(t, p) ==
  EntryOK(prev[t][p], p) /\ EntryOK(man[t][p], p) /\ EntryOK(pre[t][p], p)

(* What the walk said of a file outside the racy window stays true of it. *)
SeenStable(t, p) ==
  seen[t][p] # NoFile =>
    /\ seen[t][p].size = Size[seen[t][p].c]
    /\ ~Racy(t, seen[t][p]) => Fixed(p, seen[t][p].mtime, seen[t][p].c)

(* An entry of begin's manifest knows what the file held. *)
Holds(t, p, e) ==
  /\ (e = NoEntry /\ p \notin Ignorable) => held[t][p] = NoFile
  /\ e # NoEntry => /\ e.hash # NoHash => e.hash = held[t][p]
                    /\ ~e.racy => Fixed(p, e.mtime, held[t][p])

Looked(t, p, h) ==
  IF seen[t][p] = NoFile THEN p \notin Ignorable => h[t][p] = NoFile
                         ELSE h[t][p] = seen[t][p].c

Order(t) ==
  /\ walked[t] \subseteq Scope[t]
  /\ handled[t] \subseteq walked[t]
  /\ scan[t] <= clock

BeginPart(t, p) == pc[t] = "begin" =>
  /\ p \notin walked[t] => seen[t][p] = NoFile
  /\ LET e == prev[t][p] IN
       (e # NoEntry /\ ~e.racy) =>
         /\ e.mtime < scan[t] - RacyWindow
         /\ (seen[t][p] # NoFile /\ e.mtime = seen[t][p].mtime
               /\ e.size = seen[t][p].size /\ e.hash # NoHash)
              => e.hash = seen[t][p].c
  /\ p \in walked[t] \ handled[t] => Looked(t, p, held)
  /\ p \in handled[t] => seen[t][p] # NoFile /\ Holds(t, p, man[t][p])
  /\ p \notin handled[t] => man[t][p] = NoEntry

MidPart(t, p) ==
  (pc[t] \in {"beginSave", "running", "end"} /\ p \in Scope[t]) => Holds(t, p, pre[t][p])

Reported(t, p) ==
  (p \notin Ignorable /\ left[t][p] # NoEntry) =>
    /\ left[t][p] # held[t][p] => p \in changes[t]
    /\ (p \in changes[t] /\ Hashed(t, p)) => left[t][p] # held[t][p]

EndPart(t, p) == pc[t] = "end" =>
  /\ p \notin walked[t] => seen[t][p] = NoFile
  /\ LET e == pre[t][p] IN
       (p \in Scope[t] /\ seen[t][p] # NoFile /\ e # NoEntry /\ ~e.racy /\ e.mtime = seen[t][p].mtime)
          => seen[t][p].c = held[t][p]
  /\ p \in walked[t] \ handled[t] => Looked(t, p, left)
  /\ p \in handled[t] => seen[t][p] # NoFile /\ Reported(t, p)
  /\ p \in changes[t] => p \in handled[t]

EndSavePart(t, p) ==
  (pc[t] = "endSave" /\ p \in Scope[t]) => Reported(t, p)

Quiet(t) == pc[t] \notin {"end", "endSave"} => changes[t] = {}

PathInv(t, p) ==
  /\ Entries(t, p)
  /\ SeenStable(t, p)
  /\ BeginPart(t, p)
  /\ MidPart(t, p)
  /\ EndPart(t, p)
  /\ EndSavePart(t, p)

TurnInv(t) == Order(t) /\ Quiet(t) /\ \A p \in Paths : PathInv(t, p)

IInv ==
  /\ TypeOK
  /\ ignored \subseteq Ignorable
  /\ SharedInv
  /\ \A t \in Turns : TurnInv(t)

------------------------------------------------------------------------------
(* Initially no manifest claims anything. *)
LEMMA InitIInv == Init => IInv
<1> SUFFICES ASSUME Init PROVE IInv
  OBVIOUS
<1> USE DEF Init, EmptyManifest, Unseen
<1>1. TypeOK
  BY DEF TypeOK, Manifest, File, Phases
<1>2. SharedInv
  BY DEF SharedInv, EntryOK, Past, Agrees
<1>3. ASSUME NEW t \in Turns PROVE TurnInv(t)
  BY <1>3 DEF TurnInv, Order, Quiet, PathInv, Entries, EntryOK, Past, Agrees, SeenStable,
              BeginPart, MidPart, EndPart, EndSavePart
<1> QED
  BY <1>1, <1>2, <1>3 DEF IInv

------------------------------------------------------------------------------
(* What any step of the world amounts to for the scans. *)
WorldEffect ==
  /\ clock <= clock'
  /\ clock' \in 0 .. MaxTime
  /\ file' \in [Paths -> File \cup {NoFile}]
  /\ \A p \in Paths : \/ file'[p] = file[p]
                      \/ file'[p] = NoFile
                      \/ file'[p].mtime >= clock - Granularity
  /\ ignored' \subseteq Ignorable
  /\ writes' \in 0 .. MaxWrites
  /\ store' \subseteq Contents
  /\ UNCHANGED <<baseline, saved, local, held, left>>

LEMMA WorldActs ==
  ASSUME IInv, PreservingMoves = FALSE, World
  PROVE  WorldEffect
<1> USE DEF IInv, TypeOK, WorldEffect, shared, local
<1>1. CASE Tick
  BY <1>1 DEF Tick
<1>2. ASSUME NEW p \in Paths, Remove(p) PROVE WorldEffect
  BY <1>2 DEF Remove, Act
<1>3. ASSUME NEW p \in Paths, EditIgnore(p) PROVE WorldEffect
  BY <1>3 DEF EditIgnore, Act
<1>4. ASSUME NEW p \in Paths, NEW c \in Contents, Write(p, c) PROVE WorldEffect
  <2>1. PICK m \in Stamps : file' = [file EXCEPT ![p] = [c |-> c, mtime |-> m]]
    BY <1>4 DEF Write
  <2>2. m \in Times /\ m >= clock - Granularity
    BY DEF Stamps
  <2>3. [c |-> c, mtime |-> m] \in File
    BY <2>2 DEF File
  <2>4. file' \in [Paths -> File \cup {NoFile}]
    BY <2>1, <2>3
  <2> QED
    BY <1>4, <2>1, <2>2, <2>4 DEF Write, Act
<1>5. ASSUME NEW h \in Contents, Collect(h) PROVE WorldEffect
  BY <1>5 DEF Collect, Act
<1>6. ASSUME NEW p \in Paths, NEW q \in Paths PROVE ~Move(p, q)
  BY DEF Move
<1> QED
  BY <1>1, <1>2, <1>3, <1>4, <1>5, <1>6 DEF World

LEMMA WorldPreserves ==
  ASSUME IInv, WorldEffect
  PROVE  IInv'
<1> USE DEF WorldEffect, shared, local
<1>1. TypeOK'
  BY DEF IInv, TypeOK
<1>2. ASSUME NEW p \in Paths, NEW m \in Int, NEW c, m < clock - RacyWindow, Fixed(p, m, c)
      PROVE  Fixed(p, m, c)'
  BY <1>2 DEF IInv, TypeOK, Fixed, File
<1>3. ASSUME NEW p \in Paths, NEW e \in Entry \cup {NoEntry}, EntryOK(e, p)
      PROVE  Past(e)' /\ (Past(e) /\ Agrees(e, file[p]))' /\ EntryOK(e, p)'
  <2>1. Past(e)'
    BY <1>3 DEF IInv, TypeOK, EntryOK, Past, Entry
  <2>2. Agrees(e, file[p])'
    <3>1. CASE file'[p] = file[p]
      BY <1>3, <3>1 DEF EntryOK, Agrees
    <3>2. CASE file'[p] = NoFile
      BY <3>2 DEF Agrees
    <3>3. CASE file'[p] # NoFile /\ file'[p].mtime >= clock - Granularity
      <4>1. file'[p].mtime \in Int /\ clock \in Int
        BY <3>3 DEF IInv, TypeOK, File
      <4>2. e # NoEntry /\ ~e.racy => e.mtime \in Int /\ e.mtime < clock - RacyWindow
        BY <1>3 DEF EntryOK, Past, Entry
      <4>3. e # NoEntry /\ ~e.racy => e.mtime # file'[p].mtime
        BY <3>3, <4>1, <4>2
      <4> QED
        BY <4>3 DEF Agrees
    <3> QED
      BY <3>1, <3>2, <3>3
  <2> QED
    BY <2>1, <2>2 DEF EntryOK
<1>4. SharedInv'
  BY <1>3 DEF IInv, TypeOK, SharedInv, Manifest, EntryOK
<1>5. ASSUME NEW t \in Turns, NEW p \in Paths PROVE PathInv(t, p)'
  <2>0. PathInv(t, p) /\ Order(t)
    BY DEF IInv, TurnInv
  <2>1. Entries(t, p)'
    BY <1>3, <2>0 DEF PathInv, Entries, IInv, TypeOK, Manifest, EntryOK
  <2>2. SeenStable(t, p)'
    <3>1. seen[t][p] # NoFile => seen[t][p].mtime \in Int
      BY DEF IInv, TypeOK, Observed
    <3>2. scan[t] \in Int /\ clock \in Int /\ scan[t] <= clock
      BY <2>0 DEF IInv, TypeOK, Order
    <3> QED
      BY <1>2, <2>0, <3>1, <3>2 DEF PathInv, SeenStable, Racy
  <2>3. ASSUME NEW e \in Entry \cup {NoEntry}, EntryOK(e, p), Holds(t, p, e)
        PROVE  Holds(t, p, e)'
    <3>1. e # NoEntry /\ ~e.racy => e.mtime \in Int /\ e.mtime < clock - RacyWindow
      BY <2>3 DEF EntryOK, Past, Entry
    <3> QED
      BY <1>2, <2>3, <3>1 DEF Holds
  <2>4. man[t][p] \in Entry \cup {NoEntry} /\ pre[t][p] \in Entry \cup {NoEntry}
    BY DEF IInv, TypeOK, Manifest
  <2>5. BeginPart(t, p)'
    BY <2>0, <2>3, <2>4 DEF PathInv, Entries, BeginPart, Looked
  <2>6. MidPart(t, p)'
    BY <2>0, <2>3, <2>4 DEF PathInv, Entries, MidPart
  <2>7. EndPart(t, p)' /\ EndSavePart(t, p)'
    BY <2>0 DEF PathInv, EndPart, EndSavePart, Looked, Reported, Hashed
  <2> QED
    BY <2>1, <2>2, <2>5, <2>6, <2>7 DEF PathInv
<1>6. ASSUME NEW t \in Turns PROVE Order(t)' /\ Quiet(t)'
  BY DEF IInv, TypeOK, TurnInv, Order, Quiet
<1> QED
  BY <1>1, <1>4, <1>5, <1>6 DEF IInv, TurnInv

------------------------------------------------------------------------------
(* A step of one turn that leaves the tree alone does not disturb another. *)
LocalKept(u) ==
  /\ pc'[u] = pc[u] /\ scan'[u] = scan[u] /\ prev'[u] = prev[u]
  /\ seen'[u] = seen[u] /\ walked'[u] = walked[u] /\ handled'[u] = handled[u]
  /\ man'[u] = man[u] /\ pre'[u] = pre[u] /\ changes'[u] = changes[u]
  /\ held'[u] = held[u] /\ left'[u] = left[u]

LEMMA OthersKeep ==
  ASSUME NEW u \in Turns, TurnInv(u), UNCHANGED tree, LocalKept(u)
  PROVE  TurnInv(u)'
<1> USE DEF tree, LocalKept
<1>1. Order(u)' /\ Quiet(u)'
  BY DEF TurnInv, Order, Quiet
<1>2. ASSUME NEW p \in Paths PROVE PathInv(u, p)'
  <2>0. PathInv(u, p)
    BY DEF TurnInv
  <2>1. Entries(u, p)' /\ SeenStable(u, p)'
    BY <2>0 DEF PathInv, Entries, EntryOK, Past, Agrees, SeenStable, Racy, Fixed
  <2>2. BeginPart(u, p)' /\ MidPart(u, p)'
    BY <2>0 DEF PathInv, BeginPart, MidPart, Looked, Holds, Fixed
  <2>3. EndPart(u, p)' /\ EndSavePart(u, p)'
    BY <2>0 DEF PathInv, EndPart, EndSavePart, Looked, Reported, Hashed
  <2> QED
    BY <2>1, <2>2, <2>3 DEF PathInv
<1> QED
  BY <1>1, <1>2 DEF TurnInv

(* So a turn's step needs checking on its own turn and the shared part only. *)
LEMMA OneTurn ==
  ASSUME IInv, NEW t \in Turns, UNCHANGED tree,
         \A u \in Turns \ {t} : LocalKept(u),
         TypeOK', SharedInv', TurnInv(t)'
  PROVE  IInv'
<1>1. ASSUME NEW u \in Turns PROVE TurnInv(u)'
  BY <1>1, OthersKeep DEF IInv
<1> QED
  BY <1>1 DEF IInv, tree

(* An entry made by the loop of a scan knows only what the loop has read. *)
LEMMA ReadEntryOK ==
  ASSUME TypeOK, NEW t \in Turns, NEW p \in Paths, NEW kept \in BOOLEAN,
         seen[t][p] # NoFile, file[p] # NoFile, scan[t] <= clock
  PROVE  /\ ReadEntry(t, seen[t][p], file[p].c, kept) \in Entry
         /\ EntryOK(ReadEntry(t, seen[t][p], file[p].c, kept), p)
<1>1. seen[t][p] \in Observed /\ file[p] \in File
  BY DEF TypeOK
<1>2. ReadEntry(t, seen[t][p], file[p].c, kept) \in Entry
  BY <1>1 DEF TypeOK, ReadEntry, Entry, Observed, File, Racy
<1>3. scan[t] \in Int /\ clock \in Int /\ seen[t][p].mtime \in Int
  BY <1>1 DEF TypeOK, Observed
<1>4. EntryOK(ReadEntry(t, seen[t][p], file[p].c, kept), p)
  <2> DEFINE e == ReadEntry(t, seen[t][p], file[p].c, kept)
  <2>1. e.hash = file[p].c /\ e.mtime = seen[t][p].mtime /\ (~e.racy => ~Racy(t, seen[t][p]))
    BY DEF ReadEntry
  <2> HIDE DEF e
  <2>2. ~e.racy => e.mtime < clock - RacyWindow
    BY <1>3, <2>1 DEF Racy
  <2> QED
    BY <2>1, <2>2 DEF EntryOK, Past, Agrees, e
<1> QED
  BY <1>2, <1>4

LEMMA StatEntryOK ==
  ASSUME TypeOK, NEW t \in Turns, NEW p \in Paths,
         seen[t][p] # NoFile, scan[t] <= clock
  PROVE  /\ StatEntry(t, seen[t][p]) \in Entry
         /\ EntryOK(StatEntry(t, seen[t][p]), p)
<1>1. seen[t][p] \in Observed
  BY DEF TypeOK
<1>2. StatEntry(t, seen[t][p]) \in Entry
  BY <1>1 DEF TypeOK, StatEntry, Entry, Observed, Racy
<1>3. scan[t] \in Int /\ clock \in Int /\ seen[t][p].mtime \in Int
  BY <1>1 DEF TypeOK, Observed
<1>4. EntryOK(StatEntry(t, seen[t][p]), p)
  <2> DEFINE e == StatEntry(t, seen[t][p])
  <2>1. e.hash = NoHash /\ e.mtime = seen[t][p].mtime /\ (~e.racy => ~Racy(t, seen[t][p]))
    BY DEF StatEntry
  <2> HIDE DEF e
  <2>2. ~e.racy => e.mtime < clock - RacyWindow
    BY <1>3, <2>1 DEF Racy
  <2> QED
    BY <2>1, <2>2 DEF EntryOK, Past, Agrees, e
<1> QED
  BY <1>2, <1>4

------------------------------------------------------------------------------
(* The walk. *)
LEMMA StatPreserves ==
  ASSUME IInv, NEW t \in Turns, NEW q \in Paths, Stat(t, q)
  PROVE  IInv'
<1> USE DEF Stat, shared
<1>1. TypeOK /\ TurnInv(t)
  BY DEF IInv
<1>2. TypeOK'
  <2>1. Visible(q) => [size |-> Size[file[q].c], mtime |-> file[q].mtime, c |-> file[q].c] \in Observed
    BY <1>1 DEF TypeOK, Visible, File, Observed
  <2>2. seen' \in [Turns -> [Paths -> Observed \cup {NoFile}]]
    BY <1>1, <2>1 DEF TypeOK
  <2>3. (IF file[q] = NoFile THEN NoFile ELSE file[q].c) \in Contents \cup {NoFile}
    BY <1>1 DEF TypeOK, File
  <2> DEFINE now == IF file[q] = NoFile THEN NoFile ELSE file[q].c
  <2>4. \/ held' = [held EXCEPT ![t][q] = now] /\ left' = left
        \/ left' = [left EXCEPT ![t][q] = now] /\ held' = held
    OBVIOUS
  <2> HIDE DEF now
  <2>5. /\ held' \in [Turns -> [Paths -> Contents \cup {NoFile}]]
        /\ left' \in [Turns -> [Paths -> Contents \cup {NoFile, NoEntry}]]
    <3>1. now \in Contents \cup {NoFile}
      BY <2>3 DEF now
    <3>2. /\ held \in [Turns -> [Paths -> Contents \cup {NoFile}]]
          /\ left \in [Turns -> [Paths -> Contents \cup {NoFile, NoEntry}]]
      BY <1>1 DEF TypeOK
    <3>3. [held EXCEPT ![t][q] = now] \in [Turns -> [Paths -> Contents \cup {NoFile}]]
      BY <3>1, <3>2
    <3>4. [left EXCEPT ![t][q] = now] \in [Turns -> [Paths -> Contents \cup {NoFile, NoEntry}]]
      BY <3>1, <3>2
    <3> QED
      BY <2>4, <3>2, <3>3, <3>4
  <2> QED
    BY <1>1, <2>2, <2>5 DEF TypeOK, tree
<1>3. SharedInv'
  BY DEF IInv, SharedInv, EntryOK, Past, Agrees, tree
<1>4. Order(t)' /\ Quiet(t)'
  BY <1>1 DEF TypeOK, TurnInv, Order, Quiet, tree
<1>5. ASSUME NEW p \in Paths PROVE PathInv(t, p)'
  <2>0. PathInv(t, p) /\ Order(t) /\ q \in Scope[t] /\ q \notin walked[t] /\ q \notin handled[t]
    BY <1>1 DEF TurnInv, Order
  <2>1. Entries(t, p)'
    BY <2>0 DEF PathInv, Entries, EntryOK, Past, Agrees, tree
  <2>2. CASE p # q
    <3>1. /\ seen'[t][p] = seen[t][p] /\ held'[t][p] = held[t][p] /\ left'[t][p] = left[t][p]
          /\ p \in walked'[t] <=> p \in walked[t]
      BY <1>1, <2>2 DEF TypeOK
    <3> QED
      BY <2>0, <2>1, <3>1 DEF PathInv, SeenStable, Racy, Fixed, BeginPart, MidPart, EndPart,
                        EndSavePart, Looked, Holds, Reported, Hashed, tree
  <2>3. CASE p = q
    <3>1. seen'[t][p] = IF Visible(p)
            THEN [size |-> Size[file[p].c], mtime |-> file[p].mtime, c |-> file[p].c] ELSE NoFile
      BY <1>1, <2>3 DEF TypeOK
    <3>0. Visible(p) => seen'[t][p] # NoFile
      <4>1. Visible(p) =>
              [size |-> Size[file[p].c], mtime |-> file[p].mtime, c |-> file[p].c] \in Observed
        BY <1>1 DEF TypeOK, Visible, File, Observed
      <4> QED
        BY <3>1, <4>1
    <3>2. SeenStable(t, p)'
      BY <3>1 DEF SeenStable, Fixed, tree
    <3>3. p \in walked'[t] /\ p \notin handled'[t]
      BY <1>1, <2>0, <2>3 DEF TypeOK
    <3>4. CASE pc[t] = "begin"
      <4>1. held'[t][p] = IF file[p] = NoFile THEN NoFile ELSE file[p].c
        BY <1>1, <2>3, <3>4 DEF TypeOK
      <4>2. Looked(t, p, held)'
        BY <1>1, <3>0, <3>1, <4>1 DEF Looked, Visible, IInv
      <4>3. BeginPart(t, p)'
        BY <2>0, <2>3, <3>1, <3>3, <3>4, <4>2
           DEF PathInv, Entries, EntryOK, Agrees, BeginPart, Visible, tree
      <4> QED
        BY <2>0, <2>1, <3>2, <3>4, <4>3 DEF PathInv, MidPart, EndPart, EndSavePart
    <3>5. CASE pc[t] = "end"
      <4>1. left'[t][p] = IF file[p] = NoFile THEN NoFile ELSE file[p].c
        BY <1>1, <2>3, <3>5 DEF TypeOK
      <4>2. Looked(t, p, left)'
        BY <1>1, <3>0, <3>1, <4>1 DEF Looked, Visible, IInv
      <4>3. Holds(t, p, pre[t][p])
        BY <2>0, <2>3, <3>5 DEF PathInv, MidPart
      <4>4. MidPart(t, p)'
        BY <3>5, <4>3 DEF MidPart, Holds, Fixed, tree
      <4>5. EndPart(t, p)'
        BY <2>0, <2>3, <3>1, <3>3, <3>5, <4>2, <4>3
           DEF PathInv, EndPart, Holds, Fixed, Visible, tree
      <4> QED
        BY <2>0, <2>1, <3>2, <3>5, <4>4, <4>5 DEF PathInv, BeginPart, EndSavePart
    <3> QED
      BY <3>4, <3>5 DEF Walking
  <2> QED
    BY <2>2, <2>3
<1>6. TurnInv(t)'
  BY <1>4, <1>5 DEF TurnInv
<1>7. \A u \in Turns \ {t} : LocalKept(u)
  BY <1>1 DEF TypeOK, LocalKept
<1> QED
  BY <1>2, <1>3, <1>6, <1>7, OneTurn DEF tree

------------------------------------------------------------------------------
(* TurnCapture::begin *)
LEMMA BeginStartPreserves ==
  ASSUME IInv, NEW t \in Turns, BeginStart(t)
  PROVE  IInv'
<1> USE DEF BeginStart, StartScan, shared
<1>1. TypeOK /\ TurnInv(t) /\ SharedInv
  BY DEF IInv
<1>2. EmptyManifest \in Manifest /\ Unseen \in [Paths -> Observed \cup {NoFile}]
  BY DEF EmptyManifest, Manifest, Unseen
<1>3. TypeOK'
  BY <1>1, <1>2 DEF TypeOK, tree, Phases
<1>4. SharedInv'
  BY <1>1 DEF SharedInv, EntryOK, Past, Agrees, tree
<1>5. Order(t)' /\ Quiet(t)'
  BY <1>1 DEF TypeOK, TurnInv, Order, Quiet, tree
<1>6. ASSUME NEW p \in Paths PROVE PathInv(t, p)'
  <2>1. /\ prev'[t][p] = baseline[p] /\ man'[t][p] = NoEntry /\ pre'[t][p] = pre[t][p]
        /\ seen'[t][p] = NoFile /\ walked'[t] = {} /\ handled'[t] = {}
        /\ scan'[t] = clock /\ pc'[t] = "begin"
    BY <1>1 DEF TypeOK, EmptyManifest, Unseen
  <2>2. Entries(t, p)'
    BY <1>1, <2>1 DEF TurnInv, PathInv, SharedInv, Entries, EntryOK, Past, Agrees, tree
  <2>3. SeenStable(t, p)'
    BY <2>1 DEF SeenStable
  <2>4. BeginPart(t, p)'
    BY <1>1, <2>1 DEF SharedInv, EntryOK, Past, BeginPart, tree
  <2> QED
    BY <2>1, <2>2, <2>3, <2>4 DEF PathInv, MidPart, EndPart, EndSavePart
<1>7. TurnInv(t)'
  BY <1>5, <1>6 DEF TurnInv
<1>8. \A u \in Turns \ {t} : LocalKept(u)
  BY <1>1 DEF TypeOK, LocalKept
<1> QED
  BY <1>3, <1>4, <1>7, <1>8, OneTurn DEF tree

(* What handling one path of begin's loop changes. *)
BeginHandles(t, q, e) ==
  /\ pc[t] = "begin"
  /\ q \in walked[t] \ handled[t]
  /\ seen[t][q] # NoFile
  /\ Handle(t, q, e)
  /\ \/ held' = held
     \/ \E h \in Contents \cup {NoFile} : held' = [held EXCEPT ![t][q] = h]
  /\ store' \subseteq Contents
  /\ UNCHANGED <<tree, baseline, saved, pc, scan, prev, seen, walked, pre, changes, left>>

LEMMA BeginHandlesPreserves ==
  ASSUME IInv, NEW t \in Turns, NEW q \in Paths, NEW e \in Entry \cup {NoEntry},
         BeginHandles(t, q, e), EntryOK(e, q), Holds(t, q, e)'
  PROVE  IInv'
<1> USE DEF BeginHandles, Handle
<1>1. TypeOK /\ TurnInv(t) /\ SharedInv
  BY DEF IInv
<1>2. TypeOK'
  <2>1. man' \in [Turns -> Manifest]
    BY <1>1 DEF TypeOK, Manifest
  <2>2. handled' \in [Turns -> SUBSET Paths]
    BY <1>1 DEF TypeOK
  <2>3. held' \in [Turns -> [Paths -> Contents \cup {NoFile}]]
    <3>1. held \in [Turns -> [Paths -> Contents \cup {NoFile}]]
      BY <1>1 DEF TypeOK
    <3>2. ASSUME NEW h \in Contents \cup {NoFile}
          PROVE  [held EXCEPT ![t][q] = h] \in [Turns -> [Paths -> Contents \cup {NoFile}]]
      BY <3>1
    <3> QED
      BY <3>1, <3>2
  <2> QED
    BY <1>1, <2>1, <2>2, <2>3 DEF TypeOK, tree
<1>3. SharedInv'
  BY <1>1 DEF SharedInv, EntryOK, Past, Agrees, tree
<1>4. Order(t)' /\ Quiet(t)'
  BY <1>1 DEF TypeOK, TurnInv, Order, Quiet, tree
<1>5. ASSUME NEW p \in Paths PROVE PathInv(t, p)'
  <2>0. PathInv(t, p) /\ handled'[t] = handled[t] \cup {q}
    BY <1>1 DEF TurnInv, TypeOK
  <2>1. SeenStable(t, p)'
    BY <2>0 DEF PathInv, SeenStable, Racy, Fixed, tree
  <2>2. CASE p # q
    <3>1. man'[t][p] = man[t][p] /\ held'[t][p] = held[t][p] /\ (p \in handled'[t] <=> p \in handled[t])
      BY <1>1, <2>0, <2>2 DEF TypeOK, Manifest
    <3>2. Entries(t, p)'
      BY <2>0, <3>1 DEF PathInv, Entries, EntryOK, Past, Agrees, tree
    <3>3. BeginPart(t, p)'
      BY <2>0, <3>1 DEF PathInv, BeginPart, Looked, Holds, Fixed, tree
    <3> QED
      BY <2>0, <2>1, <3>2, <3>3 DEF PathInv, MidPart, EndPart, EndSavePart
  <2>3. CASE p = q
    <3>1. man'[t][p] = e /\ p \in handled'[t]
      BY <1>1, <2>0, <2>3 DEF TypeOK, Manifest
    <3>2. Entries(t, p)'
      BY <2>0, <2>3, <3>1 DEF PathInv, Entries, EntryOK, Past, Agrees, tree
    <3>3. BeginPart(t, p)'
      BY <2>0, <2>3, <3>1 DEF PathInv, BeginPart, tree
    <3> QED
      BY <2>0, <2>1, <3>2, <3>3 DEF PathInv, MidPart, EndPart, EndSavePart
  <2> QED
    BY <2>2, <2>3
<1>6. TurnInv(t)'
  BY <1>4, <1>5 DEF TurnInv
<1>7. \A u \in Turns \ {t} : LocalKept(u)
  BY <1>1 DEF TypeOK, LocalKept
<1> QED
  BY <1>2, <1>3, <1>6, <1>7, OneTurn DEF tree

LEMMA BeginReusePreserves ==
  ASSUME IInv, NEW t \in Turns, NEW q \in Paths, BeginReuse(t, q)
  PROVE  IInv'
<1> DEFINE o == seen[t][q]
<1>0. PICK e : e = prev[t][q]
  OBVIOUS
<1>1. TypeOK /\ TurnInv(t) /\ PathInv(t, q)
  BY DEF IInv, TurnInv
<1>2. e \in Entry \cup {NoEntry} /\ o \in Observed /\ scan[t] \in Int
  BY <1>0, <1>1 DEF BeginReuse, Due, TypeOK, Manifest
<1>3. EntryOK(e, q)
  BY <1>0, <1>1 DEF PathInv, Entries
<1>4. BeginHandles(t, q, e)
  BY <1>0, <1>1 DEF BeginReuse, BeginHandles, Due, Looping, TypeOK, shared
<1>5. /\ e # NoEntry /\ ~e.racy /\ e.mtime = o.mtime /\ e.size = o.size
      /\ o # NoFile /\ pc[t] = "begin" /\ q \in walked[t] \ handled[t]
  BY <1>0 DEF BeginReuse, Reusable, Due, Looping
<1>6. held[t][q] = o.c
  BY <1>1, <1>5 DEF PathInv, BeginPart, Looked
<1>7. e.hash # NoHash => e.hash = o.c
  BY <1>0, <1>1, <1>5 DEF PathInv, BeginPart
<1>8. Fixed(q, o.mtime, o.c)
  <2>1. e.mtime < scan[t] - RacyWindow
    BY <1>0, <1>1, <1>5 DEF PathInv, BeginPart
  <2>2. ~Racy(t, o)
    BY <1>2, <1>5, <2>1 DEF Racy, Observed
  <2> QED
    BY <1>1, <1>5, <2>2 DEF PathInv, SeenStable
<1>9. Holds(t, q, e)'
  BY <1>5, <1>6, <1>7, <1>8 DEF BeginReuse, Holds, Fixed, tree
<1> QED
  BY <1>2, <1>3, <1>4, <1>9, BeginHandlesPreserves

LEMMA BeginCapturePreserves ==
  ASSUME IInv, NEW t \in Turns, NEW q \in Paths, BeginCapture(t, q)
  PROVE  IInv'
<1> DEFINE o == seen[t][q]
<1>1. TypeOK /\ TurnInv(t) /\ PathInv(t, q) /\ scan[t] <= clock
  BY DEF IInv, TurnInv, Order
<1>2. o # NoFile /\ pc[t] = "begin" /\ q \in walked[t] \ handled[t]
  BY <1>1 DEF BeginCapture, Due, Looping, TypeOK
<1>3. o \in Observed
  BY <1>1, <1>2 DEF TypeOK
<1>4. CASE Capped(t) /\ Handle(t, q, StatEntry(t, o)) /\ UNCHANGED <<store, held>>
  <2>0. PICK e : e = StatEntry(t, o)
    OBVIOUS
  <2>1. e \in Entry /\ EntryOK(e, q)
    BY <1>1, <1>2, <2>0, StatEntryOK
  <2>2. BeginHandles(t, q, e)
    BY <1>1, <1>2, <1>4, <2>0 DEF BeginCapture, BeginHandles, TypeOK
  <2>3. held[t][q] = o.c
    BY <1>1, <1>2 DEF PathInv, BeginPart, Looked
  <2>4. e # NoEntry /\ e.hash = NoHash /\ e.mtime = o.mtime /\ (~e.racy => ~Racy(t, o))
    BY <2>0, <2>1 DEF StatEntry
  <2>5. ~Racy(t, o) => Fixed(q, o.mtime, held[t][q])
    BY <1>1, <1>2, <2>3 DEF PathInv, SeenStable
  <2>6. Holds(t, q, e)'
    BY <1>4, <2>4, <2>5 DEF BeginCapture, Holds, Fixed, tree
  <2> QED
    BY <2>1, <2>2, <2>6, BeginHandlesPreserves
<1>5. CASE /\ file[q] # NoFile
           /\ Handle(t, q, ReadEntry(t, o, file[q].c, file[q].c \notin Big))
           /\ store' = store \cup ({file[q].c} \ Big)
           /\ held' = [held EXCEPT ![t][q] = file[q].c]
  <2>0. PICK e : e = ReadEntry(t, o, file[q].c, file[q].c \notin Big)
    OBVIOUS
  <2>1. e \in Entry /\ EntryOK(e, q)
    BY <1>1, <1>2, <1>5, <2>0, ReadEntryOK
  <2>2. file[q].c \in Contents
    BY <1>1, <1>5 DEF TypeOK, File
  <2>3. BeginHandles(t, q, e)
    BY <1>1, <1>2, <1>5, <2>0, <2>2 DEF BeginCapture, BeginHandles, TypeOK
  <2>4. e # NoEntry /\ e.hash = file[q].c
    BY <2>0, <2>1 DEF ReadEntry
  <2>5. held'[t][q] = file[q].c
    BY <1>1, <1>5 DEF TypeOK
  <2>6. Holds(t, q, e)'
    BY <2>4, <2>5 DEF BeginCapture, Holds, Fixed, tree
  <2> QED
    BY <2>1, <2>3, <2>6, BeginHandlesPreserves
<1>6. CASE /\ Handle(t, q, NoEntry)
           /\ held' = [held EXCEPT ![t][q] = NoFile]
           /\ UNCHANGED store
  <2>1. EntryOK(NoEntry, q)
    BY DEF EntryOK, Past, Agrees
  <2>2. BeginHandles(t, q, NoEntry)
    BY <1>1, <1>2, <1>6 DEF BeginCapture, BeginHandles, TypeOK
  <2>3. Holds(t, q, NoEntry)'
    BY <1>1, <1>6 DEF TypeOK, Holds
  <2> QED
    BY <2>1, <2>2, <2>3, BeginHandlesPreserves
<1> QED
  BY <1>4, <1>5, <1>6 DEF BeginCapture

(* Dropping the locals of a scan that is over. *)
LEMMA Cleared ==
  ASSUME TypeOK, NEW t \in Turns, EndOfScan(t)
  PROVE  /\ walked' \in [Turns -> SUBSET Paths]
         /\ handled' \in [Turns -> SUBSET Paths]
         /\ seen' \in [Turns -> [Paths -> Observed \cup {NoFile}]]
         /\ man' \in [Turns -> Manifest]
         /\ prev' \in [Turns -> Manifest]
         /\ scan' \in [Turns -> 0 .. MaxTime]
         /\ walked'[t] = {} /\ handled'[t] = {} /\ scan'[t] = 0
         /\ \A p \in Paths : man'[t][p] = NoEntry /\ prev'[t][p] = NoEntry /\ seen'[t][p] = NoFile
         /\ \A u \in Turns \ {t} :
              /\ walked'[u] = walked[u] /\ handled'[u] = handled[u] /\ seen'[u] = seen[u]
              /\ man'[u] = man[u] /\ prev'[u] = prev[u] /\ scan'[u] = scan[u]
<1>1. EmptyManifest \in Manifest /\ Unseen \in [Paths -> Observed \cup {NoFile}]
  BY DEF EmptyManifest, Manifest, Unseen
<1> QED
  BY <1>1 DEF TypeOK, EndOfScan, EmptyManifest, Unseen

LEMMA BeginFailPreserves ==
  ASSUME IInv, NEW t \in Turns, BeginFail(t)
  PROVE  IInv'
<1> USE DEF BeginFail, shared
<1>1. TypeOK /\ TurnInv(t) /\ SharedInv
  BY DEF IInv
<1>2. Unseen \in [Paths -> Contents \cup {NoFile}]
  BY DEF Unseen
<1>3. TypeOK'
  BY <1>1, <1>2, Cleared DEF TypeOK, tree, Phases
<1>4. SharedInv'
  BY <1>1 DEF SharedInv, EntryOK, Past, Agrees, tree
<1>5. Order(t)' /\ Quiet(t)'
  BY <1>1, Cleared DEF TypeOK, TurnInv, Order, Quiet, tree
<1>6. ASSUME NEW p \in Paths PROVE PathInv(t, p)'
  <2>1. pc'[t] = "over" /\ pre'[t][p] = pre[t][p]
    BY <1>1 DEF TypeOK
  <2>2. man'[t][p] = NoEntry /\ prev'[t][p] = NoEntry /\ seen'[t][p] = NoFile
    BY <1>1, Cleared
  <2>3. Entries(t, p)' /\ SeenStable(t, p)'
    BY <1>1, <2>1, <2>2 DEF TurnInv, PathInv, Entries, EntryOK, Past, Agrees, SeenStable, tree
  <2> QED
    BY <2>1, <2>3 DEF PathInv, BeginPart, MidPart, EndPart, EndSavePart
<1>7. TurnInv(t)'
  BY <1>5, <1>6 DEF TurnInv
<1>8. \A u \in Turns \ {t} : LocalKept(u)
  BY <1>1, Cleared DEF TypeOK, LocalKept
<1> QED
  BY <1>3, <1>4, <1>7, <1>8, OneTurn DEF tree

LEMMA BeginPublishPreserves ==
  ASSUME IInv, NEW t \in Turns, BeginPublish(t)
  PROVE  IInv'
<1> DEFINE next == [p \in Paths |-> IF p \in Scope[t] THEN man[t][p] ELSE prev[t][p]]
<1>1. TypeOK /\ TurnInv(t) /\ SharedInv
  BY DEF IInv
<1>2. next \in Manifest /\ baseline' = next /\ pre' = [pre EXCEPT ![t] = next]
  BY <1>1 DEF BeginPublish, TypeOK, Manifest
<1>3. TypeOK'
  BY <1>1, <1>2 DEF BeginPublish, TypeOK, tree, Phases
<1>4. \A p \in Paths : EntryOK(man[t][p], p) /\ EntryOK(prev[t][p], p) /\ EntryOK(saved[p], p)
  BY <1>1 DEF TurnInv, PathInv, Entries, SharedInv
<1>5. SharedInv'
  BY <1>2, <1>4 DEF BeginPublish, SharedInv, EntryOK, Past, Agrees, tree
<1>6. Order(t)' /\ Quiet(t)'
  BY <1>1 DEF BeginPublish, TypeOK, TurnInv, Order, Quiet, tree
<1>7. ASSUME NEW p \in Paths PROVE PathInv(t, p)'
  <2>0. PathInv(t, p) /\ pc[t] = "begin" /\ walked[t] = Scope[t]
    BY <1>1 DEF BeginPublish, Looping, TurnInv
  <2>1. pre'[t][p] = next[p] /\ pc'[t] = "beginSave"
    BY <1>1, <1>2 DEF BeginPublish, TypeOK
  <2>2. Entries(t, p)'
    BY <1>4, <2>1 DEF BeginPublish, Entries, EntryOK, Past, Agrees, tree
  <2>3. SeenStable(t, p)'
    BY <2>0 DEF BeginPublish, PathInv, SeenStable, Racy, Fixed, tree
  <2>4. ASSUME p \in Scope[t] PROVE Holds(t, p, man[t][p])
    <3>1. CASE p \in handled[t]
      BY <2>0, <3>1 DEF PathInv, BeginPart
    <3>2. CASE p \notin handled[t]
      BY <2>0, <2>4, <3>2 DEF BeginPublish, LoopDone, PathInv, BeginPart, Looked, Holds
    <3> QED
      BY <3>1, <3>2
  <2>5. MidPart(t, p)'
    BY <2>1, <2>4 DEF BeginPublish, MidPart, Holds, Fixed, tree
  <2> QED
    BY <2>1, <2>2, <2>3, <2>5 DEF PathInv, BeginPart, EndPart, EndSavePart
<1>8. TurnInv(t)'
  BY <1>6, <1>7 DEF TurnInv
<1>9. \A u \in Turns \ {t} : LocalKept(u)
  BY <1>1 DEF BeginPublish, TypeOK, LocalKept
<1> QED
  BY <1>3, <1>5, <1>8, <1>9, OneTurn DEF BeginPublish, tree

LEMMA BeginSavePreserves ==
  ASSUME IInv, NEW t \in Turns, BeginSave(t)
  PROVE  IInv'
<1> USE DEF BeginSave
<1>1. TypeOK /\ TurnInv(t) /\ SharedInv
  BY DEF IInv
<1>2. TypeOK'
  BY <1>1, Cleared DEF TypeOK, tree, Phases
<1>3. \A p \in Paths : EntryOK(pre[t][p], p)
  BY <1>1 DEF TurnInv, PathInv, Entries
<1>4. SharedInv'
  BY <1>1, <1>3 DEF SharedInv, EntryOK, Past, Agrees, tree
<1>5. Order(t)' /\ Quiet(t)'
  BY <1>1, Cleared DEF TypeOK, TurnInv, Order, Quiet, tree
<1>6. ASSUME NEW p \in Paths PROVE PathInv(t, p)'
  <2>1. pc'[t] = "running" /\ pc[t] = "beginSave" /\ PathInv(t, p)
    BY <1>1 DEF TypeOK, TurnInv
  <2>2. man'[t][p] = NoEntry /\ prev'[t][p] = NoEntry /\ seen'[t][p] = NoFile
    BY <1>1, Cleared
  <2>3. Entries(t, p)' /\ SeenStable(t, p)'
    BY <2>1, <2>2 DEF PathInv, Entries, EntryOK, Past, Agrees, SeenStable, tree
  <2>4. MidPart(t, p)'
    BY <2>1 DEF PathInv, MidPart, Holds, Fixed, tree
  <2> QED
    BY <2>1, <2>3, <2>4 DEF PathInv, BeginPart, EndPart, EndSavePart
<1>7. TurnInv(t)'
  BY <1>5, <1>6 DEF TurnInv
<1>8. \A u \in Turns \ {t} : LocalKept(u)
  BY <1>1, Cleared DEF TypeOK, LocalKept
<1> QED
  BY <1>2, <1>4, <1>7, <1>8, OneTurn DEF tree

------------------------------------------------------------------------------
(* TurnCapture::end *)
LEMMA EndStartPreserves ==
  ASSUME IInv, NEW t \in Turns, EndStart(t)
  PROVE  IInv'
<1> USE DEF EndStart, StartScan, shared
<1>1. TypeOK /\ TurnInv(t) /\ SharedInv
  BY DEF IInv
<1>2. EmptyManifest \in Manifest /\ Unseen \in [Paths -> Observed \cup {NoFile}]
  BY DEF EmptyManifest, Manifest, Unseen
<1>3. TypeOK'
  BY <1>1, <1>2 DEF TypeOK, tree, Phases
<1>4. SharedInv'
  BY <1>1 DEF SharedInv, EntryOK, Past, Agrees, tree
<1>5. Order(t)' /\ Quiet(t)'
  BY <1>1 DEF TypeOK, TurnInv, Order, Quiet, tree
<1>6. ASSUME NEW p \in Paths PROVE PathInv(t, p)'
  <2>1. /\ man'[t][p] = NoEntry /\ seen'[t][p] = NoFile
        /\ walked'[t] = {} /\ handled'[t] = {}
        /\ pc'[t] = "end" /\ pc[t] = "running" /\ PathInv(t, p) /\ changes[t] = {}
    BY <1>1 DEF TypeOK, EmptyManifest, Unseen, TurnInv, Quiet
  <2>2. Entries(t, p)' /\ SeenStable(t, p)'
    BY <2>1 DEF PathInv, Entries, EntryOK, Past, Agrees, SeenStable, tree
  <2>3. MidPart(t, p)'
    BY <2>1 DEF PathInv, MidPart, Holds, Fixed, tree
  <2>4. EndPart(t, p)'
    BY <2>1 DEF EndPart
  <2> QED
    BY <2>1, <2>2, <2>3, <2>4 DEF PathInv, BeginPart, EndSavePart
<1>7. TurnInv(t)'
  BY <1>5, <1>6 DEF TurnInv
<1>8. \A u \in Turns \ {t} : LocalKept(u)
  BY <1>1 DEF TypeOK, LocalKept
<1> QED
  BY <1>3, <1>4, <1>7, <1>8, OneTurn DEF tree

EndHandles(t, q, e) ==
  /\ pc[t] = "end"
  /\ q \in walked[t] \ handled[t]
  /\ seen[t][q] # NoFile
  /\ Handle(t, q, e)
  /\ \/ left' = left
     \/ \E h \in Contents \cup {NoEntry} : left' = [left EXCEPT ![t][q] = h]
  /\ \/ changes' = changes
     \/ changes' = [changes EXCEPT ![t] = @ \cup {q}]
  /\ store' \subseteq Contents
  /\ UNCHANGED <<tree, baseline, saved, pc, scan, prev, seen, walked, pre, held>>

LEMMA EndHandlesPreserves ==
  ASSUME IInv, NEW t \in Turns, NEW q \in Paths, NEW e \in Entry \cup {NoEntry},
         EndHandles(t, q, e), EntryOK(e, q), Reported(t, q)'
  PROVE  IInv'
<1> USE DEF EndHandles, Handle
<1>1. TypeOK /\ TurnInv(t) /\ SharedInv
  BY DEF IInv
<1>2. TypeOK'
  <2>1. man' \in [Turns -> Manifest]
    BY <1>1 DEF TypeOK, Manifest
  <2>2. handled' \in [Turns -> SUBSET Paths]
    BY <1>1 DEF TypeOK
  <2>3. changes' \in [Turns -> SUBSET Paths]
    <3>1. changes \in [Turns -> SUBSET Paths]
      BY <1>1 DEF TypeOK
    <3>2. [changes EXCEPT ![t] = @ \cup {q}] \in [Turns -> SUBSET Paths]
      BY <3>1
    <3> QED
      BY <3>1, <3>2
  <2>4. left' \in [Turns -> [Paths -> Contents \cup {NoFile, NoEntry}]]
    <3>1. left \in [Turns -> [Paths -> Contents \cup {NoFile, NoEntry}]]
      BY <1>1 DEF TypeOK
    <3>2. ASSUME NEW h \in Contents \cup {NoEntry}
          PROVE  [left EXCEPT ![t][q] = h] \in [Turns -> [Paths -> Contents \cup {NoFile, NoEntry}]]
      BY <3>1
    <3>3. CASE left' = left
      BY <3>1, <3>3
    <3>4. CASE \E h \in Contents \cup {NoEntry} : left' = [left EXCEPT ![t][q] = h]
      <4>1. PICK h \in Contents \cup {NoEntry} : left' = [left EXCEPT ![t][q] = h]
        BY <3>4
      <4> QED
        BY <3>2, <4>1
    <3> QED
      BY <3>3, <3>4
  <2> QED
    BY <1>1, <2>1, <2>2, <2>3, <2>4 DEF TypeOK, tree
<1>3. SharedInv'
  BY <1>1 DEF SharedInv, EntryOK, Past, Agrees, tree
<1>4. Order(t)' /\ Quiet(t)'
  BY <1>1 DEF TypeOK, TurnInv, Order, Quiet, tree
<1>5. ASSUME NEW p \in Paths PROVE PathInv(t, p)'
  <2>0. PathInv(t, p) /\ handled'[t] = handled[t] \cup {q}
    BY <1>1 DEF TurnInv, TypeOK
  <2>1. SeenStable(t, p)' /\ MidPart(t, p)'
    BY <2>0 DEF PathInv, SeenStable, Racy, MidPart, Holds, Fixed, tree
  <2>2. CASE p # q
    <3>1. /\ man'[t][p] = man[t][p] /\ left'[t][p] = left[t][p]
          /\ p \in handled'[t] <=> p \in handled[t]
          /\ p \in changes'[t] <=> p \in changes[t]
      BY <1>1, <2>0, <2>2 DEF TypeOK, Manifest
    <3>2. Entries(t, p)'
      BY <2>0, <3>1 DEF PathInv, Entries, EntryOK, Past, Agrees, tree
    <3>3. Reported(t, p) => Reported(t, p)'
      BY <3>1 DEF Reported, Hashed
    <3>4. EndPart(t, p)'
      BY <2>0, <3>1, <3>3 DEF PathInv, EndPart, Looked, tree
    <3> QED
      BY <2>0, <2>1, <3>2, <3>4 DEF PathInv, BeginPart, EndSavePart
  <2>3. CASE p = q
    <3>1. man'[t][p] = e /\ p \in handled'[t]
      BY <1>1, <2>0, <2>3 DEF TypeOK, Manifest
    <3>2. Entries(t, p)'
      BY <2>0, <2>3, <3>1 DEF PathInv, Entries, EntryOK, Past, Agrees, tree
    <3>3. EndPart(t, p)'
      BY <2>0, <2>3, <3>1 DEF PathInv, EndPart, tree
    <3> QED
      BY <2>0, <2>1, <3>2, <3>3 DEF PathInv, BeginPart, EndSavePart
  <2> QED
    BY <2>2, <2>3
<1>6. TurnInv(t)'
  BY <1>4, <1>5 DEF TurnInv
<1>7. \A u \in Turns \ {t} : LocalKept(u)
  BY <1>1 DEF TypeOK, LocalKept
<1> QED
  BY <1>2, <1>3, <1>6, <1>7, OneTurn DEF tree

LEMMA EndReusePreserves ==
  ASSUME IInv, NEW t \in Turns, NEW q \in Paths, EndReuse(t, q)
  PROVE  IInv'
<1>0. PICK e : e = pre[t][q]
  OBVIOUS
<1>1. TypeOK /\ TurnInv(t) /\ PathInv(t, q)
  BY DEF IInv, TurnInv
<1>2. e \in Entry \cup {NoEntry} /\ EntryOK(e, q)
  BY <1>0, <1>1 DEF TypeOK, Manifest, PathInv, Entries
<1>3. EndHandles(t, q, e)
  BY <1>0, <1>1 DEF EndReuse, EndHandles, Due, Looping, TypeOK, shared
<1>4. /\ e # NoEntry /\ ~e.racy /\ e.mtime = seen[t][q].mtime /\ q \in Scope[t]
      /\ seen[t][q] # NoFile /\ pc[t] = "end" /\ q \in walked[t] \ handled[t]
  BY <1>0 DEF EndReuse, Reusable, Due, Looping
<1>5. left[t][q] = held[t][q] /\ q \notin changes[t]
  BY <1>0, <1>1, <1>4 DEF PathInv, EndPart, Looked
<1>6. Reported(t, q)'
  BY <1>5 DEF EndReuse, Reported
<1> QED
  BY <1>2, <1>3, <1>6, EndHandlesPreserves

(* The comparison of the two hashes decides as the contents would. *)
LEMMA EndCompares ==
  ASSUME IInv, NEW t \in Turns, NEW q \in Paths, NEW e \in Entry,
         EndHandles(t, q, e), EndCompare(t, q, e), EntryOK(e, q),
         e.hash \in {left'[t][q], NoHash}, left'[t][q] \in Contents
  PROVE  IInv'
<1>1. TypeOK /\ TurnInv(t) /\ PathInv(t, q) /\ Order(t)
  BY DEF IInv, TurnInv
<1>2. q \in Scope[t] /\ pc[t] = "end" /\ q \in walked[t] \ handled[t]
  BY <1>1 DEF EndHandles, Order
<1>3. Holds(t, q, pre[t][q])
  BY <1>1, <1>2 DEF PathInv, MidPart
<1>4. q \notin changes[t]
  BY <1>1, <1>2 DEF PathInv, EndPart
<1>5. q \in changes'[t] <=> Differs(pre[t][q], e)
  BY <1>1, <1>4 DEF EndCompare, TypeOK
<1>6. man'[t][q] = e /\ pre' = pre /\ held' = held
  BY <1>1 DEF EndHandles, Handle, TypeOK, Manifest
<1>7. left'[t][q] # held[t][q] => q \in changes'[t]
  BY <1>3, <1>5 DEF Differs, Holds
<1>8. (q \in changes'[t] /\ Hashed(t, q)' /\ q \notin Ignorable) => left'[t][q] # held[t][q]
  BY <1>3, <1>5, <1>6 DEF Differs, Holds, Hashed
<1>9. Reported(t, q)'
  BY <1>6, <1>7, <1>8 DEF Reported
<1> QED
  BY <1>9, EndHandlesPreserves

LEMMA EndCapturePreserves ==
  ASSUME IInv, NEW t \in Turns, NEW q \in Paths, EndCapture(t, q)
  PROVE  IInv'
<1> DEFINE o == seen[t][q]
<1>1. TypeOK /\ TurnInv(t) /\ PathInv(t, q) /\ scan[t] <= clock
  BY DEF IInv, TurnInv, Order
<1>2. o # NoFile /\ pc[t] = "end" /\ q \in walked[t] \ handled[t]
  BY <1>1 DEF EndCapture, Due, Looping, TypeOK
<1>3. o \in Observed
  BY <1>1, <1>2 DEF TypeOK
<1>4. CASE EndCompare(t, q, StatEntry(t, o)) /\ UNCHANGED <<store, left>>
  <2>0. PICK e : e = StatEntry(t, o)
    OBVIOUS
  <2>1. e \in Entry /\ EntryOK(e, q)
    BY <1>1, <1>2, <2>0, StatEntryOK
  <2>2. EndHandles(t, q, e) /\ EndCompare(t, q, e)
    BY <1>1, <1>2, <1>4, <2>0 DEF EndCapture, EndHandles, EndCompare, TypeOK
  <2>3. left'[t][q] = o.c /\ o.c \in Contents
    BY <1>1, <1>2, <1>3, <1>4 DEF PathInv, EndPart, Looked, Observed
  <2>4. e.hash = NoHash
    BY <2>0 DEF StatEntry
  <2> QED
    BY <2>1, <2>2, <2>3, <2>4, EndCompares
<1>5. ASSUME NEW kept \in BOOLEAN, file[q] # NoFile,
             EndCompare(t, q, ReadEntry(t, o, file[q].c, kept)),
             store' \in {store \cup {file[q].c}, store},
             left' = [left EXCEPT ![t][q] = file[q].c]
      PROVE  IInv'
  <2>0. PICK e : e = ReadEntry(t, o, file[q].c, kept)
    OBVIOUS
  <2>1. e \in Entry /\ EntryOK(e, q)
    BY <1>1, <1>2, <1>5, <2>0, ReadEntryOK
  <2>2. file[q].c \in Contents
    BY <1>1, <1>5 DEF TypeOK, File
  <2>3. EndHandles(t, q, e) /\ EndCompare(t, q, e)
    BY <1>1, <1>2, <1>5, <2>0, <2>2 DEF EndCapture, EndHandles, EndCompare, TypeOK
  <2>4. left'[t][q] = file[q].c /\ e.hash = file[q].c
    BY <1>1, <1>5, <2>0 DEF TypeOK, ReadEntry
  <2> QED
    BY <2>1, <2>2, <2>3, <2>4, EndCompares
<1>6. CASE /\ Handle(t, q, NoEntry)
           /\ left' = [left EXCEPT ![t][q] = NoEntry]
           /\ UNCHANGED <<store, changes>>
  <2>1. EntryOK(NoEntry, q)
    BY DEF EntryOK, Past, Agrees
  <2>2. EndHandles(t, q, NoEntry)
    BY <1>1, <1>2, <1>6 DEF EndCapture, EndHandles, TypeOK
  <2>3. Reported(t, q)'
    BY <1>1, <1>6 DEF TypeOK, Reported
  <2> QED
    BY <2>1, <2>2, <2>3, EndHandlesPreserves
<1> QED
  <2>1. ASSUME ~Capped(t), file[q] # NoFile, NEW put \in BOOLEAN,
               EndCompare(t, q, ReadEntry(t, o, file[q].c, put /\ file[q].c \notin Big)),
               store' = store \cup (IF put /\ file[q].c \notin Big THEN {file[q].c} ELSE {}),
               left' = [left EXCEPT ![t][q] = file[q].c]
        PROVE  IInv'
    <3>1. (put /\ file[q].c \notin Big) \in BOOLEAN
      OBVIOUS
    <3>2. store' \in {store \cup {file[q].c}, store}
      BY <2>1
    <3>3. PICK kept \in BOOLEAN : kept = (put /\ file[q].c \notin Big)
      BY <3>1
    <3> QED
      BY <1>5, <2>1, <3>2, <3>3
  <2> QED
    BY <1>4, <1>6, <2>1 DEF EndCapture

LEMMA EndPublishPreserves ==
  ASSUME IInv, NEW t \in Turns, EndPublish(t)
  PROVE  IInv'
<1> DEFINE next == [p \in Paths |-> IF p \in Scope[t] THEN man[t][p] ELSE baseline[p]]
<1>1. TypeOK /\ TurnInv(t) /\ SharedInv
  BY DEF IInv
<1>2. next \in Manifest /\ baseline' = next
  BY <1>1 DEF EndPublish, TypeOK, Manifest
<1>3. TypeOK'
  <2>1. changes' \in [Turns -> SUBSET Paths]
    BY <1>1 DEF EndPublish, TypeOK, Deleted
  <2> QED
    BY <1>1, <1>2, <2>1 DEF EndPublish, TypeOK, tree, Phases
<1>4. \A p \in Paths : EntryOK(man[t][p], p) /\ EntryOK(baseline[p], p) /\ EntryOK(saved[p], p)
  BY <1>1 DEF TurnInv, PathInv, Entries, SharedInv
<1>5. SharedInv'
  BY <1>2, <1>4 DEF EndPublish, SharedInv, EntryOK, Past, Agrees, tree
<1>6. Order(t)' /\ Quiet(t)'
  BY <1>1 DEF EndPublish, TypeOK, TurnInv, Order, Quiet, tree
<1>7. ASSUME NEW p \in Paths PROVE PathInv(t, p)'
  <2>0. PathInv(t, p) /\ pc[t] = "end" /\ walked[t] = Scope[t]
    BY <1>1 DEF EndPublish, Looping, TurnInv
  <2>1. pc'[t] = "endSave" /\ changes'[t] = changes[t] \cup Deleted(t)
    BY <1>1 DEF EndPublish, TypeOK
  <2>2. Entries(t, p)' /\ SeenStable(t, p)'
    BY <2>0 DEF EndPublish, PathInv, Entries, EntryOK, Past, Agrees, SeenStable, Racy, Fixed, tree
  <2>3. ASSUME p \in Scope[t] PROVE Reported(t, p)'
    <3>0. Holds(t, p, pre[t][p])
      BY <2>0, <2>3 DEF PathInv, MidPart
    <3>1. CASE seen[t][p] # NoFile
      <4>1. p \in handled[t]
        BY <2>3, <3>1 DEF EndPublish, LoopDone
      <4>2. Reported(t, p)
        BY <2>0, <4>1 DEF PathInv, EndPart
      <4>3. p \in changes'[t] <=> p \in changes[t]
        BY <2>1, <3>1 DEF Deleted
      <4> QED
        BY <4>2, <4>3 DEF EndPublish, Reported, Hashed
    <3>2. CASE seen[t][p] = NoFile
      <4>1. p \in walked[t] \ handled[t] /\ p \notin changes[t]
        BY <2>0, <2>3, <3>2 DEF PathInv, EndPart
      <4>2. p \notin Ignorable => left[t][p] = NoFile
        BY <2>0, <3>2, <4>1 DEF PathInv, EndPart, Looked
      <4>3. p \in changes'[t] <=> pre[t][p] # NoEntry
        BY <2>1, <2>3, <3>2, <4>1 DEF Deleted
      <4>4. (pre[t][p] # NoEntry /\ pre[t][p].hash # NoHash) => held[t][p] # NoFile
        <5>1. (pre[t][p] # NoEntry /\ pre[t][p].hash # NoHash) => pre[t][p].hash \in Contents
          BY <1>1 DEF TypeOK, Manifest, Entry
        <5> QED
          BY <3>0, <5>1 DEF Holds
      <4> QED
        BY <3>0, <4>2, <4>3, <4>4 DEF EndPublish, Reported, Hashed, Holds
    <3> QED
      BY <3>1, <3>2
  <2>4. EndSavePart(t, p)'
    BY <2>3 DEF EndSavePart
  <2> QED
    BY <2>1, <2>2, <2>4 DEF PathInv, BeginPart, MidPart, EndPart
<1>8. TurnInv(t)'
  BY <1>6, <1>7 DEF TurnInv
<1>9. \A u \in Turns \ {t} : LocalKept(u)
  BY <1>1 DEF EndPublish, TypeOK, LocalKept
<1> QED
  BY <1>3, <1>5, <1>8, <1>9, OneTurn DEF EndPublish, tree

LEMMA EndSavePreserves ==
  ASSUME IInv, NEW t \in Turns, EndSave(t)
  PROVE  IInv'
<1> USE DEF EndSave
<1>1. TypeOK /\ TurnInv(t) /\ SharedInv
  BY DEF IInv
<1>2. /\ EmptyManifest \in Manifest
      /\ Unseen \in [Paths -> Contents \cup {NoFile}]
      /\ Unseen \in [Paths -> Contents \cup {NoFile, NoEntry}]
  BY DEF EmptyManifest, Manifest, Unseen
<1>3. TypeOK'
  BY <1>1, <1>2, Cleared DEF TypeOK, tree, Phases
<1>4. SharedInv'
  BY <1>1 DEF SharedInv, EntryOK, Past, Agrees, tree
<1>5. Order(t)' /\ Quiet(t)'
  BY <1>1, Cleared DEF TypeOK, TurnInv, Order, Quiet, tree
<1>6. ASSUME NEW p \in Paths PROVE PathInv(t, p)'
  <2>1. pc'[t] = "over" /\ pre'[t][p] = NoEntry
    BY <1>1 DEF TypeOK, EmptyManifest
  <2>2. man'[t][p] = NoEntry /\ prev'[t][p] = NoEntry /\ seen'[t][p] = NoFile
    BY <1>1, Cleared
  <2>3. Entries(t, p)' /\ SeenStable(t, p)'
    BY <2>1, <2>2 DEF Entries, EntryOK, Past, Agrees, SeenStable
  <2> QED
    BY <2>1, <2>3 DEF PathInv, BeginPart, MidPart, EndPart, EndSavePart
<1>7. TurnInv(t)'
  BY <1>5, <1>6 DEF TurnInv
<1>8. \A u \in Turns \ {t} : LocalKept(u)
  BY <1>1, Cleared DEF TypeOK, LocalKept
<1> QED
  BY <1>3, <1>4, <1>7, <1>8, OneTurn DEF tree

LEMMA RestartPreserves ==
  ASSUME IInv, Restart
  PROVE  IInv'
<1> USE DEF Restart
<1>1. TypeOK /\ SharedInv
  BY DEF IInv
<1>2. /\ EmptyManifest \in Manifest
      /\ Unseen \in [Paths -> Contents \cup {NoFile}]
      /\ Unseen \in [Paths -> Observed \cup {NoFile}]
      /\ Unseen \in [Paths -> Contents \cup {NoFile, NoEntry}]
  BY DEF EmptyManifest, Manifest, Unseen
<1>3. TypeOK'
  BY <1>1, <1>2 DEF TypeOK, tree, Phases
<1>4. SharedInv'
  BY <1>1 DEF SharedInv, EntryOK, Past, Agrees, tree
<1>5. ASSUME NEW t \in Turns PROVE TurnInv(t)'
  <2>1. /\ pc'[t] \in {"idle", "over"} /\ scan'[t] = 0 /\ changes'[t] = {}
        /\ walked'[t] = {} /\ handled'[t] = {}
    BY DEF Restart
  <2>2. Order(t)' /\ Quiet(t)'
    BY <1>1, <2>1 DEF TypeOK, Order, Quiet, tree
  <2>3. ASSUME NEW p \in Paths PROVE PathInv(t, p)'
    <3>1. /\ prev'[t][p] = NoEntry /\ man'[t][p] = NoEntry /\ pre'[t][p] = NoEntry
          /\ seen'[t][p] = NoFile
      BY DEF EmptyManifest, Unseen
    <3>2. Entries(t, p)' /\ SeenStable(t, p)'
      BY <3>1 DEF Entries, EntryOK, Past, Agrees, SeenStable
    <3> QED
      BY <2>1, <3>2 DEF PathInv, BeginPart, MidPart, EndPart, EndSavePart
  <2> QED
    BY <2>2, <2>3 DEF TurnInv
<1> QED
  BY <1>3, <1>4, <1>5 DEF IInv, tree

LEMMA StutterPreserves == IInv /\ UNCHANGED vars => IInv'
<1> SUFFICES ASSUME IInv, UNCHANGED vars PROVE IInv'
  OBVIOUS
<1> USE DEF vars, tree, shared, local
<1>1. TypeOK'
  BY DEF IInv, TypeOK
<1>2. SharedInv'
  BY DEF IInv, SharedInv, EntryOK, Past, Agrees
<1>3. ASSUME NEW u \in Turns PROVE TurnInv(u)'
  BY OthersKeep DEF IInv, LocalKept
<1> QED
  BY <1>1, <1>2, <1>3 DEF IInv

------------------------------------------------------------------------------
(* The strengthened invariant: every entry vouches only for what it has seen,
   and every turn's records are of what its two scans looked at. *)
THEOREM Inductive == PreservingMoves = FALSE => (Spec => []IInv)
<1> SUFFICES ASSUME PreservingMoves = FALSE PROVE Spec => []IInv
  OBVIOUS
<1>1. Init => IInv
  BY InitIInv
<1>2. IInv /\ [Next]_vars => IInv'
  <2> SUFFICES ASSUME IInv, [Next]_vars PROVE IInv'
    OBVIOUS
  <2>1. CASE World
    BY <2>1, WorldActs, WorldPreserves
  <2>2. CASE Restart
    BY <2>2, RestartPreserves
  <2>3. ASSUME NEW t \in Turns, Begin(t) PROVE IInv'
    BY <2>3, BeginStartPreserves, BeginFailPreserves, BeginPublishPreserves, BeginSavePreserves,
       BeginReusePreserves, BeginCapturePreserves DEF Begin
  <2>4. ASSUME NEW t \in Turns, End(t) PROVE IInv'
    BY <2>4, EndStartPreserves, EndPublishPreserves, EndSavePreserves,
       EndReusePreserves, EndCapturePreserves DEF End
  <2>5. ASSUME NEW t \in Turns, NEW p \in Paths, Stat(t, p) PROVE IInv'
    BY <2>5, StatPreserves
  <2>6. CASE UNCHANGED vars
    BY <2>6, StutterPreserves
  <2> QED
    BY <2>1, <2>2, <2>3, <2>4, <2>5, <2>6 DEF Next
<1> QED
  BY <1>1, <1>2, PTL DEF Spec

(* The variables keep their types. *)
THEOREM TypeCorrect == PreservingMoves = FALSE => (Spec => []TypeOK)
<1>1. IInv => TypeOK
  BY DEF IInv
<1> QED
  BY <1>1, Inductive, PTL

(* The stat-only reuse is sound: no manifest vouches for a content the file
   does not have (TurnCapture::reusable). *)
THEOREM ReuseSound == PreservingMoves = FALSE => (Spec => []Truthful)
<1>1. IInv => Truthful
  BY DEF IInv, SharedInv, TurnInv, PathInv, Entries, EntryOK, Truthful
<1> QED
  BY <1>1, Inductive, PTL

(* Every file that differs between the two scans of a turn is in its change
   set (TurnCapture::end). *)
THEOREM ChangesComplete == PreservingMoves = FALSE => (Spec => []NoChangeMissed)
<1>1. IInv => NoChangeMissed
  BY DEF IInv, TurnInv, PathInv, EndSavePart, Reported, NoChangeMissed, Settled
<1> QED
  BY <1>1, Inductive, PTL

(* And nothing else is, where both contents are known. *)
THEOREM ChangesExact == PreservingMoves = FALSE => (Spec => []NoPhantomChange)
<1>1. IInv => NoPhantomChange
  BY DEF IInv, TurnInv, PathInv, EndSavePart, Reported, NoPhantomChange, Settled
<1> QED
  BY <1>1, Inductive, PTL
==============================================================================
