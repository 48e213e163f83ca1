---------------------------- MODULE SwarmProofs ----------------------------
(***************************************************************************)
(* For any plan, run, resumed or run again after a crash: a checkpoint     *)
(* claims no more than was done, no agent is dispatched before what it     *)
(* depends on has completed, and none of a loop again after a unit behind  *)
(* it, branches are merged in the order of the dependencies, and a success *)
(* forgot no unit.                                                         *)
(***************************************************************************)
EXTENDS Swarm, TLAPS

StatusTypes ==
  /\ status \in [Ids -> Statuses]
  /\ saved \in [status : [Ids -> Statuses], spawned : SUBSET Workers]
  /\ spawned \subseteq Workers
  /\ done \in [Ids -> Nat]

(* Completed, in memory or on disk, is what completed. *)
Honest ==
  /\ \A u \in Ids : status[u] = "Completed" => done[u] > 0
  /\ CheckpointHonest

HonestInv == StatusTypes /\ Honest

(* The steps that report an agent's end. *)
LEMMA EndsCounts ==
  ASSUME StatusTypes, NEW u \in Ids, NEW ok \in BOOLEAN, NEW kept \in BOOLEAN, Ends(u, ok, kept)
  PROVE  /\ done' \in [Ids -> Nat]
         /\ \A v \in Ids : done[v] <= done'[v]
         /\ ok => done'[u] > 0
<1>1. done' = IF ok THEN [done EXCEPT ![u] = @ + 1] ELSE done
  BY DEF Ends
<1>2. CASE ok
  <2>1. \A v \in Ids : done[v] \in Nat /\ done'[v] = IF v = u THEN done[v] + 1 ELSE done[v]
    BY <1>1, <1>2 DEF StatusTypes
  <2> QED BY <1>1, <1>2, <2>1 DEF StatusTypes
<1>3. CASE ~ok
  BY <1>1, <1>3 DEF StatusTypes
<1> QED BY <1>2, <1>3

LEMMA RecordedHonestly ==
  ASSUME HonestInv, NEW u \in Ids, NEW ok \in BOOLEAN, NEW kept \in BOOLEAN,
         Ends(u, ok, kept), status' = Recorded(u, ok)
  PROVE  /\ status' \in [Ids -> Statuses] /\ done' \in [Ids -> Nat]
         /\ \A v \in Ids : status'[v] = "Completed" => done'[v] > 0
         /\ \A v \in Ids : saved.status[v] = "Completed" => done'[v] > 0
<1>1. /\ status' = [status EXCEPT ![u] = IF ok THEN "Completed" ELSE "HardFailure"]
      /\ status \in [Ids -> Statuses]
  BY DEF Recorded, HonestInv, StatusTypes
<1>2. status' \in [Ids -> Statuses]
  BY <1>1 DEF Statuses
<1>3. \A v \in Ids : status'[v] = "Completed" => status[v] = "Completed" \/ (v = u /\ ok)
  BY <1>1
<1>4. /\ done' \in [Ids -> Nat] /\ \A v \in Ids : done[v] \in Nat /\ done[v] <= done'[v]
      /\ ok => done'[u] > 0
  BY EndsCounts DEF HonestInv, StatusTypes
<1>5. \A v \in Ids : done'[v] \in Nat
  BY <1>4
<1> QED BY <1>2, <1>3, <1>4, <1>5 DEF HonestInv, Honest, CheckpointHonest

(* Nothing else completes. *)
Unfinished ==
  /\ UNCHANGED <<saved, done, spawned>>
  /\ \/ UNCHANGED status
     \/ \E u \in Ids, s \in {"Running", "HardFailure"} : status' = [status EXCEPT ![u] = s]

LEMMA UnfinishedHonest ==
  ASSUME HonestInv, Unfinished
  PROVE  HonestInv'
<1>1. CASE UNCHANGED status
  BY <1>1 DEF Unfinished, HonestInv, Honest, StatusTypes, CheckpointHonest
<1>2. CASE \E u \in Ids, s \in {"Running", "HardFailure"} : status' = [status EXCEPT ![u] = s]
  <2>1. PICK u \in Ids, s \in {"Running", "HardFailure"} : status' = [status EXCEPT ![u] = s]
    BY <1>2
  <2>2. status' \in [Ids -> Statuses]
    BY <2>1 DEF HonestInv, StatusTypes, Statuses
  <2>3. \A v \in Ids : status'[v] = "Completed" => status[v] = "Completed"
    BY <2>1 DEF HonestInv, StatusTypes
  <2> QED BY <2>2, <2>3 DEF Unfinished, HonestInv, Honest, StatusTypes, CheckpointHonest
<1> QED BY <1>1, <1>2 DEF Unfinished

LEMMA FreshTypes ==
  /\ Fresh \in [status : [Ids -> Statuses], spawned : SUBSET Workers]
  /\ \A u \in Ids : Fresh.status[u] # "Completed"
BY DEF Fresh, Statuses

LEMMA HonestStep == HonestInv /\ [Next]_vars => HonestInv'
<1> SUFFICES ASSUME HonestInv, [Next]_vars PROVE HonestInv'
  OBVIOUS
<1> USE DEF runVars, tierVars, stateVars, loopVars, mergeVars, diskVars
<1>1. ASSUME NEW u \in Units, NEW ok \in BOOLEAN, NEW kept \in BOOLEAN,
             Finish(u, ok, kept) \/ FinishPass(u, ok, kept)
      PROVE  HonestInv'
  <2>1. /\ u \in Ids /\ Ends(u, ok, kept) /\ status' = Recorded(u, ok) /\ UNCHANGED spawned
        /\ saved' = [status |-> status', spawned |-> spawned] \/ saved' = saved
    BY <1>1 DEF Finish, FinishPass, Ids
  <2> QED BY <2>1, RecordedHonestly DEF HonestInv, StatusTypes, Honest, CheckpointHonest
<1>2. ASSUME NEW w \in Workers, NEW ok \in BOOLEAN, NEW kept \in BOOLEAN, FinishWorker(w, ok, kept)
      PROVE  HonestInv'
  <2>1. /\ w \in Ids /\ Ends(w, ok, kept) /\ status' = Recorded(w, ok)
        /\ spawned' = spawned \cup {w} /\ saved' = [status |-> status', spawned |-> spawned']
    BY <1>2 DEF FinishWorker, Ids
  <2> QED BY <2>1, RecordedHonestly DEF HonestInv, StatusTypes, Honest, CheckpointHonest
<1>3. ASSUME NEW u \in Units, NEW ok \in BOOLEAN, NEW kept \in BOOLEAN, FinishParallel(u, ok, kept)
      PROVE  HonestInv'
  <2>1. u \in Ids /\ Ends(u, ok, kept) /\ UNCHANGED <<status, spawned, saved>>
    BY <1>3 DEF FinishParallel, Ids
  <2>2. /\ done' \in [Ids -> Nat]
        /\ \A v \in Ids : done[v] \in Nat /\ done'[v] \in Nat /\ done[v] <= done'[v]
    BY <2>1, EndsCounts DEF HonestInv, StatusTypes
  <2> QED BY <2>1, <2>2 DEF HonestInv, StatusTypes, Honest, CheckpointHonest
<1>4. CASE Start
  BY <1>4, FreshTypes DEF Start, HonestInv, StatusTypes, Honest, CheckpointHonest
<1>5. CASE Crash
  <2>1. saved' \in {saved, Fresh} /\ UNCHANGED <<status, spawned, done>>
    BY <1>5 DEF Crash
  <2> QED BY <2>1, FreshTypes DEF HonestInv, StatusTypes, Honest, CheckpointHonest
<1>6. ASSUME NEW u \in Units, SkipUnmet(u) \/ Launch(u) \/ LaunchPass(u)
      PROVE  HonestInv'
  BY <1>6, UnfinishedHonest DEF SkipUnmet, Launch, LaunchPass, Unfinished, Ids
<1>7. ASSUME NEW w \in Workers, LaunchWorker(w)
      PROVE  HonestInv'
  BY <1>7, UnfinishedHonest DEF LaunchWorker, Unfinished, Ids
<1>8. CASE \/ NextTier \/ EnterLoop \/ LoopsDone \/ PassOver \/ JudgeStops \/ MergeNext
           \/ Complete \/ WaveFails \/ Fails \/ Expire \/ UNCHANGED vars
           \/ \E silent \in BOOLEAN, v \in Verdicts : Judge(silent, v)
  <2>1. Unfinished
    BY <1>8 DEF NextTier, EnterLoop, LoopsDone, PassOver, JudgeStops, MergeNext, Complete,
                WaveFails, Fails, Expire, Judge, Unfinished, vars
  <2> QED BY <2>1, UnfinishedHonest
<1> QED BY <1>1, <1>2, <1>3, <1>4, <1>5, <1>6, <1>7, <1>8 DEF Next, Step

(* A checkpoint marks completed only what completed, whatever crashed, was resumed or
   run afresh (execution_state.rs:181). *)
THEOREM CheckpointTrue == Spec => []CheckpointHonest
<1>1. Init => HonestInv
  BY FreshTypes DEF Init, HonestInv, StatusTypes, Honest, CheckpointHonest, Fresh, Statuses
<1>2. HonestInv => CheckpointHonest
  BY DEF HonestInv, Honest
<1> QED BY <1>1, <1>2, HonestStep, PTL DEF Spec

---------------------------------------------------------------------------
(* While a loop runs, what its body depends on has completed, and only the body is
   at work. *)
PassInv ==
  /\ StatusTypes
  /\ phase \in {"pass", "judge"} => Ready
  /\ phase = "pass" => left \cup running \subseteq Loop.body
  /\ phase \in {"enter", "judge"} => running = {}

LEMMA PassStep == PassInv /\ StatusTypes' /\ [Next]_vars => PassInv'
<1> SUFFICES ASSUME PassInv, StatusTypes', [Next]_vars PROVE PassInv'
  OBVIOUS
<1> USE DEF runVars, tierVars, stateVars, loopVars, mergeVars, diskVars
<1>1. CASE \/ phase' \notin {"pass", "judge", "enter"}
  BY <1>1 DEF PassInv
<1>2. CASE phase = "pass" /\ phase' \in {"pass", "judge", "enter"}
  <2>1. ASSUME NEW u \in Units, LaunchPass(u)
        PROVE  PassInv'
    BY <1>2, <2>1 DEF LaunchPass, PassInv, Ready, OutsideDeps, Deps, Members, Loop, Loops
  <2>2. ASSUME NEW u \in Units, NEW ok \in BOOLEAN, NEW kept \in BOOLEAN, FinishPass(u, ok, kept)
        PROVE  PassInv'
    <3>1. /\ u \in running /\ running' = running \ {u} /\ UNCHANGED <<left, plan, lp, phase>>
          /\ status' = [status EXCEPT ![u] = IF ok THEN "Completed" ELSE "HardFailure"]
      BY <2>2 DEF FinishPass, Ends, Recorded
    <3>2. u \in Loop.body
      BY <1>2, <3>1 DEF PassInv
    <3>3. \A d \in OutsideDeps : status'[d] = "Completed"
      <4>1. \A d \in OutsideDeps : d # u /\ status[d] = "Completed"
        BY <1>2, <3>2 DEF PassInv, Ready, OutsideDeps
      <4>2. \A d : d # u /\ status[d] = "Completed" => status'[d] = "Completed"
        BY <3>1 DEF PassInv, StatusTypes
      <4> QED BY <4>1, <4>2
    <3> QED BY <1>2, <3>1, <3>3 DEF PassInv, Ready, OutsideDeps, Deps, Members, Loop, Loops
  <2>3. CASE PassOver
    BY <1>2, <2>3 DEF PassOver, Quiet, PassInv, Ready, OutsideDeps, Deps, Members, Loop, Loops
  <2>4. CASE Expire \/ UNCHANGED vars
    BY <1>2, <2>4 DEF Expire, vars, PassInv, Ready, OutsideDeps, Deps, Members, Loop, Loops
  <2> QED BY <1>2, <2>1, <2>2, <2>3, <2>4
    DEF Next, Step, NextTier, EnterLoop, LoopsDone, JudgeStops, MergeNext, Complete, SkipUnmet, Launch,
        LaunchWorker, Finish, FinishParallel, FinishWorker, Judge, WaveFails, Fails, Start, Crash, Bail
<1>3. CASE phase \in {"enter", "judge"} /\ phase' \in {"pass", "judge", "enter"}
  <2>1. CASE EnterLoop
    BY <1>3, <2>1 DEF EnterLoop, NextLoop, Bail, PassInv, Ready, OutsideDeps, Deps, Members, Loop, Loops
  <2>2. ASSUME NEW silent \in BOOLEAN, NEW v \in Verdicts, Judge(silent, v)
        PROVE  PassInv'
    BY <1>3, <2>2 DEF Judge, NextLoop, Another, PassInv, Ready, OutsideDeps, Deps, Members, Loop, Loops
  <2>3. CASE JudgeStops
    BY <1>3, <2>3 DEF JudgeStops, NextLoop, Bail, PassInv
  <2>4. CASE Expire \/ UNCHANGED vars
    BY <1>3, <2>4 DEF Expire, vars, PassInv, Ready, OutsideDeps, Deps, Members, Loop, Loops
  <2>5. ~(\/ NextTier \/ LoopsDone \/ PassOver \/ MergeNext \/ Complete \/ WaveFails \/ Fails
          \/ Start \/ Crash)
    BY <1>3 DEF NextTier, LoopsDone, PassOver, MergeNext, Complete, WaveFails, Fails, Start, Crash, Bail
  <2>6. ~\E u \in Units : SkipUnmet(u) \/ Launch(u) \/ LaunchPass(u)
    BY <1>3 DEF SkipUnmet, Launch, LaunchPass
  <2>7. ~\E u \in Ids, ok, kept \in BOOLEAN :
          Finish(u, ok, kept) \/ FinishParallel(u, ok, kept) \/ FinishPass(u, ok, kept) \/ FinishWorker(u, ok, kept)
    BY <1>3 DEF Finish, FinishParallel, FinishPass, FinishWorker
  <2>8. ~\E w \in Workers : LaunchWorker(w)
    BY <1>3 DEF LaunchWorker
  <2> QED BY <2>1, <2>2, <2>3, <2>4, <2>5, <2>6, <2>7, <2>8 DEF Next, Step, Ids
<1>4. CASE phase \notin {"pass", "judge", "enter"} /\ phase' \in {"pass", "judge", "enter"}
  <2>1. ~(\/ EnterLoop \/ LoopsDone \/ PassOver \/ JudgeStops \/ MergeNext \/ Complete \/ WaveFails
          \/ Fails \/ Start \/ Crash \/ Expire)
    BY <1>4 DEF EnterLoop, LoopsDone, PassOver, JudgeStops, MergeNext, Complete, WaveFails, Fails,
                Start, Crash, Expire, Bail
  <2>2. ~\E u \in Units : SkipUnmet(u) \/ Launch(u) \/ LaunchPass(u)
    BY <1>4 DEF SkipUnmet, Launch, LaunchPass
  <2>3. ~\E u \in Ids, ok, kept \in BOOLEAN :
          Finish(u, ok, kept) \/ FinishParallel(u, ok, kept) \/ FinishPass(u, ok, kept) \/ FinishWorker(u, ok, kept)
    BY <1>4 DEF Finish, FinishParallel, FinishPass, FinishWorker
  <2>4. ~\E w \in Workers : LaunchWorker(w)
    BY <1>4 DEF LaunchWorker
  <2>5. ~\E silent \in BOOLEAN, v \in Verdicts : Judge(silent, v)
    BY <1>4 DEF Judge
  <2>6. NextTier \/ UNCHANGED vars
    BY <2>1, <2>2, <2>3, <2>4, <2>5 DEF Next, Step, Ids
  <2> QED BY <1>4, <2>6 DEF NextTier, Quiet, PassInv, vars
<1> QED BY <1>1, <1>2, <1>3, <1>4

LEMMA DispatchStep ==
  ASSUME PassInv, [Next]_vars, NEW u \in (running' \ running) \cap Units, NEW d \in Deps(u)
  PROVE  status[d] = "Completed" \/ (phase = "pass" /\ d \in Loop.body)
<1> USE DEF runVars, tierVars, stateVars, loopVars, mergeVars, diskVars
<1>1. ASSUME NEW v \in Units, Launch(v)
      PROVE  status[d] = "Completed"
  BY <1>1 DEF Launch, Unmet
<1>2. ASSUME NEW v \in Units, LaunchPass(v)
      PROVE  status[d] = "Completed" \/ (phase = "pass" /\ d \in Loop.body)
  <2>1. u \in Loop.body /\ phase = "pass" /\ Ready
    BY <1>2 DEF LaunchPass, PassInv
  <2> QED BY <2>1 DEF Ready, OutsideDeps
<1>3. ~\E w \in Workers : LaunchWorker(w)
  BY DisjointAssumption DEF LaunchWorker
<1>4. ~(\/ NextTier \/ EnterLoop \/ LoopsDone \/ PassOver \/ JudgeStops \/ MergeNext \/ Complete
        \/ WaveFails \/ Fails \/ Start \/ Crash \/ Expire \/ UNCHANGED vars)
  BY DEF NextTier, EnterLoop, NextLoop, LoopsDone, PassOver, JudgeStops, MergeNext, Complete, WaveFails,
         Fails, Start, Crash, Bail, Expire, vars
<1>5. ~\E v \in Units : SkipUnmet(v)
  BY DEF SkipUnmet
<1>6. ~\E v \in Ids, ok, kept \in BOOLEAN :
        Finish(v, ok, kept) \/ FinishParallel(v, ok, kept) \/ FinishPass(v, ok, kept) \/ FinishWorker(v, ok, kept)
  <2>1. ASSUME NEW v \in Ids, NEW ok \in BOOLEAN, NEW kept \in BOOLEAN, Ends(v, ok, kept)
        PROVE  FALSE
    <3>1. running' = running \ {v}
      BY <2>1 DEF Ends
    <3> QED BY <3>1
  <2> QED BY <2>1 DEF Finish, FinishParallel, FinishPass, FinishWorker
<1>7. ~\E silent \in BOOLEAN, v \in Verdicts : Judge(silent, v)
  BY DEF Judge, NextLoop, Another
<1> QED BY <1>1, <1>2, <1>3, <1>4, <1>5, <1>6, <1>7 DEF Next, Step, Ids

(* No agent of any plan is dispatched before everything it depends on, outside its own
   loop body, has completed (pipeline.rs:264, pipeline.rs:845). *)
THEOREM DependenciesFirst == Spec => RunsAfterDeps
<1>1. Init => HonestInv /\ PassInv
  BY FreshTypes DEF Init, HonestInv, StatusTypes, Honest, CheckpointHonest, Fresh, Statuses, PassInv
<1>2. HonestInv /\ PassInv /\ [Next]_vars => (HonestInv /\ PassInv)'
  BY HonestStep, PassStep DEF HonestInv
<1>3. PassInv /\ [Next]_vars =>
        [\A u \in (running' \ running) \cap Units :
           \A d \in Deps(u) : \/ status[d] = "Completed"
                              \/ phase = "pass" /\ d \in Loop.body]_vars
  BY DispatchStep
<1> QED BY <1>1, <1>2, <1>3, PTL DEF Spec, RunsAfterDeps
---------------------------------------------------------------------------
(* What an action reads by number is there: the loop that runs, the manifest that
   is merged next. *)
TypeInv ==
  /\ TypeOK
  /\ lp # 0 /\ next # 0
  /\ phase \in {"pass", "judge"} => lp <= Len(Loops)

Blocks == [body : SUBSET Units, stacked : BOOLEAN, max : Nat, stability : Nat, irrec : Nat]

LEMMA PlanTypes ==
  ASSUME plan \in Plans
  PROVE  /\ Members \subseteq Units
         /\ Loops \in Seq(Blocks)
         /\ \A i \in DOMAIN Loops : Loops[i].body \subseteq Units
<1>1. plan \in PlanType
  BY PlansAssumption
<1>2. Members \subseteq Units
  BY <1>1 DEF PlanType, Members
<1>3. Loops \in Seq(Blocks)
  BY <1>1 DEF PlanType, Loops, Blocks
<1>4. \A i \in DOMAIN Loops : Loops[i] \in Blocks
  BY <1>3
<1>5. \A i \in DOMAIN Loops : Loops[i].body \subseteq Units
  BY <1>4 DEF Blocks
<1> QED BY <1>2, <1>3, <1>5

Reported == [unit : Ids, ok : BOOLEAN, on : {"none", "branch", "chain"}, tip : SUBSET Work]

LEMMA ReportAdded ==
  ASSUME manifests \in Seq(Reported), NEW m \in Reported, manifests' = Append(manifests, m)
  PROVE  manifests' \in Seq(Reported) /\ Len(manifests') # 0
  OBVIOUS

(* What an agent's end leaves behind. *)
LEMMA EndsTypes ==
  ASSUME TypeOK, NEW u \in Ids, NEW ok \in BOOLEAN, NEW kept \in BOOLEAN, Ends(u, ok, kept)
  PROVE  /\ done' \in [Ids -> Nat] /\ running' \subseteq Ids
         /\ loose' \subseteq Work /\ head' \subseteq Work /\ branch' \in [Ids -> SUBSET Work]
         /\ manifests' \in Seq([unit : Ids, ok : BOOLEAN, on : {"none", "branch", "chain"},
                                tip : SUBSET Work])
         /\ Len(manifests') # 0
<1> DEFINE work == <<u, done[u] + 1>>
           wrote == IF ok /\ kept THEN {work} ELSE {}
           report == IF ~ok \/ ~UseWorktrees THEN Manifest(u, ok, "none", {})
                     ELSE IF OnChain THEN Manifest(u, ok, "chain", anchor \cup wrote)
                     ELSE Manifest(u, ok, "branch", {})
<1>1. done[u] \in Nat /\ work \in Work /\ wrote \subseteq Work
  BY DEF TypeOK, Work
<1>2. done' \in [Ids -> Nat]
  <2>1. done' = IF ok THEN [done EXCEPT ![u] = @ + 1] ELSE done
    BY DEF Ends
  <2> QED BY <1>1, <2>1 DEF TypeOK
<1>3. /\ loose' = IF ok /\ ~kept THEN loose \cup {work} ELSE loose
      /\ head' = IF UseWorktrees THEN head ELSE head \cup wrote
      /\ branch' = IF UseWorktrees /\ ~OnChain THEN [branch EXCEPT ![u] = wrote] ELSE branch
      /\ manifests' = Append(manifests, report)
      /\ running' = running \ {u}
  BY DEF Ends
<1>4. report \in Reported
  BY <1>1 DEF Manifest, TypeOK, Reported
<1>5. manifests' \in Seq(Reported) /\ Len(manifests') # 0
  <2> HIDE DEF report
  <2>1. manifests \in Seq(Reported)
    BY DEF TypeOK, Reported
  <2> QED BY <1>3, <1>4, <2>1, ReportAdded
<1>6. loose' \subseteq Work /\ head' \subseteq Work /\ branch' \in [Ids -> SUBSET Work]
  <2> HIDE DEF work, wrote
  <2> QED BY <1>1, <1>3 DEF TypeOK
<1> QED BY <1>2, <1>3, <1>5, <1>6 DEF TypeOK, Reported

LEMMA RecordedTypes ==
  ASSUME TypeOK, NEW u \in Ids, NEW ok \in BOOLEAN
  PROVE  Recorded(u, ok) \in [Ids -> Statuses]
BY DEF Recorded, TypeOK, Statuses

(* Where execute stands when it leaves, or turns to the next loop. *)
LEMMA BailTypes ==
  ASSUME TypeInv, Bail, UNCHANGED <<runVars, tier, stateVars, loopVars, mergeVars, diskVars,
                                    manifests, expired, done, begun, skipped>>
  PROVE  TypeInv'
BY DEF TypeInv, TypeOK, Bail, runVars, stateVars, loopVars, mergeVars, diskVars, Loops, Loop

LEMMA NextLoopTypes ==
  ASSUME TypeInv, NextLoop, UNCHANGED <<runVars, tier, stateVars, mergeVars, diskVars,
                                        manifests, expired, done, begun, skipped>>
  PROVE  TypeInv'
BY DEF TypeInv, TypeOK, NextLoop, runVars, stateVars, mergeVars, diskVars, Loops, Loop

LEMMA TierTypes ==
  ASSUME TypeInv, NextTier
  PROVE  TypeInv'
<1> USE DEF runVars, tierVars, stateVars, loopVars, mergeVars, diskVars
<1>1. Due(tier + 1) \subseteq Units /\ DuePost(tier + 1) \subseteq Units
  BY PlanTypes DEF TypeInv, TypeOK, Due, DuePost, Tier
<1>2. CASE tier' = tier + 1 /\ UNCHANGED <<phase, wave>>
  <2>1. left' \subseteq Units /\ tier' \in Nat
    BY <1>1, <1>2 DEF NextTier, TypeInv, TypeOK
  <2> QED BY <1>2, <2>1 DEF NextTier, TypeInv, TypeOK, Loops
<1>3. CASE UNCHANGED tierVars /\ phase' = IF phase = "tiers" THEN "enter" ELSE "merge"
  BY <1>3 DEF NextTier, TypeInv, TypeOK, Loops
<1> QED BY <1>2, <1>3 DEF NextTier

LEMMA DispatchTypes ==
  ASSUME TypeInv,
         \/ \E u \in Units : SkipUnmet(u) \/ Launch(u) \/ LaunchPass(u)
         \/ \E w \in Workers : LaunchWorker(w)
  PROVE  TypeInv'
<1> USE DEF runVars, tierVars, stateVars, loopVars, mergeVars, diskVars, TypeInv, TypeOK, Ids, Loops
<1>1. ASSUME NEW u \in Units, SkipUnmet(u)
      PROVE  TypeInv'
  <2>1. manifests' \in Seq([unit : Ids, ok : BOOLEAN, on : {"none", "branch", "chain"},
                            tip : SUBSET Work])
    <3>1. Manifest(u, FALSE, "none", {}) \in Reported
      BY DEF Manifest, Reported
    <3>2. manifests' = Append(manifests, Manifest(u, FALSE, "none", {}))
      BY <1>1 DEF SkipUnmet
    <3> QED BY <3>1, <3>2, ReportAdded DEF Reported
  <2>2. status' \in [Ids -> Statuses]
    BY <1>1 DEF SkipUnmet, Statuses
  <2> QED BY <1>1, <2>1, <2>2 DEF SkipUnmet
<1>2. ASSUME NEW u \in Units, Launch(u)
      PROVE  TypeInv'
  <2>1. status' \in [Ids -> Statuses] /\ branch' \in [Ids -> SUBSET Work]
    BY <1>2 DEF Launch, Provisioned, Statuses
  <2> QED BY <1>2, <2>1 DEF Launch
<1>3. ASSUME NEW u \in Units, LaunchPass(u)
      PROVE  TypeInv'
  <2>1. branch' \in [Ids -> SUBSET Work]
    BY <1>3 DEF LaunchPass, Provisioned
  <2> QED BY <1>3, <2>1 DEF LaunchPass
<1>4. ASSUME NEW w \in Workers, LaunchWorker(w)
      PROVE  TypeInv'
  <2>1. status' \in [Ids -> Statuses]
    BY <1>4 DEF LaunchWorker, Statuses
  <2>2. branch' \in [Ids -> SUBSET Work]
    BY <1>4, SMTT(30) DEF LaunchWorker, Provisioned
  <2> QED BY <1>4, <2>1, <2>2 DEF LaunchWorker
<1> QED BY <1>1, <1>2, <1>3, <1>4

LEMMA FinishTypes ==
  ASSUME TypeInv,
         \/ \E u \in Units, ok, kept \in BOOLEAN :
              Finish(u, ok, kept) \/ FinishParallel(u, ok, kept) \/ FinishPass(u, ok, kept)
         \/ \E w \in Workers, ok, kept \in BOOLEAN : FinishWorker(w, ok, kept)
  PROVE  TypeInv'
<1> USE DEF runVars, tierVars, stateVars, loopVars, mergeVars, diskVars, Loops
<1>1. ASSUME NEW u \in Units, NEW ok \in BOOLEAN, NEW kept \in BOOLEAN, Finish(u, ok, kept)
      PROVE  TypeInv'
  <2>1. u \in Ids /\ Ends(u, ok, kept) /\ status' = Recorded(u, ok)
    BY <1>1 DEF Finish, Ids
  <2>2. status' \in [Ids -> Statuses]
    BY <2>1, RecordedTypes DEF TypeInv
  <2> QED BY <1>1, <2>1, <2>2, EndsTypes DEF Finish, TypeInv, TypeOK
<1>2. ASSUME NEW u \in Units, NEW ok \in BOOLEAN, NEW kept \in BOOLEAN, FinishParallel(u, ok, kept)
      PROVE  TypeInv'
  <2>1. u \in Ids /\ Ends(u, ok, kept)
    BY <1>2 DEF FinishParallel, Ids
  <2> QED BY <1>2, <2>1, EndsTypes DEF FinishParallel, TypeInv, TypeOK
<1>3. ASSUME NEW u \in Units, NEW ok \in BOOLEAN, NEW kept \in BOOLEAN, FinishPass(u, ok, kept)
      PROVE  TypeInv'
  <2>1. u \in Ids /\ Ends(u, ok, kept) /\ status' = Recorded(u, ok)
    BY <1>3 DEF FinishPass, Ids
  <2>2. status' \in [Ids -> Statuses]
    BY <2>1, RecordedTypes DEF TypeInv
  <2>3. manifests'[Len(manifests')].tip \subseteq Work
    <3>1. manifests' \in Seq(Reported) /\ Len(manifests') # 0
      BY <2>1, EndsTypes DEF TypeInv, Reported
    <3>2. manifests'[Len(manifests')] \in Reported
      BY <3>1
    <3> QED BY <3>2 DEF Reported
  <2>4. anchor' \subseteq Work
    BY <1>3, <2>3 DEF FinishPass, TypeInv, TypeOK
  <2> QED BY <1>3, <2>1, <2>2, <2>4, EndsTypes DEF FinishPass, TypeInv, TypeOK
<1>4. ASSUME NEW w \in Workers, NEW ok \in BOOLEAN, NEW kept \in BOOLEAN, FinishWorker(w, ok, kept)
      PROVE  TypeInv'
  <2>1. w \in Ids /\ Ends(w, ok, kept) /\ status' = Recorded(w, ok)
    BY <1>4 DEF FinishWorker, Ids
  <2>2. status' \in [Ids -> Statuses]
    BY <2>1, RecordedTypes DEF TypeInv
  <2> QED BY <1>4, <2>1, <2>2, EndsTypes, ZenonT(40) DEF FinishWorker, TypeInv, TypeOK
<1> QED BY <1>1, <1>2, <1>3, <1>4

LEMMA EnterTypes ==
  ASSUME TypeInv, EnterLoop
  PROVE  TypeInv'
<1> DEFINE Rest == UNCHANGED <<runVars, tier, stateVars, mergeVars, diskVars, manifests,
                               expired, done, begun, skipped>>
<1> USE DEF runVars, tierVars, stateVars, loopVars, mergeVars, diskVars
<1>1. Rest /\ phase = "enter" /\ lp <= Len(Loops)
  BY DEF EnterLoop
<1>2. CASE NextLoop
  BY <1>1, <1>2, NextLoopTypes
<1>3. CASE Bail /\ UNCHANGED loopVars
  BY <1>1, <1>3, BailTypes
<1>4. CASE /\ phase' = "judge" /\ pass' = 1
           /\ UNCHANGED <<lp, wins, quiet, streak, blocker, anchor, left, running, wave, result>>
  BY <1>1, <1>4 DEF TypeInv, TypeOK, Loops
<1>5. CASE /\ anchor' = IF Bases = {} THEN head ELSE UNION {Tip(manifests[i]) : i \in Bases}
           /\ phase' = "pass" /\ pass' = 1 /\ left' = Loop.body
           /\ UNCHANGED <<lp, wins, quiet, streak, blocker, running, wave, result>>
  <2>1. Loop.body \subseteq Units
    <3>1. plan \in Plans /\ lp \in Nat /\ lp # 0
      BY DEF TypeInv, TypeOK
    <3>2. Loops \in Seq(Blocks) /\ \A i \in DOMAIN Loops : Loops[i].body \subseteq Units
      BY <3>1, PlanTypes
    <3>3. lp \in DOMAIN Loops
      BY <1>1, <3>1, <3>2
    <3> QED BY <3>2, <3>3 DEF Loop
  <2>2. \A i \in Bases : Tip(manifests[i]) \subseteq Work
    <3>1. manifests \in Seq(Reported) /\ head \subseteq Work /\ branch \in [Ids -> SUBSET Work]
      BY DEF TypeInv, TypeOK, Reported
    <3>2. \A i \in DOMAIN manifests : manifests[i] \in Reported
      BY <3>1
    <3>3. \A i \in Bases : manifests[i] \in Reported
      BY <3>2 DEF Bases
    <3>4. \A m \in Reported : Tip(m) \subseteq Work
      BY <3>1 DEF Tip, Reported
    <3> QED BY <3>3, <3>4
  <2>3. anchor' \subseteq Work
    BY <1>5, <2>2 DEF TypeInv, TypeOK
  <2> QED BY <1>1, <1>5, <2>1, <2>3, SMTT(30) DEF TypeInv, TypeOK, Loops
<1> QED BY <1>2, <1>3, <1>4, <1>5 DEF EnterLoop

LEMMA JudgeTypes ==
  ASSUME TypeInv, JudgeStops \/ \E silent \in BOOLEAN, v \in Verdicts : Judge(silent, v)
  PROVE  TypeInv'
<1> USE DEF runVars, tierVars, stateVars, loopVars, mergeVars, diskVars
<1>1. UNCHANGED <<runVars, tier, stateVars, mergeVars, diskVars, manifests, expired, done,
                  begun, skipped>>
  BY DEF JudgeStops, Judge
<1>2. CASE NextLoop
  BY <1>1, <1>2, NextLoopTypes
<1>3. CASE Bail /\ UNCHANGED loopVars
  BY <1>1, <1>3, BailTypes
<1>4. ASSUME NEW silent \in BOOLEAN, NEW v \in Verdicts, Judge(silent, v), Another
      PROVE  TypeInv'
  <2>1. phase = "judge" /\ lp \in Nat /\ lp # 0 /\ lp <= Len(Loops)
        /\ {pass, wins, quiet, streak} \subseteq Nat /\ blocker \in Blockers \cup {"none"}
    BY <1>4 DEF Judge, TypeInv, TypeOK
  <2>2. Loop.body \subseteq Units
    <3>1. Loops \in Seq(Blocks) /\ \A i \in DOMAIN Loops : Loops[i].body \subseteq Units
      BY PlanTypes DEF TypeInv, TypeOK
    <3>2. lp \in DOMAIN Loops
      BY <2>1, <3>1
    <3> QED BY <3>1, <3>2 DEF Loop
  <2>3. \/ NextLoop
        \/ /\ quiet' = IF silent THEN quiet + 1 ELSE 0
           /\ wins' = Row(v)
           /\ IF v = "pass" \/ Loop.irrec = 0 THEN UNCHANGED <<streak, blocker>>
              ELSE /\ streak' = Streak(v)
                   /\ blocker' = IF v \in Blockers THEN v ELSE blocker
    BY <1>4 DEF Judge
  <2>4. Row(v) \in Nat /\ Streak(v) \in Nat
    BY <2>1 DEF Row, Streak
  <2>5. CASE ~NextLoop
    <3>1. {quiet', wins', streak', pass'} \subseteq Nat /\ blocker' \in Blockers \cup {"none"}
      BY <1>4, <2>1, <2>3, <2>4, <2>5 DEF Another
    <3> QED BY <1>1, <1>4, <2>1, <2>2, <3>1 DEF Another, TypeInv, TypeOK, Loops
  <2> QED BY <1>2, <2>5
<1> QED BY <1>2, <1>3, <1>4 DEF JudgeStops, Judge

LEMMA MergeTypes ==
  ASSUME TypeInv, MergeNext
  PROVE  TypeInv'
<1> USE DEF runVars, tierVars, stateVars, loopVars, mergeVars, diskVars
<1>1. manifests \in Seq(Reported) /\ next \in Nat /\ next # 0 /\ next <= Len(manifests)
  BY DEF TypeInv, TypeOK, MergeNext, Reported
<1>2. Coming \in Reported
  BY <1>1 DEF Coming
<1>3. Coming.unit \in Ids
  BY <1>2 DEF Reported
<1>4. /\ head' = head \/ head' = head \cup branch[Coming.unit]
      /\ merged' = merged \/ merged' = Append(merged, Coming.unit)
      /\ next' = next + 1
  BY DEF MergeNext
<1>5. merged' \in Seq(Ids)
  <2>1. merged \in Seq(Ids)
    BY DEF TypeInv, TypeOK
  <2> QED BY <1>3, <1>4, <2>1
<1>6. head' \subseteq Work
  <2>1. head \subseteq Work /\ branch[Coming.unit] \subseteq Work
    BY <1>3 DEF TypeInv, TypeOK
  <2> QED BY <1>4, <2>1
<1>7. mergeOk' \in BOOLEAN
  <2>1. mergeOk \in BOOLEAN
    BY DEF TypeInv, TypeOK
  <2>2. mergeOk' = mergeOk \/ mergeOk' = FALSE
    BY DEF MergeNext
  <2> QED BY <2>1, <2>2
<1>8. next' \in Nat /\ next' # 0
  BY <1>1, <1>4
<1> QED BY <1>5, <1>6, <1>7, <1>8, SMTT(30) DEF MergeNext, TypeInv, TypeOK, Loops

LEMMA StartTypes ==
  ASSUME TypeInv, Start
  PROVE  TypeInv'
<1> USE DEF runVars, tierVars, stateVars, loopVars, mergeVars, diskVars
<1>1. parallel' \in BOOLEAN /\ status' \in [Ids -> Statuses] /\ spawned' \subseteq Workers
  BY ModesAssumption, FreshTypes DEF Start, TypeInv, TypeOK
<1>2. runs' \in Nat /\ manifests' = <<>> /\ merged' = <<>> /\ UNCHANGED <<plan, crashes, diskVars, done>>
  BY DEF Start, TypeInv, TypeOK
<1>3. manifests' \in Seq(Reported) /\ merged' \in Seq(Ids)
  BY <1>2
<1>4. /\ phase' = "tiers" /\ tier' = 0 /\ left' = {} /\ wave' = {} /\ running' = {}
      /\ lp' = 1 /\ pass' = 0 /\ wins' = 0 /\ quiet' = 0 /\ streak' = 0 /\ blocker' = "none"
      /\ anchor' = {} /\ next' = 1 /\ mergeOk' = TRUE /\ expired' = FALSE
      /\ result' = "none" /\ begun' = {} /\ skipped' = {}
  BY DEF Start
<1>5. {parallel', mergeOk', expired'} \subseteq BOOLEAN
  BY <1>1, <1>4, Zenon
<1>6. {tier', lp', pass', wins', quiet', streak', next', runs', crashes'} \subseteq Nat
  BY <1>2, <1>4 DEF TypeInv, TypeOK
<1>7. TypeOK'
  BY <1>1, <1>2, <1>3, <1>4, <1>5, <1>6 DEF TypeInv, TypeOK, Reported
<1> QED BY <1>4, <1>7 DEF TypeInv

LEMMA TypeStep == TypeInv /\ [Next]_vars => TypeInv'
<1> SUFFICES ASSUME TypeInv, [Next]_vars PROVE TypeInv'
  OBVIOUS
<1> USE DEF runVars, tierVars, stateVars, loopVars, mergeVars, diskVars
<1>1. CASE LoopsDone \/ PassOver
  <2>1. CASE LoopsDone
    BY <2>1 DEF LoopsDone, TypeInv, TypeOK, Loops
  <2>2. CASE PassOver
    BY <2>2 DEF PassOver, TypeInv, TypeOK, Loops
  <2> QED BY <1>1, <2>1, <2>2
<1>5. CASE WaveFails
  BY <1>5 DEF WaveFails, TypeInv, TypeOK, Loops
<1>6. CASE Expire
  BY <1>6 DEF Expire, TypeInv, TypeOK, Loops
<1>7. CASE UNCHANGED vars
  BY <1>7 DEF vars, TypeInv, TypeOK, Loops
<1>2. CASE Complete
  BY <1>2 DEF Complete, TypeInv, TypeOK, Loops
<1>3. CASE Fails
  BY <1>3, BailTypes DEF Fails
<1>4. CASE Crash
  <2>1. saved' \in {saved, Fresh} /\ crashes' \in Nat
    BY <1>4 DEF Crash, TypeInv, TypeOK
  <2> QED BY <1>4, <2>1, FreshTypes DEF Crash, TypeInv, TypeOK, Loops
<1> QED BY <1>1, <1>2, <1>3, <1>4, <1>5, <1>6, <1>7, TierTypes, EnterTypes, JudgeTypes, MergeTypes, StartTypes,
           DispatchTypes, FinishTypes DEF Next, Step

LEMMA TypesInitial ==
  ASSUME Init
  PROVE  TypeInv
<1>1. manifests \in Seq(Reported) /\ merged \in Seq(Ids)
  BY DEF Init
<1>2. /\ status \in [Ids -> Statuses] /\ done \in [Ids -> Nat] /\ branch \in [Ids -> SUBSET Work]
      /\ saved \in [status : [Ids -> Statuses], spawned : SUBSET Workers]
  BY FreshTypes DEF Init, Fresh, Statuses
<1>3. /\ plan \in Plans /\ parallel = FALSE /\ phase = "ended" /\ result = "none"
      /\ tier = 0 /\ left = {} /\ running = {} /\ wave = {} /\ spawned = {}
      /\ lp = 1 /\ pass = 0 /\ wins = 0 /\ quiet = 0 /\ streak = 0 /\ blocker = "none"
      /\ anchor = {} /\ next = 1 /\ mergeOk = TRUE /\ expired = FALSE /\ head = {}
      /\ runs = 0 /\ crashes = 0 /\ begun = {} /\ skipped = {} /\ loose = {}
  BY DEF Init
<1>4. {parallel, mergeOk, expired} \subseteq BOOLEAN
  BY <1>3, Zenon
<1>5. {tier, lp, pass, wins, quiet, streak, next, runs, crashes} \subseteq Nat
  BY <1>3
<1>6. TypeOK
  BY <1>1, <1>2, <1>3, <1>4, <1>5 DEF TypeOK, Reported
<1> QED BY <1>3, <1>6 DEF TypeInv

(* The variables of a run of any plan stay what they are declared to be: nothing is
   dispatched that the plan or a manifest does not name, no result but those four. *)
THEOREM TypeCorrect == Spec => []TypeOK
<1>1. Init => TypeInv
  BY TypesInitial
<1>2. TypeInv => TypeOK
  BY DEF TypeInv
<1> QED BY <1>1, <1>2, TypeStep, PTL DEF Spec

---------------------------------------------------------------------------
(* The dependencies of a plan. *)

(* What depends on a part depends on the whole. *)
LEMMA BelowGrows ==
  ASSUME NEW p, NEW S, NEW T, S \subseteq T
  PROVE  Below(p, S) \subseteq Below(p, T)
<1> SUFFICES ASSUME NEW u \in Below(p, S), NEW C \in SUBSET DOMAIN p.deps,
                    \A v \in DOMAIN p.deps : p.deps[v] \cap (T \cup C) # {} => v \in C
             PROVE  u \in C
  BY DEF Below
<1>1. \A v \in DOMAIN p.deps : p.deps[v] \cap (S \cup C) # {} => v \in C
  OBVIOUS
<1> QED BY <1>1 DEF Below

(* Downstream(S) is the least set closed under dependents. *)
LEMMA DownstreamClosed ==
  ASSUME NEW S, NEW v \in Members, NEW d \in S \cup Downstream(S), d \in Deps(v)
  PROVE  v \in Downstream(S)
<1> SUFFICES ASSUME NEW C \in SUBSET Members,
                    \A w \in Members : plan.deps[w] \cap (S \cup C) # {} => w \in C
             PROVE  v \in C
  BY DEF Downstream, Below, Members
<1>1. d \in S \cup C
  BY DEF Downstream, Below, Members
<1> QED BY <1>1 DEF Deps

LEMMA DownstreamLeast ==
  ASSUME NEW S, NEW C \in SUBSET Members,
         \A v \in Members : Deps(v) \cap (S \cup C) # {} => v \in C
  PROVE  Downstream(S) \subseteq C
BY DEF Downstream, Below, Members, Deps

LEMMA DownstreamTransitive ==
  ASSUME NEW S, NEW d \in S \cup Downstream(S)
  PROVE  Downstream({d}) \subseteq Downstream(S)
<1>1. Downstream(S) \subseteq Members
  BY DEF Downstream, Below, Members
<1>2. ASSUME NEW v \in Members, Deps(v) \cap ({d} \cup Downstream(S)) # {}
      PROVE  v \in Downstream(S)
  <2>1. PICK x \in Deps(v) : x \in S \cup Downstream(S)
    BY <1>2
  <2> QED BY <2>1, DownstreamClosed
<1> QED BY <1>1, <1>2, DownstreamLeast

LEMMA Tiered ==
  ASSUME plan \in Plans
  PROVE  \A u \in Members : /\ TierOf[u] \in Nat /\ TierOf[u] # 0
                            /\ \A d \in Deps(u) \cap Members : TierOf[d] < TierOf[u]
<1>1. Tierings(plan) # {}
  BY WellFormedAssumption DEF WellFormed
<1>2. TierOf \in Tierings(plan)
  BY <1>1 DEF TierOf
<1> QED BY <1>2 DEF Tierings, Members, Deps

(* Whoever comes after is in a higher tier. *)
LEMMA TiersRise ==
  ASSUME plan \in Plans, NEW S \in SUBSET Members, NEW u \in Downstream(S)
  PROVE  \E d \in S : TierOf[d] < TierOf[u]
<1> DEFINE C == {v \in Members : \E d \in S : TierOf[d] < TierOf[v]}
<1>1. ASSUME NEW v \in Members, NEW x \in Deps(v), x \in S \cup C
      PROVE  v \in C
  <2>1. x \in Members /\ TierOf[x] < TierOf[v] /\ TierOf[x] \in Nat /\ TierOf[v] \in Nat
    BY <1>1, Tiered
  <2>2. CASE x \in S
    BY <2>1, <2>2
  <2>3. CASE x \in C
    <3>1. PICK d \in S : TierOf[d] < TierOf[x]
      BY <2>3
    <3>2. TierOf[d] \in Nat
      BY Tiered
    <3>3. TierOf[d] < TierOf[v]
      BY <2>1, <3>1, <3>2
    <3> QED BY <3>3
  <2> QED BY <1>1, <2>2, <2>3
<1>2. Downstream(S) \subseteq C
  <2> HIDE DEF C
  <2>1. C \in SUBSET Members
    BY DEF C
  <2> QED BY <1>1, <2>1, DownstreamLeast
<1> QED BY <1>2

(* No loop is behind a later one. *)
LEMMA LoopOrder ==
  ASSUME plan \in Plans, NEW i \in DOMAIN Loops, NEW j \in DOMAIN Loops, i < j
  PROVE  /\ Loops[i].body \cap (Loops[j].body \cup Downstream(Loops[j].body)) = {}
         /\ \A u \in Loops[j].body : Loops[i].body \subseteq Deps(u)
<1>1. /\ Loops[i].body \subseteq Members /\ Loops[j].body \subseteq Members
      /\ \A u \in Loops[j].body : Loops[i].body \subseteq Deps(u)
  BY WellFormedAssumption DEF WellFormed, Loops, Members, Deps
<1>2. \A u \in Loops[j].body, v \in Loops[i].body :
        TierOf[v] \in Nat /\ TierOf[u] \in Nat /\ TierOf[v] < TierOf[u]
  BY <1>1, Tiered
<1>3. ASSUME NEW v \in Loops[i].body, v \in Downstream(Loops[j].body)
      PROVE  FALSE
  <2>1. PICK u \in Loops[j].body : TierOf[u] < TierOf[v]
    BY <1>1, <1>3, TiersRise
  <2> QED BY <1>2, <2>1
<1>4. ASSUME NEW v \in Loops[i].body, v \in Loops[j].body
      PROVE  FALSE
  BY <1>2, <1>4
<1> QED BY <1>1, <1>3, <1>4

(* Into a set leads one of its outside dependencies. *)
LEMMA WayIn ==
  ASSUME NEW S, NEW d, d \notin S, NEW u \in S, u \in Downstream({d})
  PROVE  \E x \in (UNION {Deps(v) : v \in S}) \ S : x \in {d} \cup Downstream({d})
<1> SUFFICES ASSUME \A x \in (UNION {Deps(v) : v \in S}) \ S : x \notin {d} \cup Downstream({d})
             PROVE  FALSE
  OBVIOUS
<1> DEFINE C == Downstream({d}) \ S
<1>1. ASSUME NEW v \in Members, NEW x \in Deps(v), x \in {d} \cup C
      PROVE  v \in C
  <2>1. v \in Downstream({d})
    BY <1>1, DownstreamClosed
  <2> QED BY <1>1, <2>1
<1>2. C \in SUBSET Members
  BY DEF Downstream, Below, Members
<1>3. Downstream({d}) \subseteq C
  <2> HIDE DEF C
  <2> QED BY <1>1, <1>2, DownstreamLeast
<1> QED BY <1>3

---------------------------------------------------------------------------
(* Where the units after a loop are, while a run goes on: before the loops none has
   been dispatched; among the loops only those that are of a loop's body themselves;
   after them nothing else is. *)
Turned == UNION {Loops[j].body : j \in {k \in DOMAIN Loops : k <= lp}}

Deferred ==
  /\ phase = "tiers" => (left \cup begun) \cap PostLoop = {}
  /\ phase \in {"enter", "pass", "judge"} => begun \cap PostLoop \subseteq Turned
  /\ phase \in {"enter", "judge"} => left = {}
  /\ phase = "pass" => left \subseteq Loop.body
  /\ phase = "post" => left \subseteq PostLoop

LoopInv == TypeInv /\ Deferred

LEMMA AfterLoops ==
  /\ PostLoop \subseteq Members
  /\ \A i \in DOMAIN Loops : Downstream(Loops[i].body) \subseteq PostLoop
<1>1. \A i \in DOMAIN Loops : Loops[i].body \subseteq Bodies
  BY DEF Bodies
<1> QED BY <1>1, BelowGrows DEF PostLoop, Downstream, Below, Members

LEMMA DeferredStep == LoopInv /\ [Next]_vars => Deferred'
<1> SUFFICES ASSUME LoopInv, [Next]_vars PROVE Deferred'
  OBVIOUS
<1> USE DEF runVars, tierVars, stateVars, loopVars, mergeVars, diskVars
<1>0. ASSUME UNCHANGED plan
      PROVE  PostLoop' = PostLoop /\ Loops' = Loops /\ (UNCHANGED lp => Turned' = Turned /\ Loop' = Loop)
  BY <1>0 DEF PostLoop, Downstream, Below, Bodies, Loops, Turned, Loop
<1>1. CASE phase' \in {"merge", "ended"}
  BY <1>1 DEF Deferred
<1>2. CASE NextTier
  <2>1. (left' = Due(tier + 1) /\ phase = "tiers") \/ (left' = DuePost(tier + 1) /\ phase = "post")
          \/ left' = {}
    BY <1>2 DEF NextTier, Quiet
  <2>2. Due(tier + 1) \cap PostLoop = {} /\ DuePost(tier + 1) \subseteq PostLoop
    BY DEF Due, DuePost
  <2>3. UNCHANGED <<plan, lp, begun>> /\ phase \in {"tiers", "post"}
        /\ (phase' = phase \/ (left' = {} /\ phase' = IF phase = "tiers" THEN "enter" ELSE "merge"))
    BY <1>2 DEF NextTier, Quiet
  <2> QED BY <1>0, <2>1, <2>2, <2>3 DEF LoopInv, Deferred
<1>3. ASSUME NEW u \in Units, SkipUnmet(u) \/ Launch(u) \/ LaunchPass(u)
      PROVE  Deferred'
  <2>1. /\ left' = left \ {u} /\ u \in left /\ UNCHANGED <<plan, lp, phase>>
        /\ begun' = begun \/ begun' = begun \cup {u}
    BY <1>3 DEF SkipUnmet, Launch, LaunchPass
  <2>2. CASE phase = "pass"
    <3>1. Loop.body \subseteq Turned
      <4>1. lp \in Nat /\ lp # 0 /\ lp <= Len(Loops) /\ Loops \in Seq(Blocks)
        BY <2>2, PlanTypes DEF LoopInv, TypeInv, TypeOK
      <4>2. lp \in {k \in DOMAIN Loops : k <= lp}
        BY <4>1
      <4> QED BY <4>2 DEF Turned, Loop
    <3> QED BY <1>0, <2>1, <2>2, <3>1 DEF LoopInv, Deferred
  <2>3. CASE phase \in {"tiers", "post"}
    BY <1>0, <2>1, <2>3 DEF LoopInv, Deferred
  <2> QED BY <1>3, <2>2, <2>3 DEF SkipUnmet, Launch, LaunchPass
<1>4. ASSUME NEW w \in Workers, LaunchWorker(w)
      PROVE  Deferred'
  <2>1. /\ phase = "tiers" /\ UNCHANGED <<plan, lp, phase, left>>
        /\ begun' = begun \/ begun' = begun \cup {w}
    BY <1>4 DEF LaunchWorker
  <2>2. w \notin PostLoop
    BY AfterLoops, PlanTypes, DisjointAssumption DEF LoopInv, TypeInv, TypeOK
  <2> QED BY <1>0, <2>1, <2>2 DEF LoopInv, Deferred
<1>5. ASSUME NEW u \in Ids, NEW ok \in BOOLEAN, NEW kept \in BOOLEAN,
             \/ Finish(u, ok, kept) \/ FinishParallel(u, ok, kept) \/ FinishPass(u, ok, kept)
             \/ FinishWorker(u, ok, kept)
      PROVE  Deferred'
  <2>1. UNCHANGED <<plan, lp, phase, begun>> /\ left' \in {left, {}}
    BY <1>5 DEF Finish, FinishParallel, FinishPass, FinishWorker
  <2>2. PostLoop' = PostLoop /\ Turned' = Turned /\ Loop' = Loop
    BY <1>0, <2>1
  <2> QED BY <2>1, <2>2 DEF LoopInv, Deferred
<1>6. CASE EnterLoop \/ JudgeStops \/ \E silent \in BOOLEAN, v \in Verdicts : Judge(silent, v)
  <2>1. UNCHANGED <<plan, begun>> /\ phase \in {"enter", "judge"}
    BY <1>6 DEF EnterLoop, JudgeStops, Judge
  <2>2. CASE NextLoop
    <3>1. phase' = "enter" /\ lp' = lp + 1 /\ UNCHANGED left
      BY <2>2 DEF NextLoop
    <3>2. Turned \subseteq Turned'
      <4>1. lp \in Nat /\ Loops \in Seq(Blocks)
        BY PlanTypes DEF LoopInv, TypeInv, TypeOK
      <4>2. \A k \in DOMAIN Loops : k <= lp => k <= lp'
        BY <3>1, <4>1
      <4> QED BY <1>0, <2>1, <4>2 DEF Turned
    <3> QED BY <1>0, <2>1, <3>1, <3>2 DEF LoopInv, Deferred
  <2>3. CASE Bail
    BY <2>3 DEF Bail, Deferred
  <2>4. CASE UNCHANGED lp /\ ((phase' = "judge" /\ UNCHANGED left) \/ (phase' = "pass" /\ left' = Loop.body))
    BY <1>0, <2>1, <2>4 DEF LoopInv, Deferred
  <2>5. \/ NextLoop \/ Bail
        \/ UNCHANGED lp /\ ((phase' = "judge" /\ UNCHANGED left) \/ (phase' = "pass" /\ left' = Loop.body))
    <3>1. CASE EnterLoop
      BY <3>1 DEF EnterLoop
    <3>2. CASE JudgeStops
      BY <3>2 DEF JudgeStops
    <3>3. ASSUME NEW silent \in BOOLEAN, NEW v \in Verdicts, Judge(silent, v)
          PROVE  NextLoop \/ Another
      BY <3>3 DEF Judge
    <3> QED BY <1>6, <3>1, <3>2, <3>3 DEF Another
  <2> QED BY <2>2, <2>3, <2>4, <2>5
<1>7. CASE LoopsDone \/ PassOver \/ WaveFails \/ Expire
  <2>1. UNCHANGED <<plan, lp, begun, left>>
    BY <1>7 DEF LoopsDone, PassOver, WaveFails, Expire
  <2>2. \/ phase = "enter" /\ phase' = "post"
        \/ phase = "pass" /\ phase' = "judge" /\ left = {}
        \/ UNCHANGED phase
    BY <1>7 DEF LoopsDone, PassOver, WaveFails, Expire, Quiet
  <2> QED BY <1>0, <2>1, <2>2 DEF LoopInv, Deferred
<1>8. CASE UNCHANGED vars
  <2>1. UNCHANGED <<plan, lp, begun, left, phase>>
    BY <1>8 DEF vars
  <2> QED BY <1>0, <2>1 DEF LoopInv, Deferred
<1>9. CASE Start
  BY <1>9 DEF Start, Deferred
<1>10. CASE MergeNext
  <2>1. phase' = "merge"
    BY <1>10 DEF MergeNext
  <2> QED BY <1>1, <2>1
<1>11. CASE Complete \/ Fails \/ Crash
  BY <1>1, <1>11 DEF Complete, Fails, Crash, Bail
<1> QED BY <1>2, <1>3, <1>4, <1>5, <1>6, <1>7, <1>8, <1>9, <1>10, <1>11 DEF Next, Step, Ids

(* The steps that put an agent to work. *)
LEMMA Dispatched ==
  ASSUME [Next]_vars, NEW u \in running' \ running
  PROVE  \/ u \in Workers
         \/ u \in left /\ phase \in {"tiers", "pass", "post"}
<1> USE DEF runVars, tierVars, stateVars, loopVars, mergeVars, diskVars
<1>1. CASE \E v \in Units : Launch(v) \/ LaunchPass(v)
  BY <1>1 DEF Launch, LaunchPass
<1>2. CASE \E w \in Workers : LaunchWorker(w)
  BY <1>2 DEF LaunchWorker
<1>3. ~(\/ NextTier \/ EnterLoop \/ LoopsDone \/ PassOver \/ JudgeStops \/ MergeNext \/ Complete
        \/ WaveFails \/ Fails \/ Start \/ Crash \/ Expire \/ UNCHANGED vars)
  BY DEF NextTier, EnterLoop, NextLoop, LoopsDone, PassOver, JudgeStops, MergeNext, Complete, WaveFails,
         Fails, Start, Crash, Bail, Expire, vars
<1>4. ~\E v \in Units : SkipUnmet(v)
  BY DEF SkipUnmet
<1>5. ~\E v \in Ids, ok, kept \in BOOLEAN :
        Finish(v, ok, kept) \/ FinishParallel(v, ok, kept) \/ FinishPass(v, ok, kept) \/ FinishWorker(v, ok, kept)
  <2>1. ASSUME NEW v \in Ids, NEW ok \in BOOLEAN, NEW kept \in BOOLEAN, Ends(v, ok, kept)
        PROVE  FALSE
    BY <2>1 DEF Ends
  <2> QED BY <2>1 DEF Finish, FinishParallel, FinishPass, FinishWorker
<1>6. ~\E silent \in BOOLEAN, v \in Verdicts : Judge(silent, v)
  BY DEF Judge, NextLoop, Another
<1> QED BY <1>1, <1>2, <1>3, <1>4, <1>5, <1>6 DEF Next, Step, Ids

LEMMA LoopFirst ==
  ASSUME LoopInv, [Next]_vars, NEW u \in running' \ running, NEW i \in DOMAIN Loops,
         u \in Loops[i].body, Loops[i].body \cap PostLoop = {}
  PROVE  begun \cap (Downstream(Loops[i].body) \ Loops[i].body) = {}
<1>1. plan \in Plans /\ Loops \in Seq(Blocks) /\ Loops[i].body \subseteq Units
  BY PlanTypes DEF LoopInv, TypeInv, TypeOK
<1>2. u \in left /\ phase \in {"tiers", "pass", "post"}
  BY <1>1, Dispatched, DisjointAssumption
<1>3. CASE phase = "tiers"
  BY <1>3, AfterLoops DEF LoopInv, Deferred
<1>4. CASE phase = "post"
  BY <1>2, <1>4 DEF LoopInv, Deferred
<1>5. CASE phase = "pass"
  <2>1. u \in Loops[lp].body /\ lp \in DOMAIN Loops
    <3>1. lp \in Nat /\ lp # 0 /\ lp <= Len(Loops)
      BY <1>5 DEF LoopInv, TypeInv, TypeOK
    <3> QED BY <1>1, <1>2, <1>5, <3>1 DEF LoopInv, Deferred, Loop
  <2>2. \A j, k \in DOMAIN Loops :
          j < k => Loops[j].body \cap (Loops[k].body \cup Downstream(Loops[k].body)) = {}
    BY <1>1, LoopOrder
  <2>3. i = lp
    <3>1. i \in Nat /\ lp \in Nat
      BY <1>1, <2>1
    <3>2. ~(i < lp) /\ ~(lp < i)
      BY <2>1, <2>2
    <3> QED BY <3>1, <3>2
  <2>4. ASSUME NEW v \in begun, v \in Downstream(Loops[lp].body), v \notin Loops[lp].body
        PROVE  FALSE
    <3>1. v \in Turned
      BY <1>5, <2>1, <2>4, AfterLoops DEF LoopInv, Deferred
    <3>2. PICK j \in DOMAIN Loops : j <= lp /\ v \in Loops[j].body
      BY <3>1 DEF Turned
    <3>3. j < lp
      BY <1>1, <2>1, <2>4, <3>2
    <3> QED BY <2>1, <2>2, <2>4, <3>2, <3>3
  <2> QED BY <2>3, <2>4
<1> QED BY <1>2, <1>3, <1>4, <1>5

(* In no run of any plan is an agent of a loop whose agents depend on none of a loop
   dispatched again after a unit behind it: the tiers leave such units out, the loops run in
   the order of the plan, and what comes last is behind a loop (pipeline.rs:754,
   pipeline.rs:2075). *)
THEOREM LoopsFirst == Spec => LoopBeforeDownstream
<1>1. Init => LoopInv
  <2> SUFFICES ASSUME Init PROVE LoopInv
    OBVIOUS
  <2>1. TypeInv
    BY TypesInitial
  <2> QED BY <2>1 DEF Init, LoopInv, Deferred
<1>2. LoopInv /\ [Next]_vars => LoopInv'
  BY TypeStep, DeferredStep DEF LoopInv
<1>3. LoopInv /\ [Next]_vars =>
        [\A u \in running' \ running, i \in DOMAIN Loops :
           u \in Loops[i].body /\ Loops[i].body \cap PostLoop = {} =>
             begun \cap (Downstream(Loops[i].body) \ Loops[i].body) = {}]_vars
  BY LoopFirst
<1> QED BY <1>1, <1>2, <1>3, PTL DEF Spec, LoopBeforeDownstream

---------------------------------------------------------------------------
(* The order of the merges. *)

(* Where agents are dispatched from: a tier that is being worked off; after the loops
   one unit at a time, not completed yet, whose dependencies are. *)
Lanes ==
  /\ phase = "tiers" => \A u \in (left \cup running) \cap Units : u \in Tier(tier) \ PostLoop
  /\ phase = "post" =>
       /\ left \cup running \subseteq Tier(tier) \cap PostLoop
       /\ \A u \in left \cup running : status[u] # "Completed"
       /\ \A u \in running : running = {u} /\ u \notin left /\ Unmet(u) = {}

(* What completed did so after everything it depends on that is behind a loop and
   of none. *)
Based(st) ==
  \A d \in PostLoop \ Bodies :
    \A u \in Downstream({d}) : st[u] = "Completed" => st[d] = "Completed"

(* All that u depends on, and that may still run after the loops, is done; but for its
   own loop. *)
Held(u, j) == \A d \in PostLoop \ Loops[j].body : u \in Downstream({d}) => status[d] = "Completed"

(* Where the agents come from whose branches were reported so far. *)
Accounted(u) ==
  /\ phase = "tiers" => u \notin PostLoop /\ (u \in Members => TierOf[u] <= tier)
  /\ phase \in {"enter", "pass", "judge"} /\ u \in PostLoop =>
       \E j \in DOMAIN Loops : j <= lp /\ u \in Loops[j].body /\ Held(u, j)
  /\ phase = "post" /\ u \in PostLoop =>
       \/ TierOf[u] <= tier
       \/ \E j \in DOMAIN Loops : u \in Loops[j].body /\ Held(u, j)

OnBranch == {x \in DOMAIN manifests : manifests[x].on = "branch"}
OneLoop(u, d) == \E l \in DOMAIN Loops : {u, d} \subseteq Loops[l].body

Placed == \A x \in OnBranch : Accounted(manifests[x].unit)
InOrder ==
  \A x, y \in OnBranch :
    x < y /\ manifests[y].unit \in Members /\ manifests[x].unit \in Downstream({manifests[y].unit}) =>
      OneLoop(manifests[x].unit, manifests[y].unit)

(* What is merged was reported before what is merged next. *)
Merging ==
  /\ phase \in {"tiers", "enter", "pass", "judge", "post"} => merged = <<>>
  /\ phase = "merge" =>
       \A i \in DOMAIN merged : \E x \in OnBranch : x < next /\ manifests[x].unit = merged[i]
  /\ MergedInOrder

LEMMA PlanKept ==
  ASSUME [Next]_vars
  PROVE  /\ plan' = plan /\ Members' = Members /\ Loops' = Loops /\ Bodies' = Bodies
         /\ PostLoop' = PostLoop /\ TierOf' = TierOf /\ StackedBodies' = StackedBodies
         /\ \A S : Downstream(S)' = Downstream(S)
         /\ \A u : Deps(u)' = Deps(u)
         /\ \A n : Tier(n)' = Tier(n)
<1>1. plan' = plan
  <2>1. \A u \in Ids, ok, kept \in BOOLEAN :
          (Finish(u, ok, kept) \/ FinishParallel(u, ok, kept) \/ FinishPass(u, ok, kept)
             \/ FinishWorker(u, ok, kept)) => plan' = plan
    BY DEF Finish, FinishParallel, FinishPass, FinishWorker, runVars
  <2>2. \A u \in Units : SkipUnmet(u) \/ Launch(u) \/ LaunchPass(u) => plan' = plan
    BY DEF SkipUnmet, Launch, LaunchPass, runVars
  <2>3. \A w \in Workers : LaunchWorker(w) => plan' = plan
    BY DEF LaunchWorker, runVars
  <2>4. \A silent \in BOOLEAN, v \in Verdicts : Judge(silent, v) => plan' = plan
    BY DEF Judge, runVars
  <2>5. NextTier \/ EnterLoop \/ LoopsDone \/ PassOver \/ JudgeStops \/ MergeNext \/ Complete
          \/ WaveFails \/ Fails \/ Start \/ Crash \/ Expire \/ UNCHANGED vars => plan' = plan
    BY DEF NextTier, EnterLoop, LoopsDone, PassOver, JudgeStops, MergeNext, Complete, WaveFails,
           Fails, Start, Crash, Expire, vars, runVars
  <2> QED BY <2>1, <2>2, <2>3, <2>4, <2>5 DEF Next, Step, Ids
<1> QED BY <1>1 DEF Members, Loops, Bodies, StackedBodies, PostLoop, TierOf, Downstream, Deps, Tier

LEMMA LanesStep ==
  ASSUME TypeInv, PassInv, Deferred, Lanes, [Next]_vars
  PROVE  Lanes'
<1> USE PlanKept DEF runVars, tierVars, stateVars, loopVars, mergeVars, diskVars
<1>1. CASE phase' \notin {"tiers", "post"}
  BY <1>1 DEF Lanes
<1>2. CASE phase' = "tiers"
  <2>1. CASE Start
    BY <2>1 DEF Start, Lanes
  <2>2. CASE NextTier
    <3>1. phase = "tiers" /\ left' = Due(tier + 1) /\ tier' = tier + 1 /\ running' = {}
      BY <1>2, <2>2 DEF NextTier, Quiet
    <3>2. Due(tier + 1) \subseteq Tier(tier + 1) \ PostLoop
      BY DEF Due
    <3> QED BY <1>2, <3>1, <3>2 DEF Lanes
  <2>3. CASE /\ phase = "tiers" /\ UNCHANGED tier
             /\ (left' \cup running') \cap Units \subseteq left \cup running
    BY <1>2, <2>3 DEF Lanes
  <2>4. ASSUME NEW u \in Units, SkipUnmet(u) \/ Launch(u) \/ LaunchPass(u)
        PROVE  Lanes'
    BY <1>2, <2>3, <2>4 DEF SkipUnmet, Launch, LaunchPass
  <2>5. ASSUME NEW w \in Workers, LaunchWorker(w)
        PROVE  Lanes'
    <3>1. w \notin Units
      BY DisjointAssumption
    <3> QED BY <1>2, <2>3, <2>5, <3>1 DEF LaunchWorker
  <2>6. ASSUME NEW u \in Ids, NEW ok \in BOOLEAN, NEW kept \in BOOLEAN,
               \/ Finish(u, ok, kept) \/ FinishParallel(u, ok, kept) \/ FinishPass(u, ok, kept)
               \/ FinishWorker(u, ok, kept)
        PROVE  Lanes'
    <3>1. running' \subseteq running /\ left' \in {left, {}} /\ UNCHANGED <<phase, tier>>
      BY <2>6 DEF Finish, FinishParallel, FinishPass, FinishWorker, Ends
    <3> QED BY <1>2, <2>3, <3>1
  <2>7. CASE WaveFails \/ Expire \/ UNCHANGED vars
    BY <1>2, <2>3, <2>7 DEF WaveFails, Expire, vars
  <2>8. ~(\/ EnterLoop \/ LoopsDone \/ PassOver \/ JudgeStops \/ MergeNext \/ Complete \/ Fails \/ Crash
          \/ \E silent \in BOOLEAN, v \in Verdicts : Judge(silent, v))
    BY <1>2 DEF EnterLoop, LoopsDone, PassOver, JudgeStops, MergeNext, Complete, Fails, Crash, Judge,
                Bail, NextLoop, Another
  <2> QED BY <2>1, <2>2, <2>4, <2>5, <2>6, <2>7, <2>8 DEF Next, Step, Ids
<1>3. CASE phase' = "post"
  <2>1. CASE NextTier
    <3>1. phase = "post" /\ left' = DuePost(tier + 1) /\ tier' = tier + 1 /\ running' = {} /\ UNCHANGED status
      BY <1>3, <2>1 DEF NextTier, Quiet
    <3>2. \A u \in DuePost(tier + 1) : u \in Tier(tier + 1) \cap PostLoop /\ status[u] # "Completed"
      BY DEF DuePost
    <3> QED BY <1>3, <3>1, <3>2 DEF Lanes
  <2>2. CASE LoopsDone
    <3>1. left' = {} /\ running' = {}
      BY <2>2 DEF LoopsDone, Deferred, PassInv
    <3> QED BY <1>3, <3>1 DEF Lanes
  <2>3. CASE phase = "post" /\ UNCHANGED <<tier, left, running, status>>
    BY <1>3, <2>3 DEF Lanes, Unmet
  <2>4. CASE Expire \/ UNCHANGED vars
    BY <1>3, <2>3, <2>4 DEF Expire, vars
  <2>5. ASSUME NEW u \in Units, SkipUnmet(u)
        PROVE  Lanes'
    <3>1. /\ phase = "post" /\ running = {} /\ UNCHANGED <<tier, running>> /\ left' = left \ {u}
          /\ status' = [status EXCEPT ![u] = "HardFailure"]
      BY <1>3, <2>5 DEF SkipUnmet, Sequential
    <3>2. \A v \in left' : status'[v] # "Completed"
      BY <3>1 DEF Lanes, PassInv, StatusTypes
    <3> QED BY <1>3, <3>1, <3>2 DEF Lanes
  <2>6. ASSUME NEW u \in Units, Launch(u)
        PROVE  Lanes'
    <3>1. /\ phase = "post" /\ running = {} /\ UNCHANGED tier /\ left' = left \ {u} /\ running' = {u}
          /\ u \in left /\ Unmet(u) = {} /\ status' = [status EXCEPT ![u] = "Running"]
      BY <1>3, <2>6 DEF Launch, Sequential
    <3>2. \A v \in left' \cup running' : status'[v] # "Completed"
      BY <3>1 DEF Lanes, PassInv, StatusTypes
    <3>3. status[u] # "Completed"
      BY <3>1 DEF Lanes
    <3>4. \A d \in Deps(u) : status[d] = "Completed" /\ status'[d] = "Completed"
      BY <3>1, <3>3 DEF Unmet, PassInv, StatusTypes
    <3>5. Unmet(u)' = {}
      BY <3>4 DEF Unmet
    <3> QED BY <1>3, <3>1, <3>2, <3>5 DEF Lanes
  <2>7. ASSUME NEW u \in Units, NEW ok \in BOOLEAN, NEW kept \in BOOLEAN, Finish(u, ok, kept)
        PROVE  Lanes'
    <3>1. /\ phase = "post" /\ u \in running /\ running' = running \ {u} /\ left' \in {left, {}}
          /\ UNCHANGED tier
          /\ status' = [status EXCEPT ![u] = IF ok THEN "Completed" ELSE "HardFailure"]
      BY <1>3, <2>7 DEF Finish, Ends, Recorded
    <3>2. running = {u} /\ u \notin left
      BY <3>1 DEF Lanes
    <3>3. \A v \in left' : status'[v] # "Completed"
      BY <3>1, <3>2 DEF Lanes, PassInv, StatusTypes
    <3>4. running' = {} /\ left' \subseteq left
      BY <3>1, <3>2
    <3> QED BY <1>3, <3>1, <3>3, <3>4 DEF Lanes
  <2>8. ~(\/ EnterLoop \/ PassOver \/ JudgeStops \/ MergeNext \/ Complete \/ Fails \/ Crash \/ Start \/ WaveFails
          \/ \E silent \in BOOLEAN, v \in Verdicts : Judge(silent, v))
    BY <1>3 DEF EnterLoop, PassOver, JudgeStops, MergeNext, Complete, Fails, Crash, Start, WaveFails, Judge,
                Bail, NextLoop, Another
  <2>9. /\ ~\E u \in Units : LaunchPass(u)
        /\ ~\E w \in Workers : LaunchWorker(w)
        /\ ~\E u \in Units, ok, kept \in BOOLEAN : FinishParallel(u, ok, kept) \/ FinishPass(u, ok, kept)
        /\ ~\E w \in Workers, ok, kept \in BOOLEAN : FinishWorker(w, ok, kept)
    BY <1>3 DEF LaunchPass, LaunchWorker, FinishParallel, FinishPass, FinishWorker
  <2> QED BY <2>1, <2>2, <2>4, <2>5, <2>6, <2>7, <2>8, <2>9 DEF Next, Step
<1> QED BY <1>1, <1>2, <1>3

BasedInv == Based(status) /\ Based(saved.status)

LEMMA Behind ==
  ASSUME plan \in Plans, NEW d \in Members, NEW u \in Downstream({d})
  PROVE  u \in Members /\ TierOf[d] < TierOf[u] /\ (d \in PostLoop => u \in PostLoop)
<1>1. u \in Members
  BY DEF Downstream, Below, Members
<1>2. TierOf[d] < TierOf[u]
  BY TiersRise
<1>3. ASSUME d \in PostLoop
      PROVE  u \in PostLoop
  BY <1>3, DownstreamTransitive DEF PostLoop
<1> QED BY <1>1, <1>2, <1>3

LEMMA BasedThroughDeps ==
  ASSUME plan \in Plans, Based(status), NEW S, NEW d \in PostLoop \ Bodies, d \notin S,
         NEW u \in S, u \in Downstream({d}),
         \A x \in (UNION {Deps(v) : v \in S}) \ S : status[x] = "Completed"
  PROVE  status[d] = "Completed"
<1>1. PICK x \in (UNION {Deps(v) : v \in S}) \ S : x \in {d} \cup Downstream({d})
  BY WayIn
<1> QED BY <1>1 DEF Based

(* What may happen to one unit's status. *)
LEMMA BasedLowered ==
  ASSUME StatusTypes, Based(status), NEW u \in Ids, NEW s, s # "Completed",
         u \in PostLoop \ Bodies => status[u] # "Completed", PostLoop \subseteq Ids
  PROVE  Based([status EXCEPT ![u] = s])
<1>1. \A v : v # u /\ [status EXCEPT ![u] = s][v] = "Completed" => status[v] = "Completed"
  BY DEF StatusTypes
<1>2. [status EXCEPT ![u] = s][u] # "Completed"
  BY DEF StatusTypes
<1>3. \A d \in PostLoop : d # u /\ status[d] = "Completed" => [status EXCEPT ![u] = s][d] = "Completed"
  BY DEF StatusTypes
<1> QED BY <1>1, <1>2, <1>3 DEF Based

LEMMA BasedRaised ==
  ASSUME StatusTypes, Based(status), NEW u \in Ids, PostLoop \subseteq Ids,
         \A d \in PostLoop \ Bodies : u \in Downstream({d}) => status[d] = "Completed"
  PROVE  Based([status EXCEPT ![u] = "Completed"])
<1>1. \A v : v # u /\ [status EXCEPT ![u] = "Completed"][v] = "Completed" => status[v] = "Completed"
  BY DEF StatusTypes
<1>2. \A d \in PostLoop : status[d] = "Completed" => [status EXCEPT ![u] = "Completed"][d] = "Completed"
  BY DEF StatusTypes
<1> QED BY <1>1, <1>2 DEF Based

LEMMA PostLoopIds ==
  ASSUME plan \in Plans
  PROVE  PostLoop \subseteq Members /\ Members \subseteq Units /\ PostLoop \subseteq Ids
BY AfterLoops, PlanTypes DEF Ids

LEMMA BasedStep ==
  ASSUME TypeInv, PassInv, Lanes, BasedInv, [Next]_vars
  PROVE  BasedInv'
<1> USE DEF runVars, tierVars, stateVars, loopVars, mergeVars, diskVars
<1>1. \A st : Based(st) => (\A d \in (PostLoop \ Bodies)' : \A u \in Downstream({d})' :
                              st[u] = "Completed" => st[d] = "Completed")
  BY PlanKept DEF Based
<1>2. plan \in Plans
  BY DEF TypeInv, TypeOK
<1>3. /\ Based(status') => Based(status)'
      /\ Based(saved.status') => Based(saved.status)'
  BY <1>1 DEF Based
<1>4. ASSUME NEW u \in Units, SkipUnmet(u) \/ Launch(u) \/ LaunchPass(u)
      PROVE  BasedInv'
  <2>1. /\ UNCHANGED saved
        /\ \/ UNCHANGED status
           \/ /\ phase \in {"tiers", "post"} /\ u \in left
              /\ \E s \in {"Running", "HardFailure"} : status' = [status EXCEPT ![u] = s]
    BY <1>4 DEF SkipUnmet, Launch, LaunchPass
  <2>2. ASSUME phase \in {"tiers", "post"}, u \in left
        PROVE  u \in PostLoop => status[u] # "Completed"
    BY <2>2 DEF Lanes
  <2>3. Based(status')
    BY <1>2, <2>1, <2>2, BasedLowered, PostLoopIds DEF BasedInv, PassInv, Ids
  <2> QED BY <1>3, <2>1, <2>3 DEF BasedInv
<1>5. ASSUME NEW w \in Workers, LaunchWorker(w)
      PROVE  BasedInv'
  <2>1. UNCHANGED saved /\ (UNCHANGED status \/ status' = [status EXCEPT ![w] = "Running"])
    BY <1>5 DEF LaunchWorker
  <2>2. w \notin PostLoop /\ w \in Ids
    BY <1>2, PostLoopIds, DisjointAssumption DEF Ids
  <2>3. Based(status')
    BY <1>2, <2>1, <2>2, BasedLowered, PostLoopIds DEF BasedInv, PassInv
  <2> QED BY <1>3, <2>1, <2>3 DEF BasedInv
<1>6. ASSUME NEW u \in Units, NEW ok \in BOOLEAN, NEW kept \in BOOLEAN,
             Finish(u, ok, kept) \/ FinishPass(u, ok, kept)
      PROVE  BasedInv'
  <2>1. /\ status' = [status EXCEPT ![u] = IF ok THEN "Completed" ELSE "HardFailure"]
        /\ saved' = saved \/ saved'.status = status'
        /\ u \in running /\ u \in Ids
        /\ phase \in {"tiers", "post"} \/ (phase = "pass" /\ FinishPass(u, ok, kept))
    BY <1>6 DEF Finish, FinishPass, Recorded, Ids
  <2>2. ASSUME NEW d \in PostLoop \ Bodies, u \in Downstream({d})
        PROVE  status[d] = "Completed"
    <3>0. d \in Members
      BY <1>2, PostLoopIds
    <3>1. CASE phase = "tiers"
      <4>1. u \notin PostLoop
        BY <2>1, <3>1 DEF Lanes
      <4> QED BY <1>2, <2>2, <3>0, <4>1, Behind
    <3>2. CASE phase = "post"
      <4>1. \A x \in Deps(u) : status[x] = "Completed"
        BY <2>1, <3>2 DEF Lanes, Unmet
      <4>2. d # u
        <5>1. TierOf[d] < TierOf[u] /\ TierOf[d] \in Nat
          BY <1>2, <2>2, <3>0, Behind, Tiered
        <5> QED BY <5>1
      <4>3. (UNION {Deps(v) : v \in {u}}) \ {u} \subseteq Deps(u)
        OBVIOUS
      <4> QED BY <1>2, <2>2, <4>1, <4>2, <4>3, BasedThroughDeps DEF BasedInv
    <3>3. CASE phase = "pass"
      <4>1. u \in Loop.body /\ Ready
        BY <2>1, <3>3 DEF PassInv
      <4>2. Loop.body \subseteq Bodies
        <5>1. Loops \in Seq(Blocks) /\ lp \in Nat /\ lp # 0 /\ lp <= Len(Loops)
          BY <1>2, <3>3, PlanTypes DEF TypeInv, TypeOK
        <5>2. lp \in DOMAIN Loops
          BY <5>1
        <5> QED BY <5>2 DEF Bodies, Loop
      <4>3. d \notin Loop.body
        BY <4>2
      <4>4. \A x \in (UNION {Deps(v) : v \in Loop.body}) \ Loop.body : status[x] = "Completed"
        BY <4>1 DEF Ready, OutsideDeps
      <4> HIDE DEF Loop
      <4> QED BY <1>2, <2>2, <4>1, <4>3, <4>4, BasedThroughDeps DEF BasedInv
    <3> QED BY <2>1, <3>1, <3>2, <3>3
  <2>3. CASE ok
    BY <1>2, <1>3, <2>1, <2>2, <2>3, BasedRaised, PostLoopIds DEF BasedInv, PassInv
  <2>4. CASE ~ok
    <3>1. u \in PostLoop \ Bodies => status[u] # "Completed"
      <4>1. CASE phase = "pass"
        <5>1. Loops \in Seq(Blocks) /\ lp \in Nat /\ lp # 0 /\ lp <= Len(Loops)
          BY <1>2, <4>1, PlanTypes DEF TypeInv, TypeOK
        <5>2. lp \in DOMAIN Loops
          BY <5>1
        <5> QED BY <2>1, <4>1, <5>2 DEF Bodies, Loop, PassInv
      <4> QED BY <2>1, <4>1 DEF Lanes
    <3> QED BY <1>2, <1>3, <2>1, <2>4, <3>1, BasedLowered, PostLoopIds DEF BasedInv, PassInv
  <2> QED BY <2>3, <2>4
<1>7. ASSUME NEW w \in Workers, NEW ok \in BOOLEAN, NEW kept \in BOOLEAN, FinishWorker(w, ok, kept)
      PROVE  BasedInv'
  <2>1. /\ status' = [status EXCEPT ![w] = IF ok THEN "Completed" ELSE "HardFailure"]
        /\ saved'.status = status' /\ w \in Ids
    BY <1>7 DEF FinishWorker, Recorded, Ids
  <2>2. w \notin Members /\ w \notin PostLoop
    BY <1>2, PostLoopIds, DisjointAssumption
  <2>3. \A d \in Members : w \notin Downstream({d})
    BY <1>2, <2>2, Behind
  <2>4. Based(status')
    <3>1. \A d \in PostLoop \ Bodies : w \in Downstream({d}) => status[d] = "Completed"
      BY <1>2, <2>3, PostLoopIds
    <3>2. CASE ok
      BY <1>2, <2>1, <3>1, <3>2, BasedRaised, PostLoopIds DEF BasedInv, PassInv
    <3>3. CASE ~ok
      <4>1. status' = [status EXCEPT ![w] = "HardFailure"]
        BY <2>1, <3>3
      <4>2. StatusTypes /\ Based(status) /\ PostLoop \subseteq Ids /\ w \in Ids
        BY <1>2, <2>1, PostLoopIds DEF BasedInv, PassInv
      <4>3. Based([status EXCEPT ![w] = "HardFailure"])
        BY <2>2, <4>2, BasedLowered
      <4> QED BY <4>1, <4>3
    <3> QED BY <3>2, <3>3
  <2> QED BY <1>3, <2>1, <2>4 DEF BasedInv
<1>8. Based(Fresh.status)
  <2>1. \A d \in Members : \A u \in Downstream({d}) : u \in Ids
    BY <1>2, Behind, PostLoopIds DEF Ids
  <2> QED BY <1>2, <2>1, PostLoopIds, FreshTypes DEF Based
<1>9. CASE Start
  BY <1>3, <1>8, <1>9 DEF Start, BasedInv
<1>10. CASE Crash
  BY <1>3, <1>8, <1>10 DEF Crash, BasedInv
<1>11. CASE \/ NextTier \/ EnterLoop \/ LoopsDone \/ PassOver \/ JudgeStops \/ MergeNext \/ Complete
           \/ WaveFails \/ Fails \/ Expire \/ UNCHANGED vars
  <2>1. UNCHANGED <<status, saved>>
    BY <1>11 DEF NextTier, EnterLoop, LoopsDone, PassOver, JudgeStops, MergeNext, Complete, WaveFails,
                Fails, Expire, vars
  <2> QED BY <1>3, <2>1 DEF BasedInv
<1>12. ASSUME NEW u \in Units, NEW ok \in BOOLEAN, NEW kept \in BOOLEAN, FinishParallel(u, ok, kept)
       PROVE  BasedInv'
  <2>1. UNCHANGED <<status, saved>>
    BY <1>12 DEF FinishParallel
  <2> QED BY <1>3, <2>1 DEF BasedInv
<1>13. ASSUME NEW silent \in BOOLEAN, NEW v \in Verdicts, Judge(silent, v)
       PROVE  BasedInv'
  <2>1. UNCHANGED <<status, saved>>
    BY <1>13 DEF Judge
  <2> QED BY <1>3, <2>1 DEF BasedInv
<1> QED BY <1>4, <1>5, <1>6, <1>7, <1>9, <1>10, <1>11, <1>12, <1>13 DEF Next, Step

RunInv == TypeInv /\ PassInv /\ Deferred /\ Lanes /\ BasedInv

(* How execute moves on, and whose status changes when. *)
Moved ==
  /\ phase' = "tiers" => phase = "tiers" /\ tier' \in {tier, tier + 1}
  /\ phase' \in {"enter", "pass", "judge"} =>
       \/ phase = "tiers" /\ phase' = "enter" /\ UNCHANGED status
       \/ phase \in {"enter", "pass", "judge"} /\ lp' \in {lp, lp + 1} /\ UNCHANGED status
       \/ /\ phase = "pass" /\ UNCHANGED lp
          /\ \E v \in running, s \in Statuses : status' = [status EXCEPT ![v] = s]
  /\ phase' = "post" =>
       \/ phase = "enter" /\ UNCHANGED status
       \/ phase = "post" /\ tier' \in {tier, tier + 1} /\ UNCHANGED status
       \/ /\ phase = "post" /\ UNCHANGED tier
          /\ \E v \in left \cup running, s \in Statuses : status' = [status EXCEPT ![v] = s]
  /\ phase' = "merge" => phase \in {"post", "merge"} /\ UNCHANGED status

LEMMA Moves ==
  ASSUME [Next]_vars, ~Start
  PROVE  Moved
<1> USE DEF runVars, tierVars, stateVars, loopVars, mergeVars, diskVars
<1>1. ASSUME NEW u \in Units, SkipUnmet(u)
      PROVE  Moved
  BY <1>1 DEF SkipUnmet, Statuses, Moved
<1>2. ASSUME NEW u \in Units, Launch(u)
      PROVE  Moved
  BY <1>2 DEF Launch, Statuses, Moved
<1>3. ASSUME NEW u \in Units, LaunchPass(u)
      PROVE  Moved
  BY <1>3 DEF LaunchPass, Moved
<1>4. ASSUME NEW w \in Workers, LaunchWorker(w)
      PROVE  Moved
  BY <1>4 DEF LaunchWorker, Moved
<1>5. ASSUME NEW u \in Units, NEW ok \in BOOLEAN, NEW kept \in BOOLEAN,
             Finish(u, ok, kept) \/ FinishPass(u, ok, kept)
      PROVE  Moved
  BY <1>5 DEF Finish, FinishPass, Recorded, Statuses, Moved
<1>6. ASSUME NEW u \in Units, NEW ok \in BOOLEAN, NEW kept \in BOOLEAN, FinishParallel(u, ok, kept)
      PROVE  Moved
  BY <1>6 DEF FinishParallel, Moved
<1>7. ASSUME NEW w \in Workers, NEW ok \in BOOLEAN, NEW kept \in BOOLEAN, FinishWorker(w, ok, kept)
      PROVE  Moved
  BY <1>7 DEF FinishWorker, Moved
<1>8. ASSUME NEW silent \in BOOLEAN, NEW v \in Verdicts, Judge(silent, v)
      PROVE  Moved
  BY <1>8 DEF Judge, NextLoop, Another, Moved
<1>9. CASE NextTier
  BY <1>9 DEF NextTier, Moved
<1>10. CASE EnterLoop
  BY <1>10 DEF EnterLoop, NextLoop, Bail, Moved
<1>11. CASE LoopsDone \/ PassOver \/ JudgeStops
  BY <1>11 DEF LoopsDone, PassOver, JudgeStops, NextLoop, Bail, Moved
<1>12. CASE MergeNext \/ Complete \/ Fails \/ Crash
  BY <1>12 DEF MergeNext, Complete, Fails, Crash, Bail, Moved
<1>13. CASE WaveFails \/ Expire \/ UNCHANGED vars
  BY <1>13 DEF WaveFails, Expire, vars, Moved
<1>14. CASE Step
  <2>1. CASE \E u \in Units : SkipUnmet(u) \/ Launch(u) \/ LaunchPass(u)
    BY <1>1, <1>2, <1>3, <2>1
  <2>2. CASE \E u \in Units, ok, kept \in BOOLEAN :
               Finish(u, ok, kept) \/ FinishParallel(u, ok, kept) \/ FinishPass(u, ok, kept)
    BY <1>5, <1>6, <2>2
  <2>3. CASE \/ \E w \in Workers : LaunchWorker(w)
             \/ \E w \in Workers, ok, kept \in BOOLEAN : FinishWorker(w, ok, kept)
             \/ \E silent \in BOOLEAN, v \in Verdicts : Judge(silent, v)
    BY <1>4, <1>7, <1>8, <2>3
  <2> QED BY <1>9, <1>10, <1>11, <1>12, <1>14, <2>1, <2>2, <2>3 DEF Step
<1> QED BY <1>12, <1>13, <1>14 DEF Next

LEMMA RunningLoop ==
  ASSUME TypeInv, phase \in {"pass", "judge"}
  PROVE  lp \in DOMAIN Loops /\ Loop = Loops[lp]
<1>1. Loops \in Seq(Blocks) /\ lp \in Nat /\ lp # 0 /\ lp <= Len(Loops)
  BY PlanTypes DEF TypeInv, TypeOK
<1> QED BY <1>1 DEF Loop

LEMMA AccountedStep ==
  ASSUME RunInv, [Next]_vars, ~Start, NEW u, Accounted(u)
  PROVE  Accounted(u)'
<1>1. plan \in Plans /\ tier \in Nat /\ lp \in Nat /\ StatusTypes
  BY DEF RunInv, TypeInv, TypeOK, PassInv
<1>2. \A i \in DOMAIN Loops : i \in Nat
  <2>1. Loops \in Seq(Blocks)
    BY <1>1, PlanTypes
  <2> QED BY <2>1
<1>3. \A j : (\A d \in PostLoop \ Loops[j].body :
                 u \in Downstream({d}) /\ status[d] = "Completed" => status'[d] = "Completed")
              /\ Held(u, j) => Held(u, j)'
  BY PlanKept DEF Held
<1>4. CASE phase' = "tiers"
  <2>1. phase = "tiers" /\ tier' \in {tier, tier + 1}
    BY <1>4, Moves DEF Moved
  <2>2. u \notin PostLoop' /\ (u \in Members' => u \in Members /\ TierOf'[u] = TierOf[u] /\ TierOf[u] <= tier)
    BY <2>1, PlanKept DEF Accounted
  <2>3. u \in Members => TierOf[u] <= tier'
    <3>1. \A v \in Members : TierOf[v] \in Nat
      BY <1>1, Tiered
    <3> QED BY <1>1, <2>1, <2>2, <3>1, PlanKept
  <2> QED BY <1>4, <2>2, <2>3 DEF Accounted
<1>5. CASE phase' \in {"enter", "pass", "judge"}
  <2>1. SUFFICES ASSUME u \in PostLoop
                 PROVE  \E j \in DOMAIN Loops : j <= lp' /\ u \in Loops[j].body /\ Held(u, j)'
    BY <1>5, PlanKept DEF Accounted
  <2>2. phase \in {"enter", "pass", "judge"} /\ lp' \in {lp, lp + 1}
    BY <1>5, <2>1, Moves DEF Accounted, Moved
  <2>3. PICK j \in DOMAIN Loops : j <= lp /\ u \in Loops[j].body /\ Held(u, j)
    BY <2>1, <2>2 DEF Accounted
  <2>4. j <= lp'
    BY <1>1, <1>2, <2>2, <2>3
  <2>5. CASE UNCHANGED status
    BY <1>3, <2>3, <2>4, <2>5
  <2>6. ASSUME phase = "pass", NEW v \in running, NEW s \in Statuses, status' = [status EXCEPT ![v] = s]
        PROVE  Held(u, j)'
    <3>1. v \in Loops[lp].body /\ lp \in DOMAIN Loops
      BY <2>6, RunningLoop DEF RunInv, PassInv
    <3>2. ASSUME NEW d \in PostLoop \ Loops[j].body, u \in Downstream({d})
          PROVE  d # v
      <4>1. CASE j = lp
        BY <3>1, <4>1
      <4>2. CASE j < lp
        <5>1. u \notin Downstream(Loops[lp].body)
          BY <1>1, <2>3, <3>1, <4>2, LoopOrder
        <5>2. d \notin Loops[lp].body
          BY <3>2, <5>1, DownstreamTransitive
        <5> QED BY <3>1, <5>2
      <4> QED BY <1>1, <1>2, <2>3, <4>1, <4>2
    <3>3. \A d : d # v /\ status[d] = "Completed" => status'[d] = "Completed"
      BY <1>1, <2>6 DEF StatusTypes
    <3> QED BY <1>3, <2>3, <3>2, <3>3
  <2> QED BY <1>5, <2>2, <2>3, <2>4, <2>5, <2>6, Moves DEF Moved
<1>6. CASE phase' = "post"
  <2>1. SUFFICES ASSUME u \in PostLoop
                 PROVE  TierOf[u] <= tier' \/ \E j \in DOMAIN Loops : u \in Loops[j].body /\ Held(u, j)'
    BY <1>6, PlanKept DEF Accounted
  <2>2. CASE UNCHANGED status
    <3>1. phase = "enter" \/ (phase = "post" /\ tier' \in {tier, tier + 1})
      BY <1>6, Moves DEF Moved
    <3>2. \/ phase = "post" /\ TierOf[u] <= tier
          \/ \E j \in DOMAIN Loops : u \in Loops[j].body /\ Held(u, j)
      BY <2>1, <3>1 DEF Accounted
    <3>3. TierOf[u] \in Nat
      BY <1>1, <2>1, PostLoopIds, Tiered
    <3>4. phase = "post" /\ TierOf[u] <= tier => TierOf[u] <= tier'
      BY <1>1, <3>1, <3>3
    <3> QED BY <1>3, <2>2, <3>2, <3>4
  <2>3. ASSUME phase = "post", UNCHANGED tier, NEW v \in left \cup running, NEW s \in Statuses,
               status' = [status EXCEPT ![v] = s]
        PROVE  TierOf[u] <= tier' \/ \E j \in DOMAIN Loops : u \in Loops[j].body /\ Held(u, j)'
    <3>1. status[v] # "Completed"
      BY <2>3 DEF RunInv, Lanes
    <3>2. \A d : status[d] = "Completed" => status'[d] = "Completed"
      BY <1>1, <2>3, <3>1 DEF StatusTypes
    <3>3. TierOf[u] <= tier \/ \E j \in DOMAIN Loops : u \in Loops[j].body /\ Held(u, j)
      BY <2>1, <2>3 DEF Accounted
    <3> QED BY <1>3, <2>3, <3>2, <3>3
  <2> QED BY <1>6, <2>2, <2>3, Moves DEF Moved
<1>7. CASE phase' \notin {"tiers", "enter", "pass", "judge", "post"}
  BY <1>7 DEF Accounted
<1> QED BY <1>4, <1>5, <1>6, <1>7

(* Only an agent at work, or one skipped, is reported; the first of them on a branch. *)
Reporting ==
  \E u \in Ids, m \in Reported :
    /\ manifests' = Append(manifests, m) /\ m.unit = u
    /\ m.on = "branch" => u \in running /\ phase \in {"tiers", "pass", "post"}

LEMMA EndReported ==
  ASSUME TypeOK, NEW u \in running, NEW ok \in BOOLEAN, NEW kept \in BOOLEAN, Ends(u, ok, kept),
         phase \in {"tiers", "pass", "post"}
  PROVE  Reporting
<1> DEFINE wrote == IF ok /\ kept THEN {<<u, done[u] + 1>>} ELSE {}
           m == IF ~ok \/ ~UseWorktrees THEN Manifest(u, ok, "none", {})
                ELSE IF OnChain THEN Manifest(u, ok, "chain", anchor \cup wrote)
                ELSE Manifest(u, ok, "branch", {})
<1>1. u \in Ids /\ done[u] \in Nat /\ anchor \subseteq Work
  BY DEF TypeOK
<1>2. wrote \subseteq Work
  BY <1>1 DEF Work
<1>3. m \in Reported /\ m.unit = u
  <2> HIDE DEF wrote
  <2> QED BY <1>1, <1>2 DEF Manifest, Reported
<1>4. manifests' = Append(manifests, m)
  BY DEF Ends
<1> HIDE DEF m
<1> QED BY <1>1, <1>3, <1>4 DEF Reporting

LEMMA WhoReports ==
  ASSUME TypeOK, [Next]_vars
  PROVE  manifests' \in {manifests, <<>>} \/ (Reporting /\ ~Start)
<1> USE DEF runVars, tierVars, stateVars, loopVars, mergeVars, diskVars
<1>1. ASSUME NEW u \in Units, SkipUnmet(u)
      PROVE  Reporting /\ ~Start
  <2> DEFINE m == Manifest(u, FALSE, "none", {})
  <2>1. manifests' = Append(manifests, m) /\ phase \in {"tiers", "post"}
    BY <1>1 DEF SkipUnmet
  <2>2. m \in Reported /\ m.unit = u /\ m.on # "branch" /\ u \in Ids
    BY DEF Manifest, Reported, Ids
  <2> HIDE DEF m
  <2> QED BY <2>1, <2>2 DEF Reporting, Start
<1>2. ASSUME NEW u \in Ids, NEW ok \in BOOLEAN, NEW kept \in BOOLEAN,
             \/ Finish(u, ok, kept) \/ FinishPass(u, ok, kept) \/ FinishParallel(u, ok, kept)
             \/ FinishWorker(u, ok, kept)
      PROVE  Reporting /\ ~Start
  <2>1. Ends(u, ok, kept) /\ u \in running /\ phase \in {"tiers", "pass", "post"}
    BY <1>2 DEF Finish, FinishPass, FinishParallel, FinishWorker
  <2> QED BY <2>1, EndReported DEF Start
<1>3. ASSUME NEW u \in Units, Launch(u) \/ LaunchPass(u)
      PROVE  UNCHANGED manifests
  BY <1>3 DEF Launch, LaunchPass
<1>4. ASSUME NEW w \in Workers, LaunchWorker(w)
      PROVE  UNCHANGED manifests
  BY <1>4 DEF LaunchWorker
<1>5. ASSUME NEW silent \in BOOLEAN, NEW v \in Verdicts, Judge(silent, v)
      PROVE  UNCHANGED manifests
  BY <1>5 DEF Judge
<1>6. CASE NextTier \/ EnterLoop \/ LoopsDone \/ PassOver \/ JudgeStops \/ MergeNext \/ Complete
  BY <1>6 DEF NextTier, EnterLoop, LoopsDone, PassOver, JudgeStops, MergeNext, Complete
<1>7. CASE WaveFails \/ Fails \/ Start \/ Crash \/ Expire \/ UNCHANGED vars
  BY <1>7 DEF WaveFails, Fails, Start, Crash, Expire, vars
<1> QED BY <1>1, <1>2, <1>3, <1>4, <1>5, <1>6, <1>7 DEF Next, Step, Ids

(* A branch is reported by an agent that may be placed, and none behind it was before. *)
LEMMA Reporter ==
  ASSUME RunInv, Placed, NEW u \in running, phase \in {"tiers", "pass", "post"}
  PROVE  /\ Accounted(u)
         /\ u \in Members => \A v \in Downstream({u}) : Accounted(v) => OneLoop(v, u)
<1>1. plan \in Plans /\ tier \in Nat /\ lp \in Nat /\ StatusTypes /\ running \subseteq Ids
  BY DEF RunInv, TypeInv, TypeOK, PassInv
<1>2. \A v \in Members : TierOf[v] \in Nat
  BY <1>1, Tiered
<1>3. u \in Members => \A v \in Downstream({u}) : v \in Members /\ TierOf[u] < TierOf[v]
                                                /\ (u \in PostLoop => v \in PostLoop)
  BY <1>1, Behind
<1>4. CASE phase = "tiers"
  <2>1. u \notin PostLoop /\ (u \in Members => TierOf[u] = tier)
    <3>1. CASE u \in Units
      BY <1>4, <3>1 DEF RunInv, Lanes, Tier
    <3>2. CASE u \notin Units
      BY <1>1, <3>2, PostLoopIds
    <3> QED BY <3>1, <3>2
  <2>2. Accounted(u)
    BY <1>1, <1>4, <2>1 DEF Accounted
  <2>3. ASSUME u \in Members, NEW v \in Downstream({u}), Accounted(v)
        PROVE  FALSE
    <3>1. v \in Members /\ TierOf[u] < TierOf[v] /\ TierOf[v] <= tier /\ TierOf[u] = tier
      BY <1>3, <1>4, <2>1, <2>3 DEF Accounted
    <3> QED BY <1>1, <1>2, <3>1
  <2> QED BY <2>2, <2>3
<1>5. CASE phase = "post"
  <2>1. u \in Tier(tier) \cap PostLoop /\ status[u] # "Completed"
    BY <1>5 DEF RunInv, Lanes
  <2>2. u \in Members /\ TierOf[u] = tier
    BY <2>1 DEF Tier
  <2>3. Accounted(u)
    BY <1>1, <1>5, <2>2 DEF Accounted
  <2>4. ASSUME NEW v \in Downstream({u}), Accounted(v)
        PROVE  OneLoop(v, u)
    <3>1. v \in PostLoop /\ ~(TierOf[v] <= tier)
      BY <1>1, <1>2, <1>3, <2>1, <2>2, <2>4
    <3>2. PICK j \in DOMAIN Loops : v \in Loops[j].body /\ Held(v, j)
      BY <1>5, <2>4, <3>1 DEF Accounted
    <3>3. u \in Loops[j].body
      BY <2>1, <2>4, <3>2 DEF Held
    <3> QED BY <3>2, <3>3 DEF OneLoop
  <2> QED BY <2>3, <2>4
<1>6. CASE phase = "pass"
  <2>1. lp \in DOMAIN Loops /\ u \in Loops[lp].body /\ Ready /\ Loop = Loops[lp]
    BY <1>6, RunningLoop DEF RunInv, PassInv
  <2>2. \A i \in DOMAIN Loops : i \in Nat
    <3>1. Loops \in Seq(Blocks)
      BY <1>1, PlanTypes
    <3> QED BY <3>1
  <2>3. ASSUME NEW d \in PostLoop \ Loops[lp].body, u \in Downstream({d})
        PROVE  status[d] = "Completed"
    <3>1. CASE d \notin Bodies
      <4>1. \A x \in (UNION {Deps(v) : v \in Loops[lp].body}) \ Loops[lp].body : status[x] = "Completed"
        BY <2>1 DEF Ready, OutsideDeps
      <4> QED BY <1>1, <2>1, <2>3, <3>1, <4>1, BasedThroughDeps DEF RunInv, BasedInv
    <3>2. ASSUME NEW i \in DOMAIN Loops, d \in Loops[i].body
          PROVE  status[d] = "Completed"
      <4>1. CASE i < lp
        <5>1. d \in Deps(u)
          BY <1>1, <2>1, <3>2, <4>1, LoopOrder
        <5> QED BY <2>1, <2>3, <5>1 DEF Ready, OutsideDeps
      <4>2. CASE lp < i
        <5>1. u \notin Downstream(Loops[i].body)
          BY <1>1, <2>1, <4>2, LoopOrder
        <5> QED BY <2>3, <3>2, <5>1, DownstreamTransitive
      <4>3. i # lp
        BY <2>3, <3>2
      <4> QED BY <1>1, <2>2, <4>1, <4>2, <4>3
    <3> QED BY <3>1, <3>2 DEF Bodies
  <2>4. Accounted(u)
    <3>1. Held(u, lp)
      BY <2>3 DEF Held
    <3>2. lp <= lp
      BY <1>1
    <3> QED BY <1>6, <2>1, <3>1, <3>2 DEF Accounted
  <2>5. ASSUME NEW v \in Downstream({u}), Accounted(v)
        PROVE  OneLoop(v, u)
    <3>1. v \in Downstream(Loops[lp].body) /\ v \in PostLoop
      BY <2>1, <2>5, DownstreamTransitive, AfterLoops
    <3>2. PICK j \in DOMAIN Loops : j <= lp /\ v \in Loops[j].body
      BY <1>6, <2>5, <3>1 DEF Accounted
    <3>3. ~(j < lp)
      BY <1>1, <2>1, <3>1, <3>2, LoopOrder
    <3>4. j = lp
      BY <1>1, <2>2, <3>2, <3>3
    <3> QED BY <2>1, <3>2, <3>4 DEF OneLoop
  <2> QED BY <2>4, <2>5
<1> QED BY <1>4, <1>5, <1>6

LEMMA OrderStep ==
  ASSUME RunInv, Placed, InOrder, [Next]_vars
  PROVE  Placed' /\ InOrder'
<1>1. manifests \in Seq(Reported) /\ TypeOK
  BY DEF RunInv, TypeInv, TypeOK, Reported
<1>2. CASE manifests' = <<>>
  BY <1>2 DEF Placed, InOrder, OnBranch
<1>3. CASE manifests' = manifests /\ ~Start
  <2>1. OnBranch' = OnBranch
    BY <1>3 DEF OnBranch
  <2>2. Placed'
    BY <1>3, <2>1, AccountedStep DEF Placed
  <2>3. InOrder'
    BY <1>3, <2>1, PlanKept DEF InOrder, OneLoop
  <2> QED BY <2>2, <2>3
<1>4. CASE Reporting /\ ~Start
  <2>1. PICK u \in Ids, m \in Reported :
          /\ manifests' = Append(manifests, m) /\ m.unit = u
          /\ m.on = "branch" => u \in running /\ phase \in {"tiers", "pass", "post"}
    BY <1>4 DEF Reporting
  <2> DEFINE n == Len(manifests) + 1
  <2>2. /\ DOMAIN manifests' = DOMAIN manifests \cup {n} /\ manifests'[n] = m
        /\ \A x \in DOMAIN manifests : manifests'[x] = manifests[x] /\ x \in Nat /\ x < n
        /\ n \in Nat
    BY <1>1, <2>1
  <2> HIDE DEF n
  <2>3. OnBranch' = OnBranch \cup (IF m.on = "branch" THEN {n} ELSE {})
    BY <2>2 DEF OnBranch
  <2>4. \A x \in OnBranch : manifests'[x] = manifests[x] /\ x \in Nat /\ x < n
    BY <2>2 DEF OnBranch
  <2>5. m.on = "branch" =>
          /\ Accounted(u)
          /\ u \in Members => \A v \in Downstream({u}) : Accounted(v) => OneLoop(v, u)
    BY <2>1, Reporter
  <2>6. Placed'
    <3>1. ASSUME NEW x \in OnBranch'
          PROVE  Accounted(manifests'[x].unit)
      <4>1. CASE x \in OnBranch
        BY <2>4, <4>1 DEF Placed
      <4>2. CASE x = n /\ m.on = "branch"
        BY <2>1, <2>2, <2>5, <4>2
      <4> QED BY <2>3, <3>1, <4>1, <4>2
    <3>2. \A v : Accounted(v) => Accounted(v)'
      BY <1>4, AccountedStep
    <3> QED BY <3>1, <3>2 DEF Placed
  <2>7. ASSUME NEW x \in OnBranch', NEW y \in OnBranch', x < y, manifests'[y].unit \in Members,
               manifests'[x].unit \in Downstream({manifests'[y].unit})
        PROVE  OneLoop(manifests'[x].unit, manifests'[y].unit)
    <3>1. x \in OnBranch
      BY <2>2, <2>3, <2>4, <2>7
    <3>2. CASE y \in OnBranch
      BY <2>4, <2>7, <3>1, <3>2 DEF InOrder
    <3>3. CASE y = n /\ m.on = "branch"
      <4>1. manifests'[y].unit = u /\ Accounted(manifests'[x].unit)
        BY <2>1, <2>2, <2>4, <3>1, <3>3 DEF Placed
      <4> QED BY <2>5, <2>7, <3>3, <4>1
    <3> QED BY <2>3, <3>2, <3>3
  <2>8. InOrder'
    BY <2>7, PlanKept DEF InOrder, OneLoop
  <2> QED BY <2>6, <2>8
<1>5. Start => manifests' = <<>>
  BY DEF Start
<1> QED BY <1>1, <1>2, <1>3, <1>4, <1>5, WhoReports

(* What the merge has reached was reported. *)
LEMMA MergingStep ==
  ASSUME RunInv, InOrder, Merging, [Next]_vars
  PROVE  Merging'
<1> USE DEF runVars, tierVars, stateVars, loopVars, mergeVars, diskVars
<1>1. next \in Nat /\ next # 0 /\ manifests \in Seq(Reported) /\ merged \in Seq(Ids)
  BY DEF RunInv, TypeInv, TypeOK, Reported
<1>2. CASE Start
  BY <1>2 DEF Start, Merging, MergedInOrder
<1>3. CASE MergeNext
  <2>1. /\ phase = "merge" /\ phase' = "merge" /\ next' = next + 1 /\ manifests' = manifests
        /\ next \in DOMAIN manifests
    BY <1>1, <1>3 DEF MergeNext
  <2>2. OnBranch' = OnBranch /\ \A x \in OnBranch : x \in Nat
    BY <1>1, <2>1 DEF OnBranch
  <2>3. \A i \in DOMAIN merged : \E x \in OnBranch : x < next /\ manifests[x].unit = merged[i]
    BY <2>1 DEF Merging
  <2>4. CASE merged' = merged
    <3>1. MergedInOrder'
      BY <2>4, PlanKept DEF Merging, MergedInOrder, Upstream
    <3>2. \A i \in DOMAIN merged : \E x \in OnBranch : x < next + 1 /\ manifests[x].unit = merged[i]
      BY <1>1, <2>2, <2>3
    <3> QED BY <2>1, <2>2, <2>4, <3>1, <3>2 DEF Merging
  <2>5. CASE Coming.on = "branch" /\ merged' = Append(merged, Coming.unit)
    <3> DEFINE n == Len(merged) + 1
    <3>1. next \in OnBranch
      BY <2>1, <2>5 DEF OnBranch, Coming
    <3>2. /\ DOMAIN merged' = DOMAIN merged \cup {n} /\ merged'[n] = manifests[next].unit
          /\ \A i \in DOMAIN merged : merged'[i] = merged[i] /\ i \in Nat /\ i < n
          /\ n \in Nat
      BY <1>1, <2>5 DEF Coming
    <3> HIDE DEF n
    <3>3. ASSUME NEW i \in DOMAIN merged'
          PROVE  \E x \in OnBranch : x < next + 1 /\ manifests[x].unit = merged'[i]
      <4>1. CASE i \in DOMAIN merged
        BY <1>1, <2>2, <2>3, <3>2, <4>1
      <4>2. CASE i = n
        BY <1>1, <3>1, <3>2, <4>2
      <4> QED BY <3>2, <3>3, <4>1, <4>2
    <3>4. ASSUME NEW i \in DOMAIN merged', NEW j \in DOMAIN merged', i < j,
                 merged'[j] \in Upstream({merged'[i]})
          PROVE  OneLoop(merged'[i], merged'[j])
      <4>1. i \in DOMAIN merged
        BY <3>2, <3>4
      <4>2. CASE j \in DOMAIN merged
        BY <3>2, <3>4, <4>1, <4>2 DEF Merging, MergedInOrder, OneLoop
      <4>3. CASE j = n
        <5>1. PICK x \in OnBranch : x < next /\ manifests[x].unit = merged[i]
          BY <2>3, <4>1
        <5>2. merged'[i] = manifests[x].unit /\ merged'[j] = manifests[next].unit
          BY <3>2, <4>1, <4>3, <5>1
        <5>3. merged'[j] \in Members /\ merged'[i] \in Downstream({merged'[j]})
          BY <3>4 DEF Upstream
        <5> QED BY <3>1, <5>1, <5>2, <5>3 DEF InOrder
      <4> QED BY <3>2, <4>2, <4>3
    <3>5. MergedInOrder'
      BY <3>4, PlanKept DEF MergedInOrder, Upstream, OneLoop
    <3> QED BY <2>1, <2>2, <3>3, <3>5 DEF Merging
  <2> QED BY <1>3, <2>4, <2>5 DEF MergeNext
<1>4. CASE ~Start /\ ~MergeNext
  <2>1. UNCHANGED mergeVars
    <3>1. \A u \in Units : SkipUnmet(u) \/ Launch(u) \/ LaunchPass(u) => UNCHANGED mergeVars
      BY DEF SkipUnmet, Launch, LaunchPass
    <3>2. \A w \in Workers : LaunchWorker(w) => UNCHANGED mergeVars
      BY DEF LaunchWorker
    <3>3. \A u \in Units, ok, kept \in BOOLEAN :
            Finish(u, ok, kept) \/ FinishParallel(u, ok, kept) \/ FinishPass(u, ok, kept)
              => UNCHANGED mergeVars
      BY DEF Finish, FinishParallel, FinishPass
    <3>4. \A w \in Workers, ok, kept \in BOOLEAN : FinishWorker(w, ok, kept) => UNCHANGED mergeVars
      BY DEF FinishWorker
    <3>5. \A silent \in BOOLEAN, v \in Verdicts : Judge(silent, v) => UNCHANGED mergeVars
      BY DEF Judge
    <3>6. NextTier \/ EnterLoop \/ LoopsDone \/ PassOver \/ JudgeStops \/ Complete \/ WaveFails
            \/ Fails \/ Crash \/ Expire \/ UNCHANGED vars => UNCHANGED mergeVars
      BY DEF NextTier, EnterLoop, LoopsDone, PassOver, JudgeStops, Complete, WaveFails, Fails, Crash,
             Expire, vars
    <3> HIDE DEF mergeVars
    <3> QED BY <1>4, <3>1, <3>2, <3>3, <3>4, <3>5, <3>6 DEF Next, Step
  <2>2. MergedInOrder'
    BY <2>1, PlanKept DEF Merging, MergedInOrder, Upstream
  <2>3. CASE phase' \in {"tiers", "enter", "pass", "judge", "post"}
    BY <1>4, <2>1, <2>2, <2>3, Moves DEF Merging, Moved
  <2>4. CASE phase' = "merge" /\ phase = "post"
    BY <2>1, <2>2, <2>4 DEF Merging
  <2>5. CASE phase' = "merge" /\ phase = "merge"
    <3>1. manifests' = manifests
      <4>1. ASSUME NEW u \in Units, SkipUnmet(u) \/ Launch(u) \/ LaunchPass(u)
            PROVE  FALSE
        BY <2>5, <4>1 DEF SkipUnmet, Launch, LaunchPass
      <4>2. ASSUME NEW w \in Workers, LaunchWorker(w)
            PROVE  FALSE
        BY <2>5, <4>2 DEF LaunchWorker
      <4>3. ASSUME NEW u \in Ids, NEW ok \in BOOLEAN, NEW kept \in BOOLEAN,
                   \/ Finish(u, ok, kept) \/ FinishPass(u, ok, kept) \/ FinishParallel(u, ok, kept)
                   \/ FinishWorker(u, ok, kept)
            PROVE  FALSE
        BY <2>5, <4>3 DEF Finish, FinishPass, FinishParallel, FinishWorker
      <4>4. ~\E silent \in BOOLEAN, v \in Verdicts : Judge(silent, v)
        BY <2>5 DEF Judge
      <4>5. ~(NextTier \/ EnterLoop \/ LoopsDone \/ PassOver \/ JudgeStops \/ Complete \/ WaveFails)
        BY <2>5 DEF NextTier, EnterLoop, LoopsDone, PassOver, JudgeStops, Complete, WaveFails
      <4>6. Fails \/ Crash \/ Expire \/ UNCHANGED vars => manifests' = manifests
        BY DEF Fails, Crash, Expire, vars
      <4> QED BY <1>4, <4>1, <4>2, <4>3, <4>4, <4>5, <4>6 DEF Next, Step, Ids
    <3> QED BY <2>1, <2>2, <2>5, <3>1 DEF Merging, OnBranch
  <2>6. CASE phase' \notin {"tiers", "enter", "pass", "judge", "post", "merge"}
    BY <2>2, <2>6 DEF Merging
  <2> QED BY <1>4, <2>3, <2>4, <2>5, <2>6, Moves DEF Moved
<1> QED BY <1>2, <1>3, <1>4

OrderInv == RunInv /\ Placed /\ InOrder /\ Merging

LEMMA OrderInitial ==
  ASSUME Init
  PROVE  OrderInv
<1>1. TypeInv
  BY TypesInitial
<1>2. StatusTypes
  BY FreshTypes DEF Init, StatusTypes, Fresh, Statuses
<1>3. Based(status) /\ Based(saved.status)
  <2>1. PostLoop \subseteq Ids /\ \A d \in PostLoop : Downstream({d}) \subseteq Ids
    <3>1. plan \in Plans
      BY DEF Init
    <3> QED BY <3>1, PostLoopIds DEF Downstream, Below, Members, Ids
  <2>2. \A u \in Ids : Fresh.status[u] # "Completed"
    BY DEF Fresh
  <2> QED BY <2>1, <2>2 DEF Init, Based
<1>4. PassInv /\ Deferred /\ Lanes
  BY <1>2 DEF Init, PassInv, Deferred, Lanes
<1>5. Placed /\ InOrder /\ Merging
  BY DEF Init, Placed, InOrder, OnBranch, Merging, MergedInOrder
<1> QED BY <1>1, <1>3, <1>4, <1>5 DEF OrderInv, RunInv, BasedInv

LEMMA RunStep ==
  ASSUME RunInv, [Next]_vars
  PROVE  RunInv'
<1>1. TypeInv'
  BY TypeStep DEF RunInv
<1>2. StatusTypes'
  BY <1>1 DEF TypeInv, TypeOK, StatusTypes
<1>3. PassInv'
  BY <1>2, PassStep DEF RunInv, PassInv
<1>4. Deferred' /\ Lanes' /\ BasedInv'
  BY DeferredStep, LanesStep, BasedStep DEF RunInv, LoopInv
<1> QED BY <1>1, <1>3, <1>4 DEF RunInv

(* In no run of any plan is a branch merged after that of a unit which depends on it,
   agents of one loop excepted: branches are merged in the order they were reported in,
   the tiers and loops report what comes before first, and what comes after a loop is
   dispatched one unit at a time (pipeline.rs:2073, pipeline.rs:2183). *)
THEOREM MergesInOrder == Spec => []MergedInOrder
<1>1. Init => OrderInv
  BY OrderInitial
<1>2. OrderInv /\ [Next]_vars => OrderInv'
  BY RunStep, OrderStep, MergingStep DEF OrderInv
<1>3. OrderInv => MergedInOrder
  BY DEF OrderInv, Merging
<1> QED BY <1>1, <1>2, <1>3, PTL DEF Spec

---------------------------------------------------------------------------
(* What a success vouches for. *)

AllOk == \A x \in DOMAIN manifests : manifests[x].ok
Outside(i) == (UNION {Deps(v) : v \in Loops[i].body}) \ Loops[i].body

(* A loop that is passed over: something it waits for is not recorded, and will not be. *)
Missed(i) == \/ \E d \in Outside(i) \ PostLoop : status[d] # "Completed"
             \/ Outside(i) \cap Downstream(Loops[i].body) # {}

Plain == Members \ (StackedBodies \cup PostLoop)
AtWork(u) == u \in left \cup running
Delivered(i) == Loops[i].stacked => \A u \in Loops[i].body \ PostLoop : done[u] > 0 \/ Missed(i)

(* As long as no report is a failure, what the tiers and the loops have passed has
   completed, or is at work. *)
Toured ==
  /\ phase = "tiers" /\ AllOk /\ ~expired =>
       \A u \in Plain : TierOf[u] <= tier => done[u] > 0 \/ AtWork(u)
  /\ phase \in {"enter", "pass", "judge", "post", "merge"} /\ AllOk /\ ~expired =>
       \A u \in Plain : done[u] > 0
  /\ phase = "post" /\ AllOk => \A u \in PostLoop : TierOf[u] <= tier => done[u] > 0 \/ AtWork(u)
  /\ phase = "merge" /\ AllOk => \A u \in PostLoop : done[u] > 0
  /\ phase = "merge" => running = {}
  /\ phase = "tiers" => left \cap StackedBodies = {}

Circled ==
  /\ phase = "tiers" => lp = 1
  /\ phase \in {"enter", "pass", "judge"} /\ AllOk => \A i \in DOMAIN Loops : i < lp => Delivered(i)
  /\ phase \in {"pass", "judge"} /\ AllOk /\ Loop.stacked =>
       \A u \in Loop.body : done[u] > 0 \/ AtWork(u)
  /\ phase \in {"post", "merge"} /\ AllOk => \A i \in DOMAIN Loops : Delivered(i)

(* A step within a phase. *)
Staying ==
  /\ UNCHANGED <<phase, tier, lp>> /\ left' \subseteq left /\ (expired => expired')
  /\ AllOk' => AllOk
  /\ \A u \in Ids : done[u] > 0 => done'[u] > 0
  /\ AllOk' => \A u \in Members : AtWork(u) => AtWork(u)' \/ done'[u] > 0
  /\ phase = "merge" => running' \subseteq running

LEMMA AddedOk ==
  ASSUME manifests \in Seq(Reported), NEW m \in Reported, manifests' = Append(manifests, m)
  PROVE  AllOk' => AllOk /\ m.ok
<1>1. /\ DOMAIN manifests' = DOMAIN manifests \cup {Len(manifests) + 1}
      /\ manifests'[Len(manifests) + 1] = m
      /\ \A x \in DOMAIN manifests : manifests'[x] = manifests[x]
  OBVIOUS
<1> QED BY <1>1 DEF AllOk

LEMMA EndsOk ==
  ASSUME TypeOK, NEW u \in Ids, NEW ok \in BOOLEAN, NEW kept \in BOOLEAN, Ends(u, ok, kept)
  PROVE  /\ running' = running \ {u} /\ (ok => done'[u] > 0)
         /\ \A v \in Ids : done[v] > 0 => done'[v] > 0
         /\ AllOk' => AllOk /\ ok
<1> DEFINE wrote == IF ok /\ kept THEN {<<u, done[u] + 1>>} ELSE {}
           m == IF ~ok \/ ~UseWorktrees THEN Manifest(u, ok, "none", {})
                ELSE IF OnChain THEN Manifest(u, ok, "chain", anchor \cup wrote)
                ELSE Manifest(u, ok, "branch", {})
<1>1. done[u] \in Nat /\ anchor \subseteq Work /\ manifests \in Seq(Reported) /\ StatusTypes
  BY DEF TypeOK, Reported, StatusTypes
<1>2. wrote \subseteq Work
  BY <1>1 DEF Work
<1>3. m \in Reported /\ m.ok = ok
  <2> HIDE DEF wrote
  <2> QED BY <1>1, <1>2 DEF Manifest, Reported
<1>4. manifests' = Append(manifests, m)
  BY DEF Ends
<1>5. AllOk' => AllOk /\ ok
  <2> HIDE DEF m
  <2> QED BY <1>1, <1>3, <1>4, AddedOk
<1>6. \A v \in Ids : done[v] \in Nat /\ done'[v] \in Nat /\ done[v] <= done'[v]
  BY <1>1, EndsCounts DEF StatusTypes
<1>7. \A v \in Ids : done[v] > 0 => done'[v] > 0
  BY <1>6
<1>8. ok => done'[u] > 0
  BY <1>1, EndsCounts
<1> QED BY <1>5, <1>7, <1>8 DEF Ends

LEMMA Stays ==
  ASSUME TypeInv, [Next]_vars
  PROVE  \/ Staying \/ Start \/ NextTier \/ EnterLoop \/ LoopsDone \/ PassOver \/ JudgeStops
         \/ \E silent \in BOOLEAN, v \in Verdicts : Judge(silent, v)
         \/ phase' = "ended" /\ phase # "ended"
<1> USE DEF runVars, tierVars, stateVars, loopVars, mergeVars, diskVars
<1>0. TypeOK /\ manifests \in Seq(Reported) /\ Members \subseteq Units
  BY PlanTypes DEF TypeInv, TypeOK, Reported
<1>1. ASSUME NEW u \in Units, SkipUnmet(u)
      PROVE  Staying
  <2> DEFINE m == Manifest(u, FALSE, "none", {})
  <2>1. m \in Reported /\ ~m.ok
    BY DEF Manifest, Reported, Ids
  <2>2. manifests' = Append(manifests, m)
    BY <1>1 DEF SkipUnmet
  <2>3. ~AllOk'
    <3> HIDE DEF m
    <3> QED BY <1>0, <2>1, <2>2, AddedOk
  <2> QED BY <1>1, <2>3 DEF SkipUnmet, Staying
<1>2. ASSUME NEW u \in Units, Launch(u) \/ LaunchPass(u)
      PROVE  Staying
  BY <1>2 DEF Launch, LaunchPass, Staying, AllOk, AtWork
<1>3. ASSUME NEW w \in Workers, LaunchWorker(w)
      PROVE  Staying
  BY <1>3 DEF LaunchWorker, Staying, AllOk, AtWork
<1>4. ASSUME NEW u \in Ids, NEW ok \in BOOLEAN, NEW kept \in BOOLEAN,
             \/ Finish(u, ok, kept) \/ FinishParallel(u, ok, kept) \/ FinishPass(u, ok, kept)
             \/ FinishWorker(u, ok, kept)
      PROVE  Staying
  <2>1. /\ UNCHANGED <<phase, tier, lp, expired>> /\ left' \in {left, {}} /\ (ok => left' = left)
        /\ Ends(u, ok, kept)
    BY <1>4 DEF Finish, FinishParallel, FinishPass, FinishWorker
  <2>2. /\ running' = running \ {u} /\ (ok => done'[u] > 0)
        /\ \A v \in Ids : done[v] > 0 => done'[v] > 0
        /\ AllOk' => AllOk /\ ok
    BY <1>0, <2>1, EndsOk
  <2> QED BY <2>1, <2>2 DEF Staying, AtWork
<1>5. CASE WaveFails
  <2>1. running \cap Members = {}
    BY <1>0, <1>5, DisjointAssumption DEF WaveFails
  <2> QED BY <1>5, <2>1 DEF WaveFails, Staying, AllOk, AtWork
<1>6. CASE MergeNext \/ Expire \/ UNCHANGED vars
  BY <1>6 DEF MergeNext, Expire, vars, Staying, AllOk, AtWork
<1>7. CASE Complete \/ Fails \/ Crash
  BY <1>7 DEF Complete, Fails, Crash, Bail
<1>8. CASE Step
  <2>1. CASE \E u \in Units : SkipUnmet(u) \/ Launch(u) \/ LaunchPass(u)
    BY <1>1, <1>2, <2>1
  <2>2. CASE \/ \E u \in Units, ok, kept \in BOOLEAN :
                  Finish(u, ok, kept) \/ FinishParallel(u, ok, kept) \/ FinishPass(u, ok, kept)
             \/ \E w \in Workers, ok, kept \in BOOLEAN : FinishWorker(w, ok, kept)
    BY <1>4, <2>2 DEF Ids
  <2>3. CASE \E w \in Workers : LaunchWorker(w)
    BY <1>3, <2>3
  <2> QED BY <1>6, <1>7, <1>8, <2>1, <2>2, <2>3 DEF Step
<1> QED BY <1>5, <1>6, <1>7, <1>8 DEF Next

LEMMA ToursStep ==
  ASSUME RunInv, Toured, Honest, [Next]_vars
  PROVE  Toured'
<1> USE DEF runVars, tierVars, stateVars, loopVars, mergeVars, diskVars
<1>1. TypeInv /\ StatusTypes /\ plan \in Plans /\ tier \in Nat
  BY DEF RunInv, TypeInv, TypeOK, PassInv
<1>2. Plain' = Plain /\ PostLoop' = PostLoop /\ TierOf' = TierOf /\ StackedBodies' = StackedBodies
  BY PlanKept DEF Plain
<1>3. /\ Plain \subseteq Members /\ PostLoop \subseteq Members /\ Members \subseteq Ids
      /\ \A u \in Members : TierOf[u] \in Nat /\ TierOf[u] # 0
  BY <1>1, Tiered, PostLoopIds, PlanTypes DEF Plain, Ids
<1>4. CASE Staying
  <2>1. \A u \in Members : done[u] > 0 => done'[u] > 0
    BY <1>3, <1>4 DEF Staying
  <2>2. AllOk' => AllOk /\ \A u \in Members : done[u] > 0 \/ AtWork(u) => done'[u] > 0 \/ AtWork(u)'
    BY <1>4, <2>1 DEF Staying
  <2>3. phase' = phase /\ tier' = tier /\ (~expired' => ~expired) /\ left' \subseteq left
        /\ (phase = "merge" => running' \subseteq running)
    BY <1>4 DEF Staying
  <2>4. phase' = "tiers" /\ AllOk' /\ ~expired' =>
          \A u \in Plain : TierOf[u] <= tier => done'[u] > 0 \/ AtWork(u)'
    BY <1>3, <2>2, <2>3 DEF Toured
  <2>5. phase' \in {"enter", "pass", "judge", "post", "merge"} /\ AllOk' /\ ~expired' =>
          \A u \in Plain : done'[u] > 0
    BY <1>3, <2>1, <2>2, <2>3 DEF Toured
  <2>6. phase' = "post" /\ AllOk' => \A u \in PostLoop : TierOf[u] <= tier => done'[u] > 0 \/ AtWork(u)'
    BY <1>3, <2>2, <2>3 DEF Toured
  <2>7. phase' = "merge" /\ AllOk' => \A u \in PostLoop : done'[u] > 0
    BY <1>3, <2>1, <2>2, <2>3 DEF Toured
  <2>8. (phase' = "merge" => running' = {}) /\ (phase' = "tiers" => left' \cap StackedBodies = {})
    BY <2>3 DEF Toured
  <2> QED BY <1>2, <2>3, <2>4, <2>5, <2>6, <2>7, <2>8 DEF Toured
<1>5. CASE Start
  <2>1. phase' = "tiers" /\ tier' = 0 /\ left' = {}
    BY <1>5 DEF Start
  <2>2. \A u \in Plain : ~(TierOf[u] <= tier')
    BY <1>3, <2>1
  <2> QED BY <1>2, <2>1, <2>2 DEF Toured
<1>6. CASE NextTier
  <2>1. /\ UNCHANGED <<done, expired, manifests, running, status>> /\ running = {} /\ left = {}
        /\ AllOk' = AllOk
    BY <1>6 DEF NextTier, Quiet, AllOk
  <2>2. \A u \in Members : ~AtWork(u)
    BY <2>1 DEF AtWork
  <2>3. CASE phase = "tiers" /\ phase' = "tiers"
    <3>1. tier' = tier + 1 /\ left' = Due(tier + 1)
      BY <1>6, <2>3 DEF NextTier
    <3>2. ASSUME NEW u \in Plain, TierOf[u] <= tier + 1, AllOk, ~expired
          PROVE  done[u] > 0 \/ u \in Due(tier + 1)
      <4>1. CASE TierOf[u] <= tier
        BY <1>3, <2>2, <2>3, <3>2, <4>1 DEF Toured
      <4>2. CASE TierOf[u] = tier + 1
        <5>1. u \in Tier(tier + 1) /\ u \notin StackedBodies \cup PostLoop /\ u \in Ids
          BY <1>3, <3>2, <4>2 DEF Plain, Tier
        <5>2. status[u] = "Completed" => done[u] > 0
          BY <5>1 DEF Honest
        <5> QED BY <5>1, <5>2 DEF Due
      <4> QED BY <1>1, <1>3, <3>2, <4>1, <4>2
    <3>3. Due(tier + 1) \cap StackedBodies = {}
      BY DEF Due
    <3> QED BY <1>2, <2>1, <2>3, <3>1, <3>2, <3>3 DEF Toured, AtWork
  <2>4. CASE phase = "tiers" /\ phase' = "enter"
    <3>1. ~TiersLeft(tier) \/ expired
      BY <1>6, <2>4 DEF NextTier
    <3>2. ~expired => \A u \in Plain : TierOf[u] <= tier
      BY <1>1, <1>3, <3>1 DEF TiersLeft
    <3> QED BY <1>2, <1>3, <2>1, <2>2, <2>4, <3>2 DEF Toured
  <2>5. CASE phase = "post" /\ phase' = "post"
    <3>1. tier' = tier + 1 /\ left' = DuePost(tier + 1)
      BY <1>6, <2>5 DEF NextTier
    <3>2. ASSUME NEW u \in PostLoop, TierOf[u] <= tier + 1, AllOk
          PROVE  done[u] > 0 \/ u \in DuePost(tier + 1)
      <4>1. CASE TierOf[u] <= tier
        BY <1>3, <2>2, <2>5, <3>2, <4>1 DEF Toured
      <4>2. CASE TierOf[u] = tier + 1
        <5>1. u \in Tier(tier + 1) /\ u \in Ids
          BY <1>3, <3>2, <4>2 DEF Tier
        <5>2. status[u] = "Completed" => done[u] > 0
          BY <5>1 DEF Honest
        <5> QED BY <3>2, <5>1, <5>2 DEF DuePost
      <4> QED BY <1>1, <1>3, <3>2, <4>1, <4>2
    <3> QED BY <1>2, <2>1, <2>5, <3>1, <3>2 DEF Toured, AtWork
  <2>6. CASE phase = "post" /\ phase' = "merge"
    <3>1. ~TiersLeft(tier)
      BY <1>6, <2>6 DEF NextTier
    <3>2. \A u \in PostLoop : TierOf[u] <= tier
      BY <1>1, <1>3, <3>1 DEF TiersLeft
    <3> QED BY <1>2, <1>3, <2>1, <2>2, <2>6, <3>2 DEF Toured
  <2> QED BY <1>6, <2>3, <2>4, <2>5, <2>6 DEF NextTier
<1>7. CASE /\ phase \in {"enter", "pass", "judge"} /\ phase' \in {"enter", "pass", "judge", "ended"}
           /\ UNCHANGED <<done, expired, manifests>>
  <2>1. AllOk' = AllOk
    BY <1>7 DEF AllOk
  <2> QED BY <1>2, <1>7, <2>1 DEF Toured
<1>8. CASE LoopsDone
  <2>1. phase = "enter" /\ phase' = "post" /\ tier' = 0 /\ UNCHANGED <<done, expired, manifests>>
    BY <1>8 DEF LoopsDone
  <2>2. AllOk' = AllOk
    BY <2>1 DEF AllOk
  <2>3. \A u \in PostLoop : ~(TierOf[u] <= tier')
    BY <1>3, <2>1
  <2> QED BY <1>2, <2>1, <2>2, <2>3 DEF Toured
<1>9. CASE EnterLoop
  BY <1>7, <1>9 DEF EnterLoop, NextLoop, Bail
<1>10. CASE PassOver \/ JudgeStops
  BY <1>7, <1>10 DEF PassOver, JudgeStops, NextLoop, Bail
<1>11. ASSUME NEW silent \in BOOLEAN, NEW v \in Verdicts, Judge(silent, v)
       PROVE  Toured'
  BY <1>7, <1>11 DEF Judge, NextLoop, Another
<1>12. CASE phase' = "ended"
  BY <1>12 DEF Toured
<1> QED BY <1>1, <1>4, <1>5, <1>6, <1>8, <1>9, <1>10, <1>11, <1>12, Stays

(* Once a loop has been passed over it stays so. *)
LEMMA MissedKept ==
  ASSUME RunInv, [Next]_vars, ~Start, NEW i \in DOMAIN Loops, Missed(i), Loops[i].body \ PostLoop # {},
         \/ phase \in {"enter", "pass", "judge"} /\ i < lp /\ phase' \in {"enter", "pass", "judge"}
         \/ phase' \in {"post", "merge"}
  PROVE  Missed(i)'
<1>1. TypeInv /\ StatusTypes /\ plan \in Plans
  BY DEF RunInv, TypeInv, TypeOK, PassInv
<1>2. Outside(i)' = Outside(i) /\ PostLoop' = PostLoop /\ Loops' = Loops
      /\ Downstream(Loops[i].body)' = Downstream(Loops[i].body)
  BY PlanKept DEF Outside, Downstream, Below, Loops
<1>3. SUFFICES ASSUME NEW d \in Outside(i) \ PostLoop, status[d] # "Completed"
               PROVE  status'[d] # "Completed"
  BY <1>2 DEF Missed
<1>4. CASE UNCHANGED status
  BY <1>3, <1>4
<1>5. ASSUME NEW v \in Ids, v # d, NEW s \in Statuses, status' = [status EXCEPT ![v] = s]
      PROVE  status'[d] # "Completed"
  BY <1>1, <1>3, <1>5 DEF StatusTypes
<1>6. ASSUME phase = "pass", i < lp, NEW v \in running
      PROVE  v # d
  <2>1. lp \in DOMAIN Loops /\ v \in Loops[lp].body
    BY <1>1, <1>6, RunningLoop DEF RunInv, PassInv
  <2>2. Loops[i].body \subseteq Deps(v) /\ v \in Members
    BY <1>1, <1>6, <2>1, LoopOrder, WellFormedAssumption DEF WellFormed, Loops, Members
  <2>3. v \in Downstream(Loops[i].body)
    BY <2>2, DownstreamClosed
  <2> QED BY <2>3, AfterLoops
<1>7. running \subseteq Ids /\ left \subseteq Ids
  BY <1>1 DEF TypeInv, TypeOK, Ids
<1>8. CASE phase \in {"enter", "pass", "judge"} /\ i < lp /\ phase' \in {"enter", "pass", "judge"}
  BY <1>4, <1>5, <1>6, <1>7, <1>8, Moves DEF Moved
<1>9. CASE phase' = "post"
  <2>1. phase = "post" => left \cup running \subseteq PostLoop
    BY DEF RunInv, Lanes
  <2>2. \A v \in left \cup running : phase = "post" => v # d /\ v \in Ids
    BY <1>7, <2>1
  <2> QED BY <1>4, <1>5, <1>9, <2>2, Moves DEF Moved
<1>10. CASE phase' = "merge"
  BY <1>4, <1>10, Moves DEF Moved
<1> QED BY <1>8, <1>9, <1>10

LEMMA DownstreamWithin ==
  ASSUME NEW S, NEW T, S \subseteq Downstream(T)
  PROVE  Downstream(S) \subseteq Downstream(T)
<1>1. Downstream(T) \subseteq Members
  BY DEF Downstream, Below, Members
<1>2. ASSUME NEW v \in Members, Deps(v) \cap (S \cup Downstream(T)) # {}
      PROVE  v \in Downstream(T)
  <2>1. PICK x \in Deps(v) : x \in Downstream(T)
    BY <1>2
  <2> QED BY <2>1, DownstreamClosed
<1> QED BY <1>1, <1>2, DownstreamLeast

LEMMA DownstreamOne ==
  ASSUME NEW d \in PostLoop
  PROVE  \E i \in DOMAIN Loops : d \in Downstream(Loops[i].body)
<1> DEFINE C == {v \in Members : \E i \in DOMAIN Loops : v \in Downstream(Loops[i].body)}
<1>1. ASSUME NEW v \in Members, NEW x \in Deps(v), x \in Bodies \cup C
      PROVE  v \in C
  <2>1. PICK i \in DOMAIN Loops : x \in Loops[i].body \cup Downstream(Loops[i].body)
    BY <1>1 DEF Bodies
  <2> QED BY <2>1, DownstreamClosed
<1>2. Downstream(Bodies) \subseteq C
  <2> HIDE DEF C
  <2>1. C \in SUBSET Members
    BY DEF C
  <2> QED BY <1>1, <2>1, DownstreamLeast
<1> QED BY <1>2 DEF PostLoop

(* If an agent of a loop is not behind a loop, what is behind one is behind its own. *)
LEMMA Knotted ==
  ASSUME plan \in Plans, NEW i \in DOMAIN Loops, NEW u \in Loops[i].body \ PostLoop, NEW d \in PostLoop
  PROVE  d \in Downstream(Loops[i].body)
<1>1. \A j \in DOMAIN Loops : j \in Nat /\ Loops[j].body \subseteq Members
  <2>1. Loops \in Seq(Blocks)
    BY PlanTypes
  <2> QED BY <2>1, WellFormedAssumption DEF WellFormed, Loops, Members
<1>2. PICK k \in DOMAIN Loops : d \in Downstream(Loops[k].body)
  BY DownstreamOne
<1>3. CASE k < i
  <2>1. PICK e \in Loops[k].body : TRUE
    BY <1>1, <1>2, TiersRise
  <2>2. e \in Deps(u)
    BY <1>3, LoopOrder
  <2>3. u \in Downstream(Loops[k].body)
    BY <1>1, <2>1, <2>2, DownstreamClosed
  <2> QED BY <2>3, AfterLoops
<1>4. CASE i < k
  <2>1. \A x \in Loops[k].body : u \in Deps(x) /\ x \in Members
    BY <1>1, <1>4, LoopOrder
  <2>2. Loops[k].body \subseteq Downstream(Loops[i].body)
    BY <2>1, DownstreamClosed
  <2> QED BY <1>2, <2>2, DownstreamWithin
<1> QED BY <1>1, <1>2, <1>3, <1>4

(* What is done stays done, and what was delivered delivered. *)
LEMMA DeliveredKept ==
  ASSUME RunInv, [Next]_vars, ~Start, NEW i \in DOMAIN Loops, Delivered(i),
         \A u \in Members : done[u] > 0 => done'[u] > 0,
         \/ phase \in {"enter", "pass", "judge"} /\ i < lp /\ phase' \in {"enter", "pass", "judge"}
         \/ phase' \in {"post", "merge"}
  PROVE  Delivered(i)'
<1>1. plan \in Plans /\ Loops[i].body \subseteq Members
  <2>1. plan \in Plans
    BY DEF RunInv, TypeInv, TypeOK
  <2> QED BY <2>1, WellFormedAssumption DEF WellFormed, Loops, Members
<1>2. ASSUME NEW u \in Loops[i].body \ PostLoop, Loops[i].stacked
      PROVE  done'[u] > 0 \/ Missed(i)'
  BY <1>1, <1>2, MissedKept DEF Delivered
<1> QED BY <1>2, PlanKept DEF Delivered

LEMMA CirclesStep ==
  ASSUME RunInv, Circled, Honest, [Next]_vars
  PROVE  Circled'
<1> USE DEF runVars, tierVars, stateVars, loopVars, mergeVars, diskVars
<1>1. /\ TypeInv /\ StatusTypes /\ plan \in Plans /\ lp \in Nat
      /\ \A i \in DOMAIN Loops : i \in Nat /\ i <= Len(Loops) /\ Loops[i].body \subseteq Members
  <2>1. plan \in Plans /\ TypeInv /\ StatusTypes /\ lp \in Nat
    BY DEF RunInv, TypeInv, TypeOK, PassInv
  <2>2. Loops \in Seq(Blocks)
    BY <2>1, PlanTypes
  <2>3. \A i \in DOMAIN Loops : Loops[i].body \subseteq Members
    BY <2>1, WellFormedAssumption DEF WellFormed, Loops, Members
  <2> QED BY <2>1, <2>2, <2>3
<1>2. Loops' = Loops /\ (UNCHANGED lp => Loop' = Loop) /\ PostLoop' = PostLoop
  BY PlanKept DEF Loop
<1>3. \A u \in Members : u \in Ids
  BY <1>1, PlanTypes DEF Ids
<1>4. \A i \in DOMAIN Loops :
        /\ Delivered(i) /\ ~Start
        /\ \A u \in Members : done[u] > 0 => done'[u] > 0
        /\ \/ phase \in {"enter", "pass", "judge"} /\ i < lp /\ phase' \in {"enter", "pass", "judge"}
           \/ phase' \in {"post", "merge"}
        => Delivered(i)'
  BY DeliveredKept
<1>5. CASE Staying
  <2>1. ~Start \/ phase' \notin {"enter", "pass", "judge", "post", "merge"}
    BY DEF Start
  <2>2. \A u \in Members : done[u] > 0 => done'[u] > 0
    BY <1>3, <1>5 DEF Staying
  <2>3. phase' = phase /\ lp' = lp /\ (AllOk' => AllOk) /\ Loop' = Loop
    BY <1>2, <1>5 DEF Staying
  <2>4. phase' \in {"enter", "pass", "judge"} /\ AllOk' => \A i \in DOMAIN Loops : i < lp => Delivered(i)'
    BY <1>4, <2>1, <2>2, <2>3 DEF Circled
  <2>5. phase' \in {"pass", "judge"} /\ AllOk' /\ Loop.stacked =>
          \A u \in Loop.body : done'[u] > 0 \/ AtWork(u)'
    <3>1. ASSUME phase \in {"pass", "judge"}, NEW u \in Loop.body
          PROVE  u \in Members
      BY <1>1, <3>1, RunningLoop
    <3> QED BY <1>5, <2>2, <2>3, <3>1 DEF Circled, Staying
  <2>6. phase' \in {"post", "merge"} /\ AllOk' => \A i \in DOMAIN Loops : Delivered(i)'
    BY <1>4, <2>1, <2>2, <2>3 DEF Circled
  <2> QED BY <1>2, <2>3, <2>4, <2>5, <2>6 DEF Circled
<1>6. CASE phase' \in {"tiers", "ended"}
  <2>1. CASE phase' = "tiers"
    <3>1. CASE Start
      BY <2>1, <3>1 DEF Start, Circled
    <3>2. CASE ~Start
      <4>1. phase = "tiers"
        BY <2>1, <3>2, Moves DEF Moved
      <4>2. UNCHANGED lp
        <5>1. CASE Staying
          BY <5>1 DEF Staying
        <5>2. CASE NextTier
          BY <5>2 DEF NextTier
        <5>3. ~(\/ EnterLoop \/ LoopsDone \/ PassOver \/ JudgeStops
                \/ \E silent \in BOOLEAN, v \in Verdicts : Judge(silent, v))
          BY <4>1 DEF EnterLoop, LoopsDone, PassOver, JudgeStops, Judge
        <5> QED BY <1>1, <2>1, <3>2, <5>1, <5>2, <5>3, Stays
      <4> QED BY <2>1, <4>1, <4>2 DEF Circled
    <3> QED BY <3>1, <3>2
  <2>2. CASE phase' = "ended"
    BY <2>2 DEF Circled
  <2> QED BY <1>6, <2>1, <2>2
<1>7. CASE phase' \notin {"tiers", "ended"} /\ ~Staying
  <2>1. ~Start /\ lp' \in Nat
    <3>1. ~Start
      BY <1>7 DEF Start
    <3>2. lp' \in Nat
      BY <1>1, TypeStep DEF TypeInv, TypeOK
    <3> QED BY <3>1, <3>2
  <2>2. \/ NextTier \/ EnterLoop \/ LoopsDone \/ PassOver \/ JudgeStops
        \/ \E silent \in BOOLEAN, v \in Verdicts : Judge(silent, v)
    BY <1>1, <1>7, <2>1, Stays
  <2>3. UNCHANGED <<done, manifests, status>> /\ AllOk' = AllOk
    BY <2>2 DEF NextTier, EnterLoop, LoopsDone, PassOver, JudgeStops, Judge, AllOk
  <2>4. \A i \in DOMAIN Loops : Missed(i)' = Missed(i) /\ Delivered(i)' = Delivered(i)
    BY <2>3, PlanKept DEF Missed, Outside, Delivered
  <2>5. phase = "judge" => (AllOk /\ Loop.stacked => \A u \in Loop.body : done[u] > 0)
    BY DEF RunInv, PassInv, Deferred, Circled, AtWork
  <2>6. CASE NextTier
    <3>1. \/ phase = "tiers" /\ phase' = "enter" /\ UNCHANGED lp /\ lp = 1
          \/ phase = "post" /\ phase' \in {"post", "merge"}
      BY <1>7, <2>6 DEF NextTier, Circled
    <3>2. \A i \in DOMAIN Loops : ~(i < 1)
      BY <1>1, PlanTypes
    <3> QED BY <1>1, <1>2, <2>3, <2>4, <3>1, <3>2 DEF Circled
  <2>7. CASE phase \in {"enter", "judge"} /\ phase' = "enter" /\ lp' = lp + 1
             /\ (AllOk => Delivered(lp))
    <3>1. \A i \in DOMAIN Loops : i < lp' => i < lp \/ i = lp
      BY <1>1, <2>7
    <3>2. \A i \in DOMAIN Loops : ~Loops[i].stacked => Delivered(i)
      BY DEF Delivered
    <3> QED BY <1>2, <2>3, <2>4, <2>7, <3>1, <3>2 DEF Circled
  <2>8. CASE /\ phase \in {"enter", "pass", "judge"} /\ phase' \in {"pass", "judge"} /\ UNCHANGED lp
             /\ (AllOk /\ Loop.stacked => \A u \in Loop.body : done[u] > 0 \/ AtWork(u)')
    BY <1>2, <2>3, <2>4, <2>8 DEF Circled
  <2>9. CASE EnterLoop
    <3>1. lp \in DOMAIN Loops /\ Loop = Loops[lp]
      <4>1. lp # 0 /\ lp <= Len(Loops) /\ Loops \in Seq(Blocks)
        BY <1>1, <2>9, PlanTypes DEF EnterLoop, TypeInv
      <4> QED BY <1>1, <4>1 DEF Loop
    <3>2. CASE ~Ready /\ NextLoop
      <4>1. Delivered(lp)
        <5>1. PICK d \in Outside(lp) : status[d] # "Completed"
          BY <3>1, <3>2 DEF Ready, OutsideDeps, Outside
        <5>2. ASSUME NEW u \in Loops[lp].body \ PostLoop
              PROVE  Missed(lp)
          <6>1. CASE d \notin PostLoop
            BY <5>1, <6>1 DEF Missed
          <6>2. CASE d \in PostLoop
            <7>1. d \in Downstream(Loops[lp].body)
              BY <1>1, <3>1, <5>2, <6>2, Knotted
            <7> QED BY <5>1, <7>1 DEF Missed
          <6> QED BY <6>1, <6>2
        <5> QED BY <5>2 DEF Delivered
      <4> QED BY <2>7, <2>9, <3>2, <4>1 DEF EnterLoop, NextLoop
    <3>3. CASE ~Loop.stacked /\ NextLoop
      <4>1. Delivered(lp)
        BY <3>1, <3>3 DEF Delivered
      <4> QED BY <2>7, <2>9, <3>3, <4>1 DEF EnterLoop, NextLoop
    <3>4. CASE phase' = "judge" /\ ~Loop.stacked /\ UNCHANGED lp
      BY <2>8, <2>9, <3>4 DEF EnterLoop
    <3>5. CASE phase' = "pass" /\ left' = Loop.body /\ UNCHANGED lp
      BY <2>8, <2>9, <3>5 DEF EnterLoop, AtWork
    <3> QED BY <1>7, <2>9, <3>2, <3>3, <3>4, <3>5 DEF EnterLoop, Bail
  <2>10. CASE LoopsDone
    <3>1. phase = "enter" /\ lp > Len(Loops) /\ phase' = "post"
      BY <2>10 DEF LoopsDone
    <3>2. \A i \in DOMAIN Loops : i < lp
      <4>1. Loops \in Seq(Blocks)
        BY <1>1, PlanTypes
      <4> QED BY <1>1, <3>1, <4>1
    <3> QED BY <1>2, <2>3, <2>4, <3>1, <3>2 DEF Circled
  <2>11. CASE PassOver
    <3>1. phase = "pass" /\ phase' = "judge" /\ UNCHANGED <<lp, left, running>>
      BY <2>11 DEF PassOver
    <3> QED BY <2>8, <3>1 DEF Circled, AtWork
  <2>12. ASSUME NextLoop, phase = "judge"
         PROVE  Circled'
    <3>1. lp \in DOMAIN Loops /\ Loop = Loops[lp]
      BY <1>1, <2>12, RunningLoop
    <3>2. AllOk => Delivered(lp)
      BY <2>5, <2>12, <3>1 DEF Delivered
    <3> QED BY <1>1, <1>2, <2>3, <2>4, <2>12, <3>2 DEF Circled, NextLoop
  <2>13. CASE JudgeStops
    BY <1>7, <2>12, <2>13 DEF JudgeStops, Bail
  <2>14. ASSUME NEW silent \in BOOLEAN, NEW v \in Verdicts, Judge(silent, v)
         PROVE  Circled'
    <3>1. CASE NextLoop
      BY <2>12, <2>14, <3>1 DEF Judge
    <3>2. CASE Another
      BY <2>8, <2>14, <3>2 DEF Judge, Another, AtWork
    <3> QED BY <2>14, <3>1, <3>2 DEF Judge
  <2> QED BY <2>2, <2>6, <2>9, <2>10, <2>11, <2>13, <2>14
<1> QED BY <1>5, <1>6, <1>7

(* A stacked loop that waits for what is behind it never runs, nor what is behind it. *)
Knot(i) == /\ Loops[i].stacked /\ Loops[i].body \ PostLoop # {}
           /\ Outside(i) \cap Downstream(Loops[i].body) # {}
Idle(i) == \A x \in Loops[i].body \cup Downstream(Loops[i].body) : done[x] = 0 /\ x \notin running
Knots == \A i \in DOMAIN Loops : Knot(i) => Idle(i)

LEMMA DownstreamFrom ==
  ASSUME NEW S, NEW x \in Downstream(S)
  PROVE  \E y \in Deps(x) : y \in S \cup Downstream(S)
<1> DEFINE C == {v \in Downstream(S) : \E y \in Deps(v) : y \in S \cup Downstream(S)}
<1>1. C \in SUBSET Members
  BY DEF Downstream, Below, Members
<1>2. ASSUME NEW v \in Members, Deps(v) \cap (S \cup C) # {}
      PROVE  v \in C
  <2>1. PICK y \in Deps(v) : y \in S \cup Downstream(S)
    BY <1>2
  <2>2. v \in Downstream(S)
    BY <2>1, DownstreamClosed
  <2> QED BY <2>1, <2>2
<1>3. Downstream(S) \subseteq C
  <2> HIDE DEF C
  <2> QED BY <1>1, <1>2, DownstreamLeast
<1> QED BY <1>3

LEMMA DownstreamSource ==
  ASSUME NEW S, NEW x \in Downstream(S)
  PROVE  \E z \in S : x \in Downstream({z})
<1> DEFINE C == {v \in Members : \E z \in S : v \in Downstream({z})}
<1>1. ASSUME NEW v \in Members, NEW y \in Deps(v), y \in S \cup C
      PROVE  v \in C
  <2>1. PICK z \in S : y \in {z} \cup Downstream({z})
    BY <1>1
  <2> QED BY <2>1, DownstreamClosed
<1>2. Downstream(S) \subseteq C
  <2> HIDE DEF C
  <2>1. C \in SUBSET Members
    BY DEF C
  <2> QED BY <1>1, <2>1, DownstreamLeast
<1> QED BY <1>2

(* None of those is dispatched. *)
LEMMA KnotsHold ==
  ASSUME RunInv, Toured, Honest, [Next]_vars,
         NEW i \in DOMAIN Loops, Knot(i), Idle(i), NEW x \in Loops[i].body \cup Downstream(Loops[i].body)
  PROVE  x \notin running'
<1>1. /\ TypeInv /\ StatusTypes /\ plan \in Plans
      /\ \A j \in DOMAIN Loops : j \in Nat /\ Loops[j].body \subseteq Members
  <2>1. plan \in Plans /\ TypeInv /\ StatusTypes
    BY DEF RunInv, TypeInv, TypeOK, PassInv
  <2>2. Loops \in Seq(Blocks)
    BY <2>1, PlanTypes
  <2>3. \A j \in DOMAIN Loops : Loops[j].body \subseteq Members
    BY <2>1, WellFormedAssumption DEF WellFormed, Loops, Members
  <2> QED BY <2>1, <2>2, <2>3
<1>2. x \in Members /\ x \in Units /\ x \in Ids
  BY <1>1, PlanTypes DEF Downstream, Below, Members, Ids
<1>3. \A y \in Loops[i].body \cup Downstream(Loops[i].body) : status[y] # "Completed"
  <2>1. \A y \in Loops[i].body \cup Downstream(Loops[i].body) : y \in Ids
    BY <1>1, PlanTypes DEF Downstream, Below, Members, Ids
  <2> QED BY <2>1 DEF Honest, Idle
<1>4. x \notin running
  BY DEF Idle
<1>5. Loops[i].body \subseteq StackedBodies /\ Downstream(Loops[i].body) \subseteq PostLoop
  BY AfterLoops DEF Knot, StackedBodies
<1>6. ASSUME phase = "pass", x \in left
      PROVE  FALSE
  <2>1. lp \in DOMAIN Loops /\ x \in Loops[lp].body /\ Ready /\ Loop = Loops[lp]
    BY <1>1, <1>6, RunningLoop DEF RunInv, PassInv
  <2>2. \A y \in (UNION {Deps(v) : v \in Loops[lp].body}) \ Loops[lp].body : status[y] = "Completed"
    BY <2>1 DEF Ready, OutsideDeps
  <2>3. CASE lp = i
    BY <1>3, <2>2, <2>3 DEF Knot, Outside
  <2>4. CASE lp # i
    <3>1. lp < i \/ i < lp
      BY <1>1, <2>1, <2>4
    <3>2. Loops[i].body \cap Loops[lp].body = {}
      BY <1>1, <2>1, <3>1, LoopOrder
    <3>3. PICK w \in Loops[i].body : x \in Downstream({w})
      BY <2>1, <3>2, DownstreamSource
    <3>4. PICK y \in (UNION {Deps(v) : v \in Loops[lp].body}) \ Loops[lp].body : y \in {w} \cup Downstream({w})
      BY <2>1, <3>2, <3>3, WayIn
    <3>5. y \in Loops[i].body \cup Downstream(Loops[i].body)
      BY <3>4, DownstreamTransitive
    <3> QED BY <1>3, <2>2, <3>4, <3>5
  <2> QED BY <2>3, <2>4
<1>7. ASSUME phase = "tiers", x \in left
      PROVE  FALSE
  <2>1. x \notin PostLoop
    BY <1>2, <1>7 DEF RunInv, Lanes
  <2>2. x \in StackedBodies
    BY <1>5, <2>1
  <2> QED BY <1>7, <2>2 DEF Toured
<1>8. ASSUME phase = "post", x \in left, Unmet(x) = {}
      PROVE  FALSE
  <2>1. x \in PostLoop
    BY <1>8 DEF RunInv, Lanes
  <2>2. PICK u \in Loops[i].body : u \notin PostLoop
    BY DEF Knot
  <2>3. x \in Downstream(Loops[i].body)
    BY <1>1, <2>1, <2>2, Knotted
  <2>4. PICK y \in Deps(x) : y \in Loops[i].body \cup Downstream(Loops[i].body)
    BY <2>3, DownstreamFrom
  <2> QED BY <1>3, <1>8, <2>4 DEF Unmet
<1> USE DEF runVars, tierVars, stateVars, loopVars, mergeVars, diskVars
<1>9. \A u \in Units : Launch(u) \/ LaunchPass(u) => x \notin running'
  BY <1>4, <1>6, <1>7, <1>8 DEF Launch, LaunchPass
<1>10. \A w \in Workers : LaunchWorker(w) => x \notin running'
  BY <1>2, <1>4, DisjointAssumption DEF LaunchWorker
<1>11. \A u \in Ids, ok, kept \in BOOLEAN :
         Finish(u, ok, kept) \/ FinishParallel(u, ok, kept) \/ FinishPass(u, ok, kept)
           \/ FinishWorker(u, ok, kept) => x \notin running'
  BY <1>4 DEF Finish, FinishParallel, FinishPass, FinishWorker, Ends
<1>12. \A u \in Units : SkipUnmet(u) => running' = running
  BY DEF SkipUnmet
<1>13. \A silent \in BOOLEAN, v \in Verdicts : Judge(silent, v) => running' = running
  BY DEF Judge, NextLoop, Another
<1>14. NextTier \/ EnterLoop \/ LoopsDone \/ PassOver \/ JudgeStops \/ MergeNext \/ Complete \/ WaveFails
         \/ Fails \/ Start \/ Crash \/ Expire \/ UNCHANGED vars => running' \in {running, {}}
  BY DEF NextTier, EnterLoop, LoopsDone, PassOver, JudgeStops, MergeNext, Complete, WaveFails, Fails,
         Start, Crash, Expire, vars, NextLoop, Bail
<1>15. running' \in {running, {}} => x \notin running'
  BY <1>4
<1> QED BY <1>9, <1>10, <1>11, <1>12, <1>13, <1>14, <1>15 DEF Next, Step, Ids

(* What completes was at work. *)
LEMMA DoneBy ==
  ASSUME StatusTypes, [Next]_vars, NEW x \in Ids, x \notin running
  PROVE  done'[x] = done[x]
<1> USE DEF runVars, tierVars, stateVars, loopVars, mergeVars, diskVars
<1>1. ASSUME NEW u \in Ids, NEW ok \in BOOLEAN, NEW kept \in BOOLEAN,
             \/ Finish(u, ok, kept) \/ FinishParallel(u, ok, kept) \/ FinishPass(u, ok, kept)
             \/ FinishWorker(u, ok, kept)
      PROVE  done'[x] = done[x]
  <2>1. u # x /\ Ends(u, ok, kept)
    BY <1>1 DEF Finish, FinishParallel, FinishPass, FinishWorker
  <2>2. done' = IF ok THEN [done EXCEPT ![u] = @ + 1] ELSE done
    BY <2>1 DEF Ends
  <2> QED BY <2>1, <2>2 DEF StatusTypes
<1>2. \A u \in Units : SkipUnmet(u) \/ Launch(u) \/ LaunchPass(u) => done' = done
  BY DEF SkipUnmet, Launch, LaunchPass
<1>3. \A w \in Workers : LaunchWorker(w) => done' = done
  BY DEF LaunchWorker
<1>4. \A silent \in BOOLEAN, v \in Verdicts : Judge(silent, v) => done' = done
  BY DEF Judge
<1>5. NextTier \/ EnterLoop \/ LoopsDone \/ PassOver \/ JudgeStops \/ MergeNext \/ Complete \/ WaveFails
        \/ Fails \/ Start \/ Crash \/ Expire \/ UNCHANGED vars => done' = done
  BY DEF NextTier, EnterLoop, LoopsDone, PassOver, JudgeStops, MergeNext, Complete, WaveFails, Fails,
         Start, Crash, Expire, vars
<1> QED BY <1>1, <1>2, <1>3, <1>4, <1>5 DEF Next, Step, Ids

LEMMA KnotsStep ==
  ASSUME RunInv, Toured, Honest, Knots, [Next]_vars
  PROVE  Knots'
<1>1. StatusTypes
  BY DEF RunInv, PassInv
<1>2. \A i \in DOMAIN Loops : Knot(i)' = Knot(i)
  BY PlanKept DEF Knot, Outside
<1>3. ASSUME NEW i \in DOMAIN Loops, Knot(i), NEW x \in Loops[i].body \cup Downstream(Loops[i].body)
      PROVE  done'[x] = 0 /\ x \notin running'
  <2>1. Idle(i)
    BY <1>3 DEF Knots
  <2>2. x \in Ids
    <3>1. plan \in Plans
      BY DEF RunInv, TypeInv, TypeOK
    <3> QED BY <1>3, <3>1, PlanTypes, WellFormedAssumption
           DEF WellFormed, Loops, Downstream, Below, Members, Ids
  <2> QED BY <1>1, <1>3, <2>1, <2>2, KnotsHold, DoneBy DEF Idle
<1> QED BY <1>2, <1>3, PlanKept DEF Knots, Idle

(* Where the last work of an agent is: settled, or on its branch and yet to be merged. *)
Last(u) == <<u, done[u]>>
Tips == UNION {manifests[i].tip : i \in DOMAIN manifests}
Settled(u) == Last(u) \in head \cup loose \cup Tips
Carried(u) == \/ Settled(u)
              \/ /\ UseWorktrees /\ Last(u) \in branch[u]
                 /\ \E x \in OnBranch : manifests[x].unit = u /\ x >= next

Kept ==
  /\ runs = 0 => phase = "ended" /\ \A u \in Ids : done[u] = 0
  /\ phase \notin {"merge", "ended"} => next = 1
  /\ runs = 1 /\ phase # "ended" /\ AllOk /\ mergeOk =>
       \A u \in Members \ running : done[u] > 0 => Carried(u)

(* The reports of a run only grow. *)
Grown == \A x \in DOMAIN manifests : x \in DOMAIN manifests' /\ manifests'[x] = manifests[x]

LEMMA CarriedOn ==
  ASSUME NEW u, Carried(u), Grown, UNCHANGED <<plan, parallel, next>>, done'[u] = done[u],
         head \subseteq head', loose \subseteq loose', branch'[u] = branch[u]
  PROVE  Carried(u)'
<1>1. Last(u)' = Last(u) /\ UseWorktrees' = UseWorktrees
  BY DEF Last, UseWorktrees
<1>2. Tips \subseteq Tips'
  BY DEF Tips, Grown
<1>3. CASE Settled(u)
  BY <1>1, <1>2, <1>3 DEF Settled, Carried
<1>4. CASE UseWorktrees /\ Last(u) \in branch[u] /\ \E x \in OnBranch : manifests[x].unit = u /\ x >= next
  BY <1>1, <1>4 DEF Carried, OnBranch, Grown
<1> QED BY <1>3, <1>4 DEF Carried

(* The end of an agent: its own work, and that of the others. *)
LEMMA EndCarries ==
  ASSUME TypeOK, NEW v \in Ids, NEW ok \in BOOLEAN, NEW kept \in BOOLEAN, Ends(v, ok, kept),
         UNCHANGED <<plan, parallel, next, phase, lp>>, next = 1, AllOk'
  PROVE  /\ Carried(v)'
         /\ \A u \in Ids \ {v} : Carried(u) => Carried(u)'
<1> DEFINE work == <<v, done[v] + 1>>
           wrote == IF ok /\ kept THEN {work} ELSE {}
           m == IF ~ok \/ ~UseWorktrees THEN Manifest(v, ok, "none", {})
                ELSE IF OnChain THEN Manifest(v, ok, "chain", anchor \cup wrote)
                ELSE Manifest(v, ok, "branch", {})
           n == Len(manifests) + 1
<1>1. /\ done[v] \in Nat /\ done \in [Ids -> Nat] /\ manifests \in Seq(Reported)
      /\ branch \in [Ids -> SUBSET Work] /\ anchor \subseteq Work
  BY DEF TypeOK, Reported
<1>2. ok
  BY EndsOk
<1>3. /\ done' = [done EXCEPT ![v] = @ + 1]
      /\ loose' = IF kept THEN loose ELSE loose \cup {work}
      /\ head' = IF UseWorktrees THEN head ELSE head \cup wrote
      /\ branch' = IF UseWorktrees /\ ~OnChain THEN [branch EXCEPT ![v] = wrote] ELSE branch
      /\ manifests' = Append(manifests, m)
      /\ kept \/ UseWorktrees
  BY <1>2 DEF Ends
<1>4. wrote \subseteq Work /\ (kept => wrote = {work})
  BY <1>1, <1>2 DEF Work
<1>5. m \in Reported
  <2> HIDE DEF wrote
  <2> QED BY <1>1, <1>4 DEF Manifest, Reported
<1>6. /\ n \in DOMAIN manifests' /\ manifests'[n] = m /\ n \in Nat /\ n >= next /\ Grown
  <2> HIDE DEF m
  <2> QED BY <1>1, <1>3, <1>5 DEF Grown
<1>7. Carried(v)'
  <2>1. Last(v)' = work
    BY <1>1, <1>3 DEF Last
  <2>2. UseWorktrees' = UseWorktrees
    BY DEF UseWorktrees
  <2>3. CASE ~kept
    <3>1. work \in loose'
      BY <1>3, <2>3
    <3> HIDE DEF work
    <3> QED BY <2>1, <3>1 DEF Carried, Settled
  <2>4. CASE kept /\ ~UseWorktrees
    <3>1. work \in head'
      BY <1>3, <1>4, <2>4
    <3> HIDE DEF work
    <3> QED BY <2>1, <3>1 DEF Carried, Settled
  <2>5. CASE kept /\ UseWorktrees /\ OnChain
    <3>1. work \in m.tip
      BY <1>2, <1>4, <2>5 DEF Manifest
    <3> HIDE DEF work, m
    <3>2. work \in Tips'
      BY <1>6, <3>1 DEF Tips
    <3> QED BY <2>1, <3>2 DEF Carried, Settled
  <2>6. CASE kept /\ UseWorktrees /\ ~OnChain
    <3>1. m.on = "branch" /\ m.unit = v
      BY <1>2, <2>6 DEF Manifest
    <3>2. work \in branch'[v]
      BY <1>1, <1>3, <1>4, <2>6
    <3> HIDE DEF work, m, n
    <3>3. n \in OnBranch' /\ manifests'[n].unit = v /\ n >= next'
      BY <1>6, <3>1 DEF OnBranch
    <3> QED BY <2>1, <2>2, <2>6, <3>2, <3>3 DEF Carried
  <2> QED BY <1>3, <2>3, <2>4, <2>5, <2>6
<1>8. ASSUME NEW u \in Ids \ {v}, Carried(u)
      PROVE  Carried(u)'
  <2>1. done'[u] = done[u] /\ branch'[u] = branch[u] /\ head \subseteq head' /\ loose \subseteq loose'
    BY <1>1, <1>3, <1>8
  <2> QED BY <1>6, <1>8, <2>1, CarriedOn
<1> QED BY <1>7, <1>8

LEMMA RunsKept ==
  ASSUME [Next]_vars, ~Start
  PROVE  UNCHANGED <<runs, parallel>>
<1>1. \A u \in Ids, ok, kept \in BOOLEAN :
        Finish(u, ok, kept) \/ FinishParallel(u, ok, kept) \/ FinishPass(u, ok, kept)
          \/ FinishWorker(u, ok, kept) => UNCHANGED <<runs, parallel>>
  BY DEF Finish, FinishParallel, FinishPass, FinishWorker, runVars
<1>2. \A u \in Units : SkipUnmet(u) \/ Launch(u) \/ LaunchPass(u) => UNCHANGED <<runs, parallel>>
  BY DEF SkipUnmet, Launch, LaunchPass, runVars
<1>3. \A w \in Workers : LaunchWorker(w) => UNCHANGED <<runs, parallel>>
  BY DEF LaunchWorker, runVars
<1>4. \A silent \in BOOLEAN, v \in Verdicts : Judge(silent, v) => UNCHANGED <<runs, parallel>>
  BY DEF Judge, runVars
<1>5. NextTier \/ EnterLoop \/ LoopsDone \/ PassOver \/ JudgeStops \/ MergeNext \/ Complete
        \/ WaveFails \/ Fails \/ Crash \/ Expire \/ UNCHANGED vars => UNCHANGED <<runs, parallel>>
  BY DEF NextTier, EnterLoop, LoopsDone, PassOver, JudgeStops, MergeNext, Complete, WaveFails,
         Fails, Crash, Expire, vars, runVars
<1> QED BY <1>1, <1>2, <1>3, <1>4, <1>5 DEF Next, Step, Ids

(* A step that provisions or dispatches, or only moves on. *)
Unharmed ==
  /\ UNCHANGED <<done, head, loose, next>> /\ Grown /\ (AllOk' => AllOk) /\ (mergeOk' => mergeOk)
  /\ \A u \in Members \ running' : u \notin running /\ branch'[u] = branch[u]

LEMMA HarmlessSteps ==
  ASSUME TypeInv, [Next]_vars, ~Start, phase' # "ended"
  PROVE  \/ Unharmed \/ MergeNext
         \/ \E v \in Ids, ok, kept \in BOOLEAN :
              Ends(v, ok, kept) /\ UNCHANGED <<next, phase, lp, mergeOk>> /\ phase \notin {"merge", "ended"}
<1> USE DEF runVars, tierVars, stateVars, loopVars, mergeVars, diskVars
<1>0. TypeOK /\ manifests \in Seq(Reported) /\ Members \subseteq Units /\ branch \in [Ids -> SUBSET Work]
  BY PlanTypes DEF TypeInv, TypeOK, Reported
<1>1. ASSUME NEW u \in Units, SkipUnmet(u)
      PROVE  Unharmed
  <2> DEFINE m == Manifest(u, FALSE, "none", {})
  <2>1. m \in Reported
    BY DEF Manifest, Reported, Ids
  <2>2. manifests' = Append(manifests, m)
    BY <1>1 DEF SkipUnmet
  <2>3. (AllOk' => AllOk) /\ Grown
    <3> HIDE DEF m
    <3> QED BY <1>0, <2>1, <2>2, AddedOk DEF Grown
  <2> QED BY <1>1, <2>3 DEF SkipUnmet, Unharmed
<1>2. UNCHANGED manifests => Grown /\ AllOk' = AllOk
  BY DEF Grown, AllOk
<1>3. ASSUME NEW u \in Units, Launch(u) \/ LaunchPass(u)
      PROVE  Unharmed
  <2>1. /\ UNCHANGED <<done, head, loose, next, manifests, mergeOk>> /\ running' = running \cup {u}
        /\ Provisioned(u)
    BY <1>3 DEF Launch, LaunchPass
  <2>2. \A v \in Ids : v # u => branch'[v] = branch[v]
    BY <1>0, <2>1 DEF Provisioned
  <2> QED BY <1>0, <1>2, <2>1, <2>2 DEF Unharmed, Ids
<1>4. ASSUME NEW w \in Workers, LaunchWorker(w)
      PROVE  Unharmed
  <2>1. /\ UNCHANGED <<done, head, loose, next, manifests, mergeOk>> /\ running = {}
        /\ Provisioned(w) \/ UNCHANGED branch
    BY <1>4 DEF LaunchWorker
  <2>2. \A v \in Ids : v # w => branch'[v] = branch[v]
    BY <1>0, <2>1 DEF Provisioned
  <2> QED BY <1>0, <1>2, <2>1, <2>2, DisjointAssumption DEF Unharmed, Ids
<1>5. ASSUME NEW v \in Ids, NEW ok \in BOOLEAN, NEW kept \in BOOLEAN,
             \/ Finish(v, ok, kept) \/ FinishParallel(v, ok, kept) \/ FinishPass(v, ok, kept)
             \/ FinishWorker(v, ok, kept)
      PROVE  Ends(v, ok, kept) /\ UNCHANGED <<next, phase, lp, mergeOk>> /\ phase \notin {"merge", "ended"}
  BY <1>5 DEF Finish, FinishParallel, FinishPass, FinishWorker
<1>6. ASSUME NEW silent \in BOOLEAN, NEW v \in Verdicts, Judge(silent, v)
      PROVE  Unharmed
  BY <1>2, <1>6 DEF Judge, NextLoop, Another, Unharmed
<1>7. CASE NextTier \/ EnterLoop \/ LoopsDone \/ PassOver \/ JudgeStops
  <2>1. UNCHANGED <<done, head, loose, next, manifests, mergeOk, branch, running>>
    BY <1>7 DEF NextTier, EnterLoop, LoopsDone, PassOver, JudgeStops, NextLoop, Bail
  <2> QED BY <1>2, <2>1 DEF Unharmed
<1>8. CASE WaveFails
  <2>1. running \cap Members = {} /\ UNCHANGED <<done, head, loose, next, manifests, mergeOk, branch>>
    BY <1>0, <1>8, DisjointAssumption DEF WaveFails
  <2> QED BY <1>2, <2>1 DEF Unharmed
<1>9. CASE Expire \/ UNCHANGED vars
  BY <1>2, <1>9 DEF Expire, vars, Unharmed
<1>10. ~(Complete \/ Fails \/ Crash)
  BY DEF Complete, Fails, Crash, Bail
<1>11. CASE Step
  <2>1. CASE \E u \in Units : SkipUnmet(u) \/ Launch(u) \/ LaunchPass(u)
    BY <1>1, <1>3, <2>1
  <2>2. CASE \/ \E u \in Units, ok, kept \in BOOLEAN :
                  Finish(u, ok, kept) \/ FinishParallel(u, ok, kept) \/ FinishPass(u, ok, kept)
             \/ \E w \in Workers, ok, kept \in BOOLEAN : FinishWorker(w, ok, kept)
    BY <1>5, <2>2 DEF Ids
  <2>3. CASE \E w \in Workers : LaunchWorker(w)
    BY <1>4, <2>3
  <2> QED BY <1>6, <1>7, <1>10, <1>11, <2>1, <2>2, <2>3 DEF Step
<1> QED BY <1>8, <1>9, <1>10, <1>11 DEF Next

(* At rest nothing happens but the next run. *)
LEMMA Answered ==
  ASSUME [Next]_vars, ~Start, phase = "ended"
  PROVE  UNCHANGED vars
<1>1. ~\E u \in Units : SkipUnmet(u) \/ Launch(u) \/ LaunchPass(u)
  BY DEF SkipUnmet, Launch, LaunchPass
<1>2. ~\E w \in Workers : LaunchWorker(w)
  BY DEF LaunchWorker
<1>3. ~\E u \in Units, ok, kept \in BOOLEAN :
         Finish(u, ok, kept) \/ FinishParallel(u, ok, kept) \/ FinishPass(u, ok, kept)
  BY DEF Finish, FinishParallel, FinishPass
<1>4. ~\E w \in Workers, ok, kept \in BOOLEAN : FinishWorker(w, ok, kept)
  BY DEF FinishWorker
<1>5. ~\E silent \in BOOLEAN, v \in Verdicts : Judge(silent, v)
  BY DEF Judge
<1>6. ~(NextTier \/ EnterLoop \/ LoopsDone \/ PassOver \/ JudgeStops \/ MergeNext \/ Complete
        \/ WaveFails \/ Fails \/ Crash \/ Expire)
  BY DEF NextTier, EnterLoop, LoopsDone, PassOver, JudgeStops, MergeNext, Complete, WaveFails,
         Fails, Crash, Expire
<1> QED BY <1>1, <1>2, <1>3, <1>4, <1>5, <1>6 DEF Next, Step

LEMMA KeptStep ==
  ASSUME RunInv, Kept, Toured, [Next]_vars
  PROVE  Kept'
<1> USE DEF runVars, tierVars, stateVars, loopVars, mergeVars, diskVars
<1>1. /\ TypeInv /\ TypeOK /\ StatusTypes /\ manifests \in Seq(Reported) /\ runs \in Nat /\ next \in Nat
      /\ Members \subseteq Units /\ branch \in [Ids -> SUBSET Work]
  BY PlanTypes DEF RunInv, PassInv, TypeInv, TypeOK, Reported
<1>2. CASE Start
  <2>1. runs' = runs + 1 /\ phase' = "tiers" /\ next' = 1 /\ done' = done
    BY <1>2 DEF Start
  <2>2. runs' = 1 => \A u \in Ids : ~(done'[u] > 0)
    BY <1>1, <2>1 DEF Kept
  <2>3. runs' # 0
    BY <1>1, <2>1
  <2>4. Members' \subseteq Ids
    BY <1>1, PlanKept DEF Ids
  <2> QED BY <2>1, <2>2, <2>3, <2>4 DEF Kept
<1>3. CASE ~Start /\ phase = "ended"
  <2>1. UNCHANGED <<runs, phase, done>>
    BY <1>3, Answered DEF vars
  <2> QED BY <1>3, <2>1 DEF Kept
<1>4. CASE phase # "ended" /\ phase' = "ended"
  <2>1. runs' = runs
    BY <1>4, RunsKept DEF Start
  <2> QED BY <1>4, <2>1 DEF Kept
<1>5. CASE ~Start /\ phase # "ended" /\ phase' # "ended"
  <2>1. runs' = runs /\ plan' = plan /\ parallel' = parallel /\ runs # 0
    BY <1>5, RunsKept, PlanKept DEF Kept
  <2>2. SUFFICES /\ phase' # "merge" => next' = 1
                 /\ runs = 1 /\ AllOk' /\ mergeOk' =>
                      \A u \in Members \ running' : done'[u] > 0 => Carried(u)'
    BY <1>5, <2>1, PlanKept DEF Kept
  <2>3. phase' # "merge" => phase # "merge" /\ next = 1
    <3>1. phase' \in {"tiers", "enter", "judge", "pass", "post", "merge", "ended"}
      BY <1>1, TypeStep DEF TypeInv, TypeOK
    <3>2. phase' # "merge" => phase # "merge"
      BY <1>5, <3>1, Moves DEF Moved
    <3> QED BY <1>5, <3>2 DEF Kept
  <2>4. CASE Unharmed
    <3>1. ASSUME NEW u \in Members \ running', runs = 1, AllOk', mergeOk', done'[u] > 0
          PROVE  Carried(u)'
      <4>1. Carried(u)
        BY <1>5, <2>4, <3>1 DEF Unharmed, Kept
      <4> QED BY <2>1, <2>4, <3>1, <4>1, CarriedOn DEF Unharmed
    <3>2. next' = next
      BY <2>4 DEF Unharmed
    <3> QED BY <2>3, <3>1, <3>2
  <2>5. ASSUME NEW v \in Ids, NEW ok \in BOOLEAN, NEW kept \in BOOLEAN, Ends(v, ok, kept),
               UNCHANGED <<next, phase, lp, mergeOk>>, phase \notin {"merge", "ended"}
        PROVE  /\ phase' # "merge" => next' = 1
               /\ runs = 1 /\ AllOk' /\ mergeOk' =>
                    \A u \in Members \ running' : done'[u] > 0 => Carried(u)'
    <3>1. next = 1
      BY <2>5 DEF Kept
    <3>2. ASSUME NEW u \in Members \ running', runs = 1, AllOk', mergeOk', done'[u] > 0
          PROVE  Carried(u)'
      <4>1. CASE u = v
        BY <1>1, <2>1, <2>5, <3>1, <3>2, <4>1, EndCarries
      <4>2. CASE u # v
        <5>1. AllOk /\ running' = running \ {v}
          BY <1>1, <2>5, <3>2, EndsOk
        <5>2. done'[u] = done[u] /\ u \in Ids /\ u \notin running
          BY <1>1, <3>2, <4>2, <5>1, DoneBy DEF Ids
        <5>3. Carried(u)
          BY <1>5, <2>5, <3>2, <5>1, <5>2 DEF Kept
        <5> QED BY <1>1, <2>1, <2>5, <3>1, <3>2, <4>2, <5>2, <5>3, EndCarries
      <4> QED BY <4>1, <4>2
    <3> QED BY <2>5, <3>1, <3>2
  <2>6. CASE MergeNext
    <3>1. /\ phase = "merge" /\ phase' = "merge" /\ next' = next + 1
          /\ UNCHANGED <<done, loose, manifests, branch, running>> /\ head \subseteq head'
      BY <2>6 DEF MergeNext
    <3>2. ASSUME NEW u \in Members \ running', runs = 1, AllOk', mergeOk', done'[u] > 0
          PROVE  Carried(u)'
      <4>1. /\ Last(u)' = Last(u) /\ Tips' = Tips /\ OnBranch' = OnBranch /\ AllOk
            /\ UseWorktrees' = UseWorktrees
        BY <2>1, <3>1, <3>2 DEF Last, Tips, OnBranch, AllOk, UseWorktrees
      <4>2. mergeOk
        BY <2>6, <3>2 DEF MergeNext
      <4>3. Carried(u)
        BY <1>5, <3>1, <3>2, <4>1, <4>2 DEF Kept
      <4>4. CASE Settled(u)
        BY <3>1, <4>1, <4>4 DEF Settled, Carried
      <4>5. ASSUME UseWorktrees, Last(u) \in branch[u], NEW x \in OnBranch, manifests[x].unit = u, x >= next
            PROVE  Carried(u)'
        <5>1. x \in Nat
          BY <1>1 DEF OnBranch
        <5>2. CASE x = next
          <6>1. Coming = manifests[x] /\ Coming.on = "branch"
            BY <5>2 DEF Coming, OnBranch
          <6>2. head' = head \cup branch[u]
            BY <2>6, <3>2, <4>5, <6>1 DEF MergeNext
          <6> QED BY <4>1, <4>5, <6>2 DEF Settled, Carried
        <5>3. CASE x # next
          <6>1. x >= next'
            BY <1>1, <3>1, <4>5, <5>1, <5>3
          <6> QED BY <3>1, <4>1, <4>5, <6>1 DEF Carried
        <5> QED BY <5>2, <5>3
      <4> QED BY <4>3, <4>4, <4>5 DEF Carried
    <3> QED BY <3>1, <3>2
  <2> QED BY <1>1, <1>5, <2>4, <2>5, <2>6, HarmlessSteps
<1> QED BY <1>2, <1>3, <1>4, <1>5

(* The answer at the end of the merge. *)
LEMMA Vouched ==
  ASSUME RunInv, Honest, Toured, Circled, Knots, Kept, phase = "merge", UseWorktrees => next > Len(manifests),
         AllOk, mergeOk, ~expired, NEW u \in Members
  PROVE  \/ done[u] = 0 /\ PassedOver(u)
         \/ /\ done[u] > 0
            /\ runs = 1 => <<u, done[u]>> \in head \cup loose \cup
                             UNION {manifests[i].tip : i \in DOMAIN manifests}
<1>1. /\ StatusTypes /\ plan \in Plans /\ manifests \in Seq(Reported) /\ next \in Nat
      /\ Members \subseteq Ids
  BY PlanTypes DEF RunInv, TypeInv, TypeOK, PassInv, Reported, Ids
<1>2. CASE done[u] > 0
  <2>1. ASSUME runs = 1
        PROVE  <<u, done[u]>> \in head \cup loose \cup UNION {manifests[i].tip : i \in DOMAIN manifests}
    <3>1. Carried(u)
      BY <1>2, <2>1 DEF Kept, Toured
    <3>2. ASSUME UseWorktrees, NEW x \in OnBranch, x >= next
          PROVE  FALSE
      <4>1. x \in Nat /\ x <= Len(manifests)
        BY <1>1 DEF OnBranch
      <4> QED BY <1>1, <3>2, <4>1
    <3> QED BY <3>1, <3>2 DEF Carried, Settled, Last, Tips
  <2> QED BY <1>2, <2>1
<1>3. CASE ~(done[u] > 0)
  <2>1. done[u] = 0
    BY <1>1, <1>3 DEF StatusTypes
  <2>2. u \in StackedBodies \ PostLoop
    BY <1>3 DEF Toured, Plain
  <2>3. PICK i \in DOMAIN Loops : Loops[i].stacked /\ u \in Loops[i].body
    BY <2>2 DEF StackedBodies
  <2>4. Missed(i)
    BY <1>3, <2>2, <2>3 DEF Circled, Delivered
  <2>5. \E d \in Outside(i) : status[d] # "Completed"
    <3>1. ASSUME NEW d \in Outside(i) \cap Downstream(Loops[i].body)
          PROVE  status[d] # "Completed"
      <4>1. Idle(i)
        BY <2>2, <2>3, <3>1 DEF Knots, Knot
      <4>2. done[d] = 0 /\ d \in Ids
        BY <1>1, <3>1, <4>1 DEF Idle, Downstream, Below, Members
      <4> QED BY <4>2 DEF Honest
    <3> QED BY <2>4, <3>1 DEF Missed
  <2>6. PassedOver(u)
    BY <2>3, <2>5 DEF PassedOver, Outside
  <2> QED BY <2>1, <2>6
<1> QED BY <1>2, <1>3

SuccessInv ==
  /\ RunInv /\ Honest /\ Toured /\ Circled /\ Knots /\ Kept
  /\ result = "success" => phase = "ended"
  /\ NoUnitForgotten

(* Only the end of a run gives the answer. *)
LEMMA Answers ==
  ASSUME [Next]_vars, result' = "success", result # "success"
  PROVE  Complete
<1> USE DEF runVars, tierVars, stateVars, loopVars, mergeVars, diskVars
<1>1. ~\E u \in Units : SkipUnmet(u) \/ Launch(u) \/ LaunchPass(u)
  BY DEF SkipUnmet, Launch, LaunchPass
<1>2. ~\E w \in Workers : LaunchWorker(w)
  BY DEF LaunchWorker
<1>3. ~\E u \in Units, ok, kept \in BOOLEAN :
         Finish(u, ok, kept) \/ FinishParallel(u, ok, kept) \/ FinishPass(u, ok, kept)
  BY DEF Finish, FinishParallel, FinishPass
<1>4. ~\E w \in Workers, ok, kept \in BOOLEAN : FinishWorker(w, ok, kept)
  BY DEF FinishWorker
<1>5. ~\E silent \in BOOLEAN, v \in Verdicts : Judge(silent, v)
  BY DEF Judge, NextLoop, Another
<1>6. ~(NextTier \/ EnterLoop \/ LoopsDone \/ PassOver \/ JudgeStops \/ MergeNext
        \/ WaveFails \/ Fails \/ Start \/ Crash \/ Expire \/ UNCHANGED vars)
  BY DEF NextTier, EnterLoop, LoopsDone, PassOver, JudgeStops, MergeNext, WaveFails,
         Fails, Start, Crash, Expire, vars, NextLoop, Bail
<1> QED BY <1>1, <1>2, <1>3, <1>4, <1>5, <1>6 DEF Next, Step

LEMMA SuccessStep ==
  ASSUME SuccessInv, [Next]_vars
  PROVE  (result = "success" => phase = "ended")' /\ NoUnitForgotten'
<1> USE DEF runVars, tierVars, stateVars, loopVars, mergeVars, diskVars
<1>1. CASE result' # "success"
  BY <1>1 DEF NoUnitForgotten
<1>2. CASE result' = "success" /\ result = "success"
  <2>1. ~Start
    BY <1>2 DEF Start
  <2>2. UNCHANGED vars
    BY <1>2, <2>1, Answered DEF SuccessInv
  <2> QED BY <1>2, <2>2, PlanKept DEF SuccessInv, NoUnitForgotten, PassedOver, vars
<1>3. CASE result' = "success" /\ result # "success"
  <2>1. Complete
    BY <1>3, Answers
  <2>2. /\ phase = "merge" /\ (UseWorktrees => next > Len(manifests)) /\ mergeOk /\ AllOk
        /\ phase' = "ended" /\ UNCHANGED <<done, status, head, loose, manifests, expired, runs>>
    BY <1>3, <2>1 DEF Complete, AllOk
  <2>3. ~expired => \A u \in Members :
          \/ done[u] = 0 /\ PassedOver(u)
          \/ /\ done[u] > 0
             /\ runs = 1 => <<u, done[u]>> \in head \cup loose \cup
                              UNION {manifests[i].tip : i \in DOMAIN manifests}
    BY <2>2, Vouched DEF SuccessInv
  <2>4. \A u : PassedOver(u)' = PassedOver(u)
    BY <2>2, PlanKept DEF PassedOver
  <2> QED BY <2>2, <2>3, <2>4, PlanKept DEF NoUnitForgotten
<1> QED BY <1>1, <1>2, <1>3

(* In no run of any plan does a success within the budget pass over a unit, but for the
   bodies of stacked loops that were passed over: the tiers reach every unit that is of no
   stacked loop and behind none, the passes of a loop all of its body, the last phase what
   is behind one; and in a first run the merge or the chain holds the last work of each
   (pipeline.rs:824, pipeline.rs:2075, pipeline.rs:2302). *)
THEOREM NothingForgotten == Spec => []NoUnitForgotten
<1>1. Init => SuccessInv
  <2> SUFFICES ASSUME Init PROVE SuccessInv
    OBVIOUS
  <2>1. RunInv /\ StatusTypes /\ plan \in Plans
    BY OrderInitial DEF OrderInv, RunInv, PassInv, Init
  <2>2. Honest
    BY FreshTypes DEF Init, Honest, CheckpointHonest, Fresh
  <2>3. \A x \in Ids : done[x] = 0
    BY DEF Init
  <2>4. Knots
    <3>1. ASSUME NEW i \in DOMAIN Loops, NEW x \in Loops[i].body \cup Downstream(Loops[i].body)
          PROVE  x \in Ids
      <4>1. Loops[i].body \subseteq Members /\ Members \subseteq Ids
        BY <2>1, PlanTypes, WellFormedAssumption DEF WellFormed, Loops, Members, Ids
      <4> QED BY <4>1 DEF Downstream, Below, Members
    <3>2. running = {}
      BY DEF Init
    <3> QED BY <2>3, <3>1, <3>2 DEF Knots, Idle
  <2>5. Toured /\ Circled
    BY DEF Init, Toured, Circled
  <2>6. Kept
    BY <2>3 DEF Init, Kept
  <2>7. NoUnitForgotten /\ (result = "success" => phase = "ended")
    BY DEF Init, NoUnitForgotten
  <2> QED BY <2>1, <2>2, <2>4, <2>5, <2>6, <2>7 DEF SuccessInv
<1>2. SuccessInv /\ [Next]_vars => SuccessInv'
  <2> SUFFICES ASSUME SuccessInv, [Next]_vars PROVE SuccessInv'
    OBVIOUS
  <2>1. RunInv' /\ Honest'
    BY RunStep, HonestStep DEF SuccessInv, RunInv, PassInv, HonestInv
  <2>2. Toured' /\ Circled' /\ Knots' /\ Kept'
    BY ToursStep, CirclesStep, KnotsStep, KeptStep DEF SuccessInv
  <2>3. (result = "success" => phase = "ended")' /\ NoUnitForgotten'
    BY SuccessStep
  <2> QED BY <2>1, <2>2, <2>3 DEF SuccessInv
<1>3. SuccessInv => NoUnitForgotten
  BY DEF SuccessInv
<1> QED BY <1>1, <1>2, <1>3, PTL DEF Spec

=============================================================================
