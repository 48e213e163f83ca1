------------------------------- MODULE Swarm -------------------------------
(***************************************************************************)
(* The swarm pipeline (gaviero-core swarm/pipeline.rs, execute): the work  *)
(* units of a compiled plan run tier by tier, the bodies of its loops run  *)
(* again until a judge is content, the units after a loop run last, and    *)
(* the agents' branches are merged.  A checkpoint of what completed        *)
(* survives a crash and feeds --resume.                                    *)
(*                                                                         *)
(* What an agent writes is one piece of work per completed run, named by   *)
(* the agent and a number.  Prompts, memory, models and costs are left out.*)
(***************************************************************************)
EXTENDS Naturals, Sequences, FiniteSets

CONSTANTS
  Units,     \* ids of the units plans are made of
  Workers,   \* ids a fan-out manifest may name
  Plans,     \* the plans the pipeline may be given
  Blockers,  \* fingerprints of a failing verdict
  Modes,     \* values --max-parallel > 1 may have
  Again,     \* the plans that may be run a second time, resumed or afresh
  MaxCrashes \* bound on crashes

Ids == Units \cup Workers

(* A plan: the units and what each depends on, the loops in order (body,
   branch_chain, max_iterations, stability, irreconcilable_after), the unit a
   fan-out follows, at most one, whether the workspace is a repository with commits, and
   whether the run has a time budget. *)
PlanType == [deps : UNION {[S -> SUBSET S] : S \in SUBSET Units},
             loops : Seq([body : SUBSET Units, stacked : BOOLEAN, max : Nat,
                          stability : Nat, irrec : Nat]),
             fan : SUBSET Units, git : BOOLEAN, budget : BOOLEAN]

(* Whoever depends in p, through others or not, on one of S. *)
Below(p, S) ==
  {u \in DOMAIN p.deps :
     \A C \in SUBSET DOMAIN p.deps :
       (\A v \in DOMAIN p.deps : p.deps[v] \cap (S \cup C) # {} => v \in C) => u \in C}

(* The tiers of p's units: each in the first above everything it depends on.
   There are none when the dependencies are cyclic. *)
Tierings(p) ==
  {f \in [DOMAIN p.deps -> 1..Cardinality(DOMAIN p.deps)] :
     \A u \in DOMAIN p.deps :
       LET below == {f[d] : d \in p.deps[u] \cap DOMAIN p.deps}
       IN (\A n \in below : n < f[u]) /\ (f[u] = 1 \/ f[u] - 1 \in below)}

(* A plan with a cycle is refused, and the compiler makes the agents of a loop
   depend on those of the loops before it. *)
WellFormed(p) ==
  /\ Tierings(p) # {}
  /\ \A i \in DOMAIN p.loops : p.loops[i].body \subseteq DOMAIN p.deps
  /\ \A i, j \in DOMAIN p.loops :
       i < j => \A u \in p.loops[j].body : p.loops[i].body \subseteq p.deps[u]

ASSUME WellFormedAssumption == \A p \in Plans : WellFormed(p)
ASSUME PlansAssumption == Plans \subseteq PlanType /\ Again \subseteq Plans
ASSUME ModesAssumption == Modes \subseteq BOOLEAN
ASSUME DisjointAssumption == Units \cap Workers = {}

VARIABLES
  plan,      \* CompiledPlan
  parallel,  \* effective_max_parallel > 1
  phase,     \* where execute is
  tier, left,\* the tier being worked off and its units not dispatched yet
  running,   \* agents at work
  wave,      \* fan-out workers not dispatched yet
  status,    \* ExecutionState.node_states
  spawned,   \* ExecutionState.spawned_ids
  manifests, \* all_manifests
  lp, pass,  \* the loop being run and its iteration
  wins, quiet, streak, blocker, \* consecutive_pass, silent_streak, repeat_streak, last_blocker_fingerprint
  anchor,    \* chain_anchor: the work its commit contains
  next,      \* the manifest the merge phase has reached
  mergeOk,   \* have all merges succeeded?
  expired,   \* is the run's budget spent?
  result,    \* what execute returned
  saved,     \* the checkpoint on disk
  branch,    \* work on branch gaviero/{id} beyond its base
  head,      \* work in the workspace's HEAD or tree
  runs, crashes, \* what the bounds have used up
  done,      \* history: how often an agent completed
  begun, skipped, \* history: agents dispatched in this run, and skipped
  merged,    \* history: agents in the order their branches were merged
  loose      \* history: work whose commit failed

tierVars == <<tier, left, wave>>
stateVars == <<status, spawned>>
loopVars == <<lp, pass, wins, quiet, streak, blocker, anchor>>
mergeVars == <<next, mergeOk, merged>>
diskVars == <<saved, branch, head, loose>>
runVars == <<plan, parallel, runs, crashes>>
vars == <<runVars, tierVars, stateVars, loopVars, mergeVars, diskVars, phase,
          running, manifests, expired, result, done, begun, skipped>>

Statuses == {"Pending", "Running", "Completed", "HardFailure"}
Fresh == [status |-> [u \in Ids |-> "Pending"], spawned |-> {}]
Work == Ids \X Nat

Members == DOMAIN plan.deps
Deps(u) == IF u \in Members THEN plan.deps[u] ELSE {}
TierOf == CHOOSE f \in Tierings(plan) : TRUE
Tier(n) == {u \in Members : TierOf[u] = n}
TiersLeftShort(n) == \E u \in Members : TierOf[u] > n + 1
TiersLeft(n) == \E u \in Members : TierOf[u] > n

Loops == plan.loops
Loop == Loops[lp]
Bodies == UNION {Loops[i].body : i \in DOMAIN Loops}
StackedBodies == UNION {Loops[i].body : i \in {j \in DOMAIN Loops : Loops[j].stacked}}
Downstream(S) == Below(plan, S)
(* Whatever one of S depends on, through others or not. *)
Upstream(S) == {d \in Members \ S : Downstream({d}) \cap S # {}}
PostLoopStacked == Downstream(StackedBodies)
PostLoop == Downstream(Bodies)

UseWorktrees == parallel /\ plan.git
OneByOne(n) == ~parallel \/ Cardinality(Tier(n)) <= 1
UnmetFailed(u) == {d \in Deps(u) : status[d] = "HardFailure"}
Unmet(u) == {d \in Deps(u) : status[d] # "Completed"}
(* What a tier's dispatch does not pass over: loop bodies run stacked and units
   after a loop are left for later; completed units are passed over on the
   sequential path only. *)
Due(n) == {u \in Tier(n) : /\ u \notin StackedBodies \cup PostLoop
                           /\ OneByOne(n) => status[u] # "Completed"}
DuePost(n) == {u \in Tier(n) : u \in PostLoop /\ status[u] # "Completed"}

Sequential == phase = "post" \/ OneByOne(tier)

Manifest(u, ok, on, tip) == [unit |-> u, ok |-> ok, on |-> on, tip |-> tip]
Reports(u) == {i \in DOMAIN manifests : manifests[i].unit = u}
Latest(u) == manifests[CHOOSE i \in Reports(u) : \A j \in Reports(u) : j <= i]
(* The latest report of every agent of the panel is a failure. *)
TotalFailure(S) == S # {} /\ \A u \in S : Reports(u) # {} /\ ~Latest(u).ok
Quiet == running = {} /\ left = {} /\ wave = {}
OnChain == phase = "pass" /\ Loop.stacked

Init ==
  /\ plan \in Plans /\ parallel = FALSE /\ phase = "ended" /\ result = "none"
  /\ tier = 0 /\ left = {} /\ running = {} /\ wave = {}
  /\ status = Fresh.status /\ spawned = {} /\ manifests = <<>>
  /\ lp = 1 /\ pass = 0 /\ wins = 0 /\ quiet = 0 /\ streak = 0 /\ blocker = "none"
  /\ anchor = {} /\ next = 1 /\ mergeOk = TRUE /\ expired = FALSE
  /\ saved = Fresh /\ branch = [u \in Ids |-> {}] /\ head = {}
  /\ runs = 0 /\ crashes = 0 /\ done = [u \in Ids |-> 0]
  /\ begun = {} /\ skipped = {} /\ merged = <<>> /\ loose = {}

(* gaviero --resume loads the checkpoint, a run without it starts afresh. *)
Start ==
  /\ phase = "ended" /\ runs < (IF plan \in Again THEN 2 ELSE 1)
  /\ \E from \in {saved, Fresh}, par \in Modes :
       /\ status' = from.status /\ spawned' = from.spawned /\ parallel' = par
  /\ phase' = "tiers" /\ tier' = 0 /\ left' = {} /\ wave' = {} /\ running' = {}
  /\ manifests' = <<>> /\ lp' = 1 /\ pass' = 0 /\ wins' = 0 /\ quiet' = 0
  /\ streak' = 0 /\ blocker' = "none" /\ anchor' = {}
  /\ next' = 1 /\ mergeOk' = TRUE /\ merged' = <<>> /\ expired' = FALSE
  /\ result' = "none" /\ begun' = {} /\ skipped' = {} /\ runs' = runs + 1
  /\ UNCHANGED <<plan, crashes, diskVars, done>>

(* An error leaves execute at once: no merge, no teardown. *)
Bail ==
  /\ phase' = "ended" /\ result' = "error"
  /\ running' = {} /\ left' = {} /\ wave' = {}

(* On to the next tier, unless the budget is spent; post-loop dispatch walks the
   same tiers and has no budget. *)
NextTier ==
  /\ phase \in {"tiers", "post"} /\ Quiet
  /\ \/ /\ TiersLeft(tier) /\ ~(phase = "tiers" /\ expired)
        /\ tier' = tier + 1 /\ UNCHANGED <<phase, wave>>
        /\ left' = IF phase = "tiers" THEN Due(tier + 1) ELSE DuePost(tier + 1)
     \/ /\ ~TiersLeft(tier) \/ (phase = "tiers" /\ expired)
        /\ phase' = IF phase = "tiers" THEN "enter" ELSE "merge"
        /\ UNCHANGED tierVars
  /\ UNCHANGED <<runVars, stateVars, loopVars, mergeVars, diskVars, running,
                 manifests, expired, result, done, begun, skipped>>

(* record_unmet_dependency_skip: a failed report, and no checkpoint. *)
SkipUnmet(u) ==
  /\ phase \in {"tiers", "post"} /\ u \in left /\ wave = {}
  /\ Sequential => running = {}
  /\ Unmet(u) # {}
  /\ left' = left \ {u} /\ status' = [status EXCEPT ![u] = "HardFailure"]
  /\ manifests' = Append(manifests, Manifest(u, FALSE, "none", {}))
  /\ skipped' = skipped \cup {u}
  /\ UNCHANGED <<runVars, tier, wave, spawned, loopVars, mergeVars, diskVars,
                 phase, running, expired, result, done, begun>>

(* Provisioning resets the agent's own branch to HEAD; a stacked pass works on
   a branch of its own. *)
Provisioned(u) ==
  branch' = IF UseWorktrees /\ ~OnChain THEN [branch EXCEPT ![u] = {}] ELSE branch

(* Dispatch on the sequential paths, one agent at a time, and of a whole tier. *)
Launch(u) ==
  /\ phase \in {"tiers", "post"} /\ u \in left /\ wave = {} /\ Unmet(u) = {}
  /\ IF Sequential THEN running = {} /\ status' = [status EXCEPT ![u] = "Running"]
                   ELSE UNCHANGED status
  /\ left' = left \ {u} /\ running' = running \cup {u} /\ begun' = begun \cup {u}
  /\ Provisioned(u)
  /\ UNCHANGED <<runVars, tier, wave, spawned, loopVars, mergeVars, saved, head,
                 loose, phase, manifests, expired, result, done, skipped>>

(* An agent ends: what it wrote is committed on its branch, a failed commit
   being only logged, or is in the shared workspace already. *)
Ends(u, ok, kept) ==
  LET work == <<u, done[u] + 1>>
      wrote == IF ok /\ kept THEN {work} ELSE {}
  IN /\ kept \/ (ok /\ UseWorktrees)
     /\ done' = IF ok THEN [done EXCEPT ![u] = @ + 1] ELSE done
     /\ loose' = IF ok /\ ~kept THEN loose \cup {work} ELSE loose
     /\ head' = IF UseWorktrees THEN head ELSE head \cup wrote
     /\ branch' = IF UseWorktrees /\ ~OnChain THEN [branch EXCEPT ![u] = wrote] ELSE branch
     /\ manifests' = Append(manifests,
          IF ~ok \/ ~UseWorktrees THEN Manifest(u, ok, "none", {})
          ELSE IF OnChain THEN Manifest(u, ok, "chain", anchor \cup wrote)
          ELSE Manifest(u, ok, "branch", {}))
     /\ running' = running \ {u}

RecordedSoft(u, ok) == [status EXCEPT ![u] = IF ok THEN "Completed" ELSE "SoftFailure"]
RecordedAlways(u, ok) == [status EXCEPT ![u] = "Completed"]
Recorded(u, ok) == [status EXCEPT ![u] = IF ok THEN "Completed" ELSE "HardFailure"]

(* An agent of a sequential tier, or of the post-loop phase, ends: its result is
   recorded and the checkpoint saved; a failure breaks off the tier.  A fan-out
   unit's workers follow, unless a worker was spawned before. *)
Finish(u, ok, kept) ==
  /\ phase \in {"tiers", "post"} /\ u \in running /\ u \in Units /\ Sequential
  /\ Ends(u, ok, kept) /\ status' = Recorded(u, ok)
  /\ saved' = [status |-> status', spawned |-> spawned]
  /\ left' = IF ok THEN left ELSE {}
  /\ \/ ok /\ phase = "tiers" /\ u \in plan.fan /\ spawned = {} /\ wave' \in SUBSET Workers
     \/ ~(ok /\ phase = "tiers" /\ u \in plan.fan /\ spawned = {}) /\ wave' = wave
  /\ UNCHANGED <<runVars, tier, spawned, loopVars, mergeVars, phase, expired,
                 result, begun, skipped>>

(* An agent of a parallel tier ends: its manifest is collected, its result is
   not recorded in the execution state and no checkpoint is saved. *)
FinishParallel(u, ok, kept) ==
  /\ phase = "tiers" /\ u \in running /\ ~OneByOne(tier) /\ left = {}
  /\ Ends(u, ok, kept)
  /\ UNCHANGED <<runVars, tierVars, stateVars, loopVars, mergeVars, saved, phase,
                 expired, result, begun, skipped>>

(* Fan-out workers run one by one; a worker that completed before is passed
   over, and an error gives up the rest of the wave only. *)
LaunchWorker(w) ==
  /\ phase = "tiers" /\ running = {} /\ w \in wave
  /\ wave' = wave \ {w}
  /\ \/ /\ status[w] = "Completed" /\ UNCHANGED <<status, running, begun, branch>>
     \/ /\ status[w] # "Completed" /\ Provisioned(w)
        /\ status' = [status EXCEPT ![w] = "Running"]
        /\ running' = {w} /\ begun' = begun \cup {w}
  /\ UNCHANGED <<runVars, tier, left, spawned, loopVars, mergeVars, saved, head,
                 loose, phase, manifests, expired, result, done, skipped>>

FinishWorker(w, ok, kept) ==
  /\ phase = "tiers" /\ w \in running /\ w \in Workers
  /\ Ends(w, ok, kept) /\ status' = Recorded(w, ok)
  /\ spawned' = spawned \cup {w}
  /\ saved' = [status |-> status', spawned |-> spawned']
  /\ UNCHANGED <<runVars, tierVars, loopVars, mergeVars, phase, expired, result,
                 begun, skipped>>

WaveFails ==
  /\ phase = "tiers" /\ wave # {} /\ wave' = {} /\ running' = {}
  /\ running \subseteq Workers
  /\ UNCHANGED <<runVars, tier, left, stateVars, loopVars, mergeVars, diskVars, phase,
                 manifests, expired, result, done, begun, skipped>>

(* The loop block is over, or was passed over: on to the next loop. *)
NextLoop ==
  /\ phase' = "enter" /\ lp' = lp + 1 /\ pass' = 0 /\ wins' = 0 /\ quiet' = 0
  /\ streak' = 0 /\ blocker' = "none" /\ anchor' = {}
  /\ UNCHANGED <<left, running, wave, result>>

OutsideDeps == (UNION {Deps(u) : u \in Loop.body}) \ Loop.body
Ready == \A d \in OutsideDeps : status[d] = "Completed"
FirstPassDone == \A u \in Loop.body : status[u] = "Completed"
(* The committed branches a stacked loop may start from. *)
Bases == {i \in DOMAIN manifests : /\ manifests[i].unit \in Upstream(Loop.body)
                                   /\ manifests[i].ok /\ manifests[i].on # "none"}
Tip(m) == IF m.on = "chain" THEN m.tip ELSE head \cup branch[m.unit]

(* The first pass of a plain loop ran with the tiers; a stacked loop's runs
   here, from the one branch before it, or from HEAD. *)
EnterLoop ==
  /\ phase = "enter" /\ lp <= Len(Loops)
  /\ \/ ~Ready /\ NextLoop
     \/ Ready /\ ~Loop.stacked /\ TotalFailure(Loop.body) /\ Bail /\ UNCHANGED loopVars
     \/ /\ Ready /\ ~Loop.stacked /\ ~TotalFailure(Loop.body) /\ ~FirstPassDone
        /\ NextLoop
     \/ /\ Ready /\ ~Loop.stacked /\ ~TotalFailure(Loop.body) /\ FirstPassDone
        /\ phase' = "judge" /\ pass' = 1
        /\ UNCHANGED <<lp, wins, quiet, streak, blocker, anchor, left,
                       running, wave, result>>
     \/ /\ Ready /\ Loop.stacked /\ (~UseWorktrees \/ Cardinality(Bases) > 1)
        /\ Bail /\ UNCHANGED loopVars
     \/ /\ Ready /\ Loop.stacked /\ UseWorktrees /\ Cardinality(Bases) <= 1
        /\ anchor' = IF Bases = {} THEN head ELSE UNION {Tip(manifests[i]) : i \in Bases}
        /\ phase' = "pass" /\ pass' = 1 /\ left' = Loop.body
        /\ UNCHANGED <<lp, wins, quiet, streak, blocker, running, wave, result>>
  /\ UNCHANGED <<runVars, tier, stateVars, mergeVars, diskVars, manifests,
                 expired, done, begun, skipped>>

LoopsDone ==
  /\ phase = "enter" /\ lp > Len(Loops)
  /\ phase' = "post" /\ tier' = 0
  /\ UNCHANGED <<runVars, left, wave, stateVars, loopVars, mergeVars, diskVars,
                 running, manifests, expired, result, done, begun, skipped>>

(* A pass of the loop: its agents together behind a barrier, or one by one; the
   first pass of a stacked loop is always one by one. *)
Together == parallel /\ Cardinality(Loop.body) > 1 /\ pass > 1

LaunchPass(u) ==
  /\ phase = "pass" /\ u \in left /\ (running = {} \/ Together)
  /\ left' = left \ {u} /\ running' = running \cup {u} /\ begun' = begun \cup {u}
  /\ Provisioned(u)
  /\ UNCHANGED <<runVars, tier, wave, stateVars, loopVars, mergeVars, saved, head,
                 loose, phase, manifests, expired, result, done, skipped>>

(* The result is recorded without a checkpoint; the chain's anchor advances to
   the agent's tip on the one-by-one path only. *)
FinishPass(u, ok, kept) ==
  /\ phase = "pass" /\ u \in running /\ (Together => left = {})
  /\ Ends(u, ok, kept) /\ status' = Recorded(u, ok)
  /\ anchor' = IF Loop.stacked /\ ok /\ ~Together
               THEN manifests'[Len(manifests')].tip ELSE anchor
  /\ UNCHANGED <<runVars, tierVars, spawned, lp, pass, wins, quiet, streak, blocker,
                 mergeVars, saved, phase, expired, result, begun, skipped>>

PassOver ==
  /\ phase = "pass" /\ Quiet /\ phase' = "judge"
  /\ UNCHANGED <<runVars, tierVars, stateVars, loopVars, mergeVars, diskVars,
                 running, manifests, expired, result, done, begun, skipped>>

Verdicts == {"pass", "partial", "irreconcilable", "gate", "vague"} \cup Blockers
MaxSilent == 2

(* How often running the same disagreement was reported: a failed gate carries
   no verdict and leaves the count alone. *)
Streak(v) == CASE v = "gate" -> streak
               [] v = "vague" -> 0
               [] v = blocker -> streak + 1
               [] OTHER -> 1

Row(v) == IF v = "pass" THEN wins + 1 ELSE 0
Another ==
  /\ phase' = "pass" /\ pass' = pass + 1 /\ left' = Loop.body
  /\ UNCHANGED <<lp, anchor, running, wave, result>>

Converges(v) == v = "pass" /\ Row(v) >= Loop.stability
Deadlocked(v) ==
  v \notin {"pass", "partial", "irreconcilable", "gate"} /\ Loop.irrec > 0
    /\ Streak(v) >= Loop.irrec

Settles(v) == v \in {"partial", "irreconcilable"} \/ Converges(v) \/ Deadlocked(v)

(* Between two passes: the budget, a panel that failed as a whole, one that
   delivered nothing twice running, then the loop's condition. *)
Judge(silent, v) ==
  /\ phase = "judge" /\ pass < Loop.max /\ ~expired /\ ~TotalFailure(Loop.body)
  /\ LET hush == IF silent THEN quiet + 1 ELSE 0 IN
     \/ hush >= MaxSilent /\ v = "gate" /\ NextLoop
     \/ hush < MaxSilent /\ Settles(v) /\ NextLoop
     \/ /\ hush < MaxSilent /\ ~Settles(v)
        /\ quiet' = hush /\ wins' = Row(v)
        /\ IF v = "pass" \/ Loop.irrec = 0 THEN UNCHANGED <<streak, blocker>>
           ELSE /\ streak' = Streak(v)
                /\ blocker' = IF v \in Blockers THEN v ELSE blocker
        /\ Another
  /\ UNCHANGED <<runVars, tier, stateVars, mergeVars, diskVars, manifests, expired,
                 done, begun, skipped>>

JudgeStopsLate ==
  /\ phase = "judge"
  /\ \/ pass < Loop.max /\ expired /\ NextLoop
     \/ pass < Loop.max /\ ~expired /\ TotalFailure(Loop.body) /\ Bail /\ UNCHANGED loopVars
     \/ pass > Loop.max /\ NextLoop
  /\ UNCHANGED <<runVars, tier, stateVars, mergeVars, diskVars, manifests, expired,
                 done, begun, skipped>>
JudgeStops ==
  /\ phase = "judge"
  /\ \/ pass < Loop.max /\ expired /\ NextLoop
     \/ pass < Loop.max /\ ~expired /\ TotalFailure(Loop.body) /\ Bail /\ UNCHANGED loopVars
     \/ pass >= Loop.max /\ NextLoop  \* the final check only writes its verdict down
  /\ UNCHANGED <<runVars, tier, stateVars, mergeVars, diskVars, manifests, expired,
                 done, begun, skipped>>

ComingLast == manifests[Len(manifests) + 1 - next]
Coming == manifests[next]

(* Branches are merged in the order of the manifests, a stacked loop's kept; a
   conflict nobody resolves is aborted, and the next branch is tried. *)
MergeNext ==
  /\ phase = "merge" /\ UseWorktrees /\ next <= Len(manifests)
  /\ LET m == Coming IN
     \/ m.on # "branch" /\ UNCHANGED <<head, mergeOk, merged>>
     \/ /\ m.on = "branch"
        /\ head' = head \cup branch[m.unit] /\ merged' = Append(merged, m.unit)
        /\ UNCHANGED mergeOk
     \/ m.on = "branch" /\ ~(branch[m.unit] \subseteq head) /\ mergeOk' = FALSE
        /\ UNCHANGED <<head, merged>>
  /\ next' = next + 1
  /\ UNCHANGED <<runVars, tierVars, stateVars, loopVars, saved, branch, loose, phase,
                 running, manifests, expired, result, done, begun, skipped>>

(* Verification, and the answer: every report good, every merge clean. *)
Complete ==
  /\ phase = "merge" /\ (UseWorktrees => next > Len(manifests))
  /\ phase' = "ended"
  /\ \E verified \in BOOLEAN :
       result' = IF verified /\ mergeOk /\ \A i \in DOMAIN manifests : manifests[i].ok
                 THEN "success" ELSE "failure"
  /\ UNCHANGED <<runVars, tierVars, stateVars, loopVars, mergeVars, diskVars, running,
                 manifests, expired, done, begun, skipped>>

(* A worktree that cannot be made, a judge that cannot run, a merge that fails
   otherwise than by conflict: the error is passed up. *)
Fails ==
  /\ \/ /\ phase \in {"tiers", "post"}
        /\ IF Sequential THEN running \cap Units # {} ELSE left # {}
     \/ phase = "pass" /\ ~(Together /\ left = {})
     \/ phase = "judge"
     \/ phase = "merge" /\ UseWorktrees /\ next <= Len(manifests)
  /\ Bail
  /\ UNCHANGED <<runVars, tier, stateVars, loopVars, mergeVars, diskVars, manifests,
                 expired, done, begun, skipped>>

(* The process dies; the checkpoint, written in place, may be torn by it. *)
Crash ==
  /\ phase # "ended" /\ crashes < MaxCrashes /\ crashes' = crashes + 1
  /\ phase' = "ended" /\ result' = "crash" /\ running' = {} /\ left' = {} /\ wave' = {}
  /\ saved' \in {saved} \cup (IF running = {} THEN {} ELSE {Fresh})
  /\ UNCHANGED <<plan, parallel, runs, tier, stateVars, loopVars, mergeVars, branch, head,
                 loose, manifests, expired, done, begun, skipped>>

Expire ==
  /\ plan.budget /\ phase # "ended" /\ ~expired /\ expired' = TRUE
  /\ UNCHANGED <<runVars, tierVars, stateVars, loopVars, mergeVars, diskVars, phase,
                 running, manifests, result, done, begun, skipped>>

Step ==
  \/ NextTier \/ EnterLoop \/ LoopsDone \/ PassOver \/ JudgeStops \/ MergeNext \/ Complete
  \/ \E u \in Units : SkipUnmet(u) \/ Launch(u) \/ LaunchPass(u)
  \/ \E w \in Workers : LaunchWorker(w)
  \/ \E u \in Units, ok, kept \in BOOLEAN :
       Finish(u, ok, kept) \/ FinishParallel(u, ok, kept) \/ FinishPass(u, ok, kept)
  \/ \E w \in Workers, ok, kept \in BOOLEAN : FinishWorker(w, ok, kept)
  \/ \E silent \in BOOLEAN, v \in Verdicts : Judge(silent, v)

Next == Step \/ WaveFails \/ Fails \/ Start \/ Crash \/ Expire
Spec == Init /\ [][Next]_vars
(* The runtime keeps the pipeline going, and every dispatch has a time limit of
   its own (WorkUnit::timeout_secs), so an agent ends. *)
FairSpec == Spec /\ WF_vars(Step)
---------------------------------------------------------------------------
TypeOK ==
  /\ plan \in Plans /\ {parallel, mergeOk, expired} \subseteq BOOLEAN
  /\ phase \in {"tiers", "enter", "judge", "pass", "post", "merge", "ended"}
  /\ result \in {"none", "success", "failure", "error", "crash"}
  /\ {tier, lp, pass, wins, quiet, streak, next, runs, crashes} \subseteq Nat
  /\ left \subseteq Units /\ running \subseteq Ids /\ wave \subseteq Workers
  /\ status \in [Ids -> Statuses] /\ spawned \subseteq Workers
  /\ saved \in [status : [Ids -> Statuses], spawned : SUBSET Workers]
  /\ manifests \in Seq([unit : Ids, ok : BOOLEAN, on : {"none", "branch", "chain"},
                        tip : SUBSET Work])
  /\ blocker \in Blockers \cup {"none"}
  /\ branch \in [Ids -> SUBSET Work] /\ head \subseteq Work /\ loose \subseteq Work
  /\ anchor \subseteq Work /\ done \in [Ids -> Nat] /\ merged \in Seq(Ids)
  /\ begun \subseteq Ids /\ skipped \subseteq Units

(* No agent is dispatched before everything it depends on, outside its own
   loop body, has completed, in this run or in the one resumed. *)
RunsAfterDeps ==
  [][\A u \in (running' \ running) \cap Units :
       \A d \in Deps(u) : \/ status[d] = "Completed"
                          \/ phase = "pass" /\ d \in Loop.body]_vars

(* Depending on a loop's agent means depending on the loop: once a unit after
   the loop has been dispatched the loop's body runs no more, in this run.
   Excepted are loops one of whose agents depends on an agent of a loop, itself
   or another: that agent is deferred as if it came after the loop. *)
LoopBeforeDownstream ==
  [][\A u \in running' \ running, i \in DOMAIN Loops :
       u \in Loops[i].body /\ Loops[i].body \cap PostLoop = {} =>
         begun \cap (Downstream(Loops[i].body) \ Loops[i].body) = {}]_vars

(* Branches are merged in the order of the dependencies: none after that of a
   unit which depends on it, agents of one loop excepted. *)
MergedInOrder ==
  \A i, j \in DOMAIN merged :
    i < j /\ merged[j] \in Upstream({merged[i]}) =>
      \E l \in DOMAIN Loops : {merged[i], merged[j]} \subseteq Loops[l].body

(* The body of a stacked loop one of whose prerequisites is not recorded as
   completed is passed over without a report, even if the prerequisite ran
   (in a parallel tier, which records nothing). *)
PassedOver(u) ==
  \E i \in DOMAIN Loops :
    /\ Loops[i].stacked /\ u \in Loops[i].body
    /\ \E d \in (UNION {Deps(v) : v \in Loops[i].body}) \ Loops[i].body : status[d] # "Completed"

(* A run that reports success within its budget forgot no unit but those passed
   over with their loop: each has completed, in it or in the run resumed; and
   when it started afresh the last work of each is in HEAD or on a stacked
   chain, unless its commit failed. *)
NoUnitForgotten ==
  result = "success" /\ ~expired =>
    \A u \in Members :
      \/ done[u] = 0 /\ PassedOver(u)
      \/ /\ done[u] > 0
         /\ runs = 1 => <<u, done[u]>> \in head \cup loose \cup
                          UNION {manifests[i].tip : i \in DOMAIN manifests}

(* A checkpoint never claims more than was done: what it marks completed did
   complete, in the run that wrote it or before. *)
CheckpointHonest ==
  \A u \in Ids : saved.status[u] = "Completed" => done[u] > 0

(* Every run ends. *)
RunEnds == runs > 0 ~> phase = "ended"

(* A unit is skipped for a dependency only when that did not complete
   (pipeline.rs:264-269). *)
SkipJustified ==
  \A u \in skipped : \E d \in Deps(u) : Reports(d) = {} \/ ~Latest(d).ok


===========================================================================
