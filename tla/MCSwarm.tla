------------------------------ MODULE MCSwarm ------------------------------
(* Swarm on small plans, one per shape the compiler makes. *)
EXTENDS Swarm, TLC

NoLoops == <<>>
ALoop(body, stacked, max, stability, irrec) ==
  [body |-> body, stacked |-> stacked, max |-> max, stability |-> stability, irrec |-> irrec]
APlan(deps, loops, fan, git, budget) ==
  [deps |-> deps, loops |-> loops, fan |-> fan, git |-> git, budget |-> budget]

(* a, then b, with workers fanned out after a. *)
Chain == APlan("a" :> {} @@ "b" :> {"a"}, NoLoops, {"a"}, TRUE, TRUE)
(* Two units together, a third after both. *)
Diamond == APlan("a" :> {} @@ "b" :> {} @@ "c" :> {"a", "b"}, NoLoops, {}, TRUE, FALSE)
(* A panel of two that iterates, and a unit after it. *)
Panel == APlan("a" :> {} @@ "b" :> {} @@ "c" :> {"a"},
               <<ALoop({"a", "b"}, FALSE, 3, 2, 2)>>, {}, FALSE, FALSE)
ShortPanel == [Panel EXCEPT !.loops[1].max = 2, !.loops[1].stability = 1, !.loops[1].irrec = 0]
(* A stacked loop between two units. *)
Stack == APlan("a" :> {} @@ "b" :> {"a"} @@ "c" :> {"b"},
               <<ALoop({"b"}, TRUE, 3, 1, 0)>>, {}, TRUE, TRUE)
(* Two loops, the second after the first. *)
Loops2 == APlan("a" :> {} @@ "b" :> {"a"},
               <<ALoop({"a"}, FALSE, 2, 1, 0), ALoop({"b"}, FALSE, 2, 1, 0)>>, {}, TRUE, FALSE)

(* Two units together, a stacked loop after both. *)
Joined == APlan("a" :> {} @@ "b" :> {} @@ "c" :> {"a", "b"},
                <<ALoop({"c"}, TRUE, 2, 1, 0)>>, {}, TRUE, FALSE)

(* A loop of an agent and the agent that depends on it, and a unit after both. *)
Phased == APlan("a" :> {} @@ "b" :> {"a"} @@ "c" :> {"b"},
                <<ALoop({"a", "b"}, FALSE, 2, 1, 0)>>, {}, TRUE, FALSE)

RunPlans == {Chain, Diamond, Joined, Panel, ShortPanel, Phased, Stack, Loops2}
RunAgain == {Chain, Diamond, ShortPanel, Phased, Loops2}
SkipPlans == {Diamond}
None == {}
============================================================================
