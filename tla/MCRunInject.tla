---------------------------- MODULE MCRunInject ----------------------------
(***************************************************************************)
(* Instances of RunInject for TLC: two plan waves in two batches, b after  *)
(* a, the hotfixes h1 and h2 and the lane w.                              *)
(***************************************************************************)
EXTENDS RunInject, TLC

CONSTANTS a, b, h1, h2, w, x

Chain      == [n \in PlanWave |-> IF n = a THEN {} ELSE {a}]
TwoBatches == << {a}, PlanWave \ {a} >>
AddX       == w :> x
LanesClash == {<<h2, w>>}

\* A hotfix and a lane beside a live engine, with crashes and plan edits; or
\* two hotfixes and a lane one at a time, none beside a live engine.
BothSettings ==
  {[start |-> {a}, hotfixes |-> {h1}, events |-> {"overlap", "crash", "force", "edit"}],
   [start |-> {a, b}, hotfixes |-> {h1, h2}, events |-> {"crash", "reconcile"}]}
=============================================================================
