---------------------------- MODULE Integration ----------------------------
(***************************************************************************)
(* integrate: the branch that collects a finished run.  Batch by batch the *)
(* lanes are merged in the plan's merge order, then the batch's docs and   *)
(* gate targets run, then one commit closes the batch; the first thing     *)
(* that fails raises, and nothing is taken back.  What is merged for a     *)
(* lane is the branch of its first wave.                                   *)
(***************************************************************************)
EXTENDS Naturals, Sequences

CONSTANTS
  Lane,        \* the lanes
  LaneWaves,   \* LaneWaves[l]: the waves of lane l, in order
  MergeOrder,  \* the batches that are not human gates: sequences of lanes
  Fault        \* what may go wrong in this instance

\* "conflict": a merge does not apply; "gate": a target fails; "kill": the
\* process dies.
Faults == {"conflict", "gate", "kill"}

LaneWave == UNION {{LaneWaves[l][k] : k \in 1 .. Len(LaneWaves[l])} : l \in Lane}

ASSUME IntegrationAssumption ==
  /\ \A l \in Lane : Len(LaneWaves[l]) \in Nat \ {0}
  /\ MergeOrder \in Seq(Seq(Lane))
  /\ Fault \subseteq Faults

VARIABLES
  ipc,     \* where execute_integration stands; "off" before, "raised" after a fault
  step,    \* the batch it is at
  merged,  \* how many lanes of that batch are merged
  onto,    \* the waves whose branch has been merged
  closed,  \* the batches that have their commit
  passed   \* history: the waves on the branch when a batch's gates passed

ivars == <<ipc, step, merged, onto, closed, passed>>

IInit ==
  /\ ipc = "off" /\ step = 1 /\ merged = 0
  /\ onto = {} /\ closed = {}
  /\ passed = [i \in 1 .. Len(MergeOrder) |-> {}]

\* create_branch: tripll/integrate/<run-id>, off the base.
CreateBranch ==
  /\ ipc = "off"
  /\ ipc' = "merge"
  /\ UNCHANGED <<step, merged, onto, closed, passed>>

AtBatch == step <= Len(MergeOrder)
Current == MergeOrder[step]

\* branch_for_lane has the branch of the lane's first wave.
BranchOf(l) == {LaneWaves[l][1]}

MergeLane ==
  /\ ipc = "merge" /\ AtBatch /\ merged < Len(Current)
  /\ merged' = merged + 1
  /\ onto' = onto \cup BranchOf(Current[merged + 1])
  /\ UNCHANGED <<ipc, step, closed, passed>>

\* git merge stops in a conflict: CalledProcessError.
MergeConflicts ==
  /\ "conflict" \in Fault
  /\ ipc = "merge" /\ AtBatch /\ merged < Len(Current)
  /\ ipc' = "raised"
  /\ UNCHANGED <<step, merged, onto, closed, passed>>

\* Mutant: a red target is logged and the batch is committed.
RunTargetsAnyway ==
  /\ ipc = "merge" /\ AtBatch /\ merged = Len(Current)
  /\ ipc' = "commit"
  /\ \/ passed' = [passed EXCEPT ![step] = onto]
     \/ "gate" \in Fault /\ UNCHANGED passed
  /\ UNCHANGED <<step, merged, onto, closed>>

\* The docs and gate targets, on the checkout with the batch's lanes in it.
RunTargets ==
  /\ ipc = "merge" /\ AtBatch /\ merged = Len(Current)
  /\ \/ ipc' = "commit" /\ passed' = [passed EXCEPT ![step] = onto]
     \/ "gate" \in Fault /\ ipc' = "raised" /\ UNCHANGED passed
  /\ UNCHANGED <<step, merged, onto, closed>>

CloseBatch ==
  /\ ipc = "commit"
  /\ closed' = closed \cup {step}
  /\ step' = step + 1 /\ merged' = 0
  /\ ipc' = "merge"
  /\ UNCHANGED <<onto, passed>>

Finish ==
  /\ ipc = "merge" /\ ~AtBatch
  /\ ipc' = "finished"
  /\ UNCHANGED <<step, merged, onto, closed, passed>>

Running == ipc \in {"merge", "commit"}

Kill ==
  /\ "kill" \in Fault /\ Running
  /\ ipc' = "raised"
  /\ UNCHANGED <<step, merged, onto, closed, passed>>

IStep ==
  \/ MergeLane \/ MergeConflicts \/ RunTargets \/ CloseBatch \/ Finish

IType ==
  /\ ipc \in {"off", "merge", "commit", "finished", "raised"}
  /\ step \in 1 .. Len(MergeOrder) + 1
  /\ \/ AtBatch /\ merged \in 0 .. Len(Current)
     \/ merged = 0
  /\ onto \subseteq LaneWave
  /\ closed \subseteq 1 .. Len(MergeOrder)
  /\ passed \in [1 .. Len(MergeOrder) -> SUBSET LaneWave]

\* What a batch's lanes put on the branch.
OfBatch(i) == UNION {BranchOf(MergeOrder[i][k]) : k \in 1 .. Len(MergeOrder[i])}

\* Batches reach the integration branch one after the other, each gated: a
\* batch is closed only after its targets passed with all its lanes merged, and
\* what is on the branch came with a batch that has every batch before it
\* closed.  A lane may be in several batches.
BatchesGated ==
  /\ \A i \in closed : OfBatch(i) \subseteq passed[i]
  /\ \A w \in onto : \E i \in 1 .. Len(MergeOrder) :
       w \in OfBatch(i) /\ 1 .. i - 1 \subseteq closed

\* graph.Lane: a lane's plans share "owned paths on one branch", so a branch on
\* which all lanes are merged has the work of all their waves.
AllWorkIntegrated == ipc = "finished" => onto = LaneWave
=============================================================================
