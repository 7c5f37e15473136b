--------------------------- MODULE Delivery_proofs ---------------------------
(***************************************************************************)
(* A run from the outer loop's drive to its pull request: what is proved   *)
(* about each of the three parts, for any waves, retry limit, lanes, merge *)
(* order and trouble, holds in their composition, whose steps are steps of *)
(* one part and leave the others alone.                                    *)
(***************************************************************************)
EXTENDS Delivery, TLAPS

-----------------------------------------------------------------------------
(* The composition.                                                        *)

IntegrationStep == CreateBranch \/ IStep \/ Kill

PrStep ==
  \/ StartDeliver \/ StartLoop \/ DeliverStep \/ LoopStep \/ ShepherdDies
  \/ ClosePr \/ ApproveMerge \/ ParkNow \/ FindingsSync

\* A step of the delivery is a step of one part, and integration begins only
\* for a run that is at rest in processed/.
LEMMA Parts ==
  ASSUME [DNext]_dvars
  PROVE  /\ [Next]_vars /\ [IntegrationStep]_ivars /\ [PrStep]_pvars
         /\ ipc = "off" /\ ipc' # "off" =>
              loc = "processed" /\ pc = "down" /\ UNCHANGED vars
<1>1. CASE RunPart
  BY <1>1 DEF RunPart, ivars, pvars
<1>2. CASE BeginIntegration
  BY <1>2 DEF BeginIntegration, IntegrationStep
<1>3. CASE IntegrationPart
  <2>1. ipc # "off"
    BY <1>3 DEF IntegrationPart, IStep, MergeLane, MergeConflicts, RunTargets, CloseBatch, Finish
  <2> QED
    BY <1>3, <2>1 DEF IntegrationPart, IntegrationStep
<1>4. CASE IntegrationDies
  <2>1. ipc # "off"
    BY <1>4 DEF IntegrationDies, Kill, Running
  <2> QED
    BY <1>4, <2>1 DEF IntegrationDies, IntegrationStep
<1>5. CASE BeginDeliver \/ BeginLoop \/ PrPart
  BY <1>5 DEF BeginDeliver, BeginLoop, PrPart, PrStep, ivars
<1>6. CASE Idle \/ UNCHANGED dvars
  BY <1>6 DEF Idle, dvars, ivars
<1> QED
  BY <1>1, <1>2, <1>3, <1>4, <1>5, <1>6 DEF DNext

-----------------------------------------------------------------------------
(* The outer loop.                                                         *)

\* What the channels and the manifest say once the nodes have been passed.
After(nodes) == pc \in nodes

RunInv ==
  /\ TypeOK
  /\ pc = "batches" => runState = "active"
  /\ pc = "sync" => runState # "active"
  /\ runState = "done" => Done = Node
  /\ After({"verify", "commit", "review", "generate", "conclude"}) => outcome = runState
  /\ After({"commit", "review", "generate", "conclude"}) /\ green =>
       outcome = "done" /\ gated = Node
  /\ After({"review", "generate", "conclude"}) /\ green => manifest = Node
  /\ loc = "processed" =>
       pc = "down" /\ runState = "done" /\ gated = Node /\ manifest = Node

LEMMA RunInvInit == Init => RunInv
<1> SUFFICES ASSUME Init PROVE RunInv
  OBVIOUS
<1>1. TypeOK
  <2>1. wave \in [Node -> {"queued", "running", "done", "blocked"}] /\ tries \in 0 .. MaxRetries
    BY ConstantsAssumption DEF Init
  <2> QED
    BY <2>1 DEF Init, TypeOK, Outcomes, Nodes, RunStates
<1>2. pc = "validate" /\ runState = "active" /\ loc = "processing"
  BY DEF Init
<1> QED
  BY <1>1, <1>2 DEF RunInv, After

\* A wave that is done stays done when others are requeued.
LEMMA DoneKept ==
  ASSUME wave \in [Node -> {"queued", "running", "done", "blocked"}], Done = Node,
         \A n \in Node : wave[n] = "done" => wave'[n] = "done"
  PROVE  Done' = Node
BY DEF Done, InState

LEMMA RunInvNext == RunInv /\ [Next]_vars => RunInv'
<1> SUFFICES ASSUME RunInv, [Next]_vars PROVE RunInv'
  OBVIOUS
<1> USE DEF RunInv, After
<1>1. CASE Validate
  BY <1>1 DEF Validate, Go, ledgerVars, dirVars, channelVars, TypeOK, Done, InState, Nodes
<1>2. CASE WavesBegin
  <2>1. /\ pc = "waves" /\ UNCHANGED <<loc, manifest, outcome, green, clean, gated>>
        /\ runState' \in {runState, "active"} /\ pc' \in {"batches", "down"}
        /\ pc' = "batches" => runState' = "active"
        /\ tries' \in {tries, 0}
        /\ wave' = [n \in Node |-> IF wave[n] \in StaleStates THEN "queued" ELSE wave[n]]
    BY <1>2 DEF WavesBegin, Go, Die, dirVars, channelVars
  <2>2. TypeOK'
    BY <2>1, ConstantsAssumption DEF TypeOK, RunStates, Nodes
  <2>3. runState' = "done" => Done' = Node
    BY <2>1, DoneKept DEF TypeOK, StaleStates
  <2> QED
    BY <2>1, <2>2, <2>3
<1>3. ASSUME NEW n \in Node, Dispatch(n) \/ Settle(n) PROVE RunInv'
  <2>1. /\ pc = "batches" /\ UNCHANGED <<runState, loc, manifest, outcome, green, clean, pc, tries, gated>>
        /\ \E s \in {"running", "done", "blocked", "queued"} : wave' = [wave EXCEPT ![n] = s]
    BY <1>3 DEF Dispatch, Settle, dirVars, channelVars
  <2> QED
    BY <2>1 DEF TypeOK
<1>4. CASE WavesEnd
  <2>1. /\ pc = "batches" /\ pc' = "sync"
        /\ UNCHANGED <<wave, loc, manifest, outcome, green, clean, tries, gated>>
        /\ runState' \in {"done", "failed", "paused"} /\ (runState' = "done" => Done = Node)
    BY <1>4 DEF WavesEnd, Go, dirVars, channelVars
  <2>2. Done' = Done
    BY <2>1 DEF Done, InState
  <2> QED
    BY <2>1, <2>2 DEF TypeOK, RunStates, Nodes
<1>5. CASE WavesReturn
  <2>1. /\ pc = "sync" /\ pc' = "verify" /\ outcome' = runState
        /\ UNCHANGED <<runState, wave, loc, manifest, green, clean, tries, gated>>
    BY <1>5 DEF WavesReturn, Go, ledgerVars, dirVars
  <2> QED
    BY <2>1 DEF TypeOK, RunStates, Nodes, Outcomes, Done, InState
<1>6. CASE WavesRetried
  BY <1>6, ConstantsAssumption
     DEF WavesRetried, Die, ledgerVars, dirVars, channelVars, TypeOK, Nodes, Done, InState
<1>7. CASE Verify
  <2>1. /\ pc = "verify" /\ pc' = "commit"
        /\ UNCHANGED <<runState, wave, loc, manifest, outcome, clean, tries>>
        /\ green' \in BOOLEAN /\ (green' => outcome = "done")
        /\ gated' = IF green' THEN Done ELSE gated
    BY <1>7 DEF Verify, Go, ledgerVars, dirVars
  <2>2. Done' = Done /\ Done \subseteq Node
    BY <2>1 DEF Done, InState
  <2> QED
    BY <2>1, <2>2 DEF TypeOK, Nodes
<1>8. CASE Commit
  <2>1. /\ pc = "commit" /\ pc' = "review"
        /\ UNCHANGED <<runState, wave, loc, outcome, green, clean, tries, gated>>
        /\ manifest' = IF green THEN Done ELSE manifest
    BY <1>8 DEF Commit, Go, ledgerVars, channelVars
  <2>2. Done' = Done /\ Done \subseteq Node
    BY <2>1 DEF Done, InState
  <2> QED
    BY <2>1, <2>2 DEF TypeOK, Nodes
<1>9. CASE Review
  <2>1. /\ pc = "review" /\ pc' = "generate"
        /\ UNCHANGED <<runState, wave, loc, manifest, outcome, green, tries, gated>>
        /\ clean' \in BOOLEAN
    BY <1>9 DEF Review, Go, ledgerVars, dirVars
  <2>2. Done' = Done
    BY <2>1 DEF Done, InState
  <2> QED
    BY <2>1, <2>2 DEF TypeOK, Nodes
<1>10. CASE Generate
  BY <1>10 DEF Generate, Go, ledgerVars, dirVars, channelVars, TypeOK, Done, InState, Nodes
<1>11. CASE Conclude
  <2>1. /\ pc = "conclude" /\ pc' = "down" /\ tries' = 0
        /\ UNCHANGED <<runState, wave, manifest, outcome, green, clean, gated>>
        /\ loc' \in {loc, "processed", "failed"}
        /\ loc' = "processed" => loc = "processed" \/ (outcome = "done" /\ green)
    BY <1>11 DEF Conclude, Die, ledgerVars, channelVars
  <2>2. Done' = Done
    BY <2>1 DEF Done, InState
  <2> QED
    BY <2>1, <2>2, ConstantsAssumption DEF TypeOK, Nodes
<1>12. CASE Crash
  BY <1>12, ConstantsAssumption
     DEF Crash, Die, ledgerVars, dirVars, channelVars, TypeOK, Nodes, Done, InState
<1>13. CASE ResumeFailed
  <2>1. /\ pc = "down" /\ loc' = "processing" /\ pc' \in {"validate", "down"}
        /\ UNCHANGED <<manifest, outcome, green, clean, gated, tries>>
        /\ \/ UNCHANGED <<runState, wave>>
           \/ /\ runState' = "paused"
              /\ wave' = [n \in Node |-> IF wave[n] \in {"blocked"} THEN "queued" ELSE wave[n]]
    BY <1>13 DEF ResumeFailed, Requeue, Go, ledgerVars, channelVars
  <2>2. TypeOK'
    BY <2>1 DEF TypeOK, Nodes, RunStates
  <2>3. runState' = "done" => Done' = Node
    BY <2>1 DEF Done, InState
  <2> QED
    BY <2>1, <2>2, <2>3
<1>14. CASE ResumeStopped
  <2>1. /\ pc = "down" /\ loc = "processing" /\ pc' = "validate"
        /\ UNCHANGED <<runState, loc, manifest, outcome, green, clean, gated, tries>>
        /\ wave' = [n \in Node |-> IF wave[n] \in StaleStates \cup {"blocked"}
                                   THEN "queued" ELSE wave[n]]
    BY <1>14 DEF ResumeStopped, Requeue, Go, dirVars, channelVars
  <2>2. TypeOK'
    BY <2>1 DEF TypeOK, Nodes
  <2>3. runState' = "done" => Done' = Node
    BY <2>1, DoneKept DEF TypeOK, StaleStates
  <2> QED
    BY <2>1, <2>2, <2>3
<1>15. CASE UNCHANGED vars
  BY <1>15 DEF vars, ledgerVars, dirVars, channelVars, TypeOK, Done, InState
<1> QED
  BY <1>1, <1>2, <1>3, <1>4, <1>5, <1>6, <1>7, <1>8, <1>9, <1>10, <1>11, <1>12,
     <1>13, <1>14, <1>15 DEF Next, EngineStep

-----------------------------------------------------------------------------
(* The integration.                                                        *)

\* The waves whose branch the first k lanes of batch i bring.
FirstOf(i, k) == UNION {BranchOf(MergeOrder[i][j]) : j \in 1 .. k}

\* The closed batches are those before the current one; the branch has their
\* lanes and those of the current batch that are merged, and nothing else.
BatchInv ==
  /\ step \in 1 .. Len(MergeOrder) + 1
  /\ merged \in Nat
  /\ closed = 1 .. step - 1
  /\ passed \in [1 .. Len(MergeOrder) -> SUBSET onto]
  /\ AtBatch => merged <= Len(Current) /\ FirstOf(step, merged) \subseteq onto
  /\ \A w \in onto :
       \/ \E i \in 1 .. step - 1 : w \in OfBatch(i)
       \/ AtBatch /\ merged > 0 /\ w \in OfBatch(step)
  /\ \A i \in closed : OfBatch(i) \subseteq passed[i]
  /\ ipc = "commit" => AtBatch /\ merged = Len(Current) /\ OfBatch(step) \subseteq passed[step]
  /\ ipc = "off" => merged = 0

LEMMA Orders ==
  /\ Len(MergeOrder) \in Nat
  /\ \A i \in 1 .. Len(MergeOrder) : Len(MergeOrder[i]) \in Nat /\ MergeOrder[i] \in Seq(Lane)
BY IntegrationAssumption DEF Faults

LEMMA BatchInvInit == IInit => BatchInv
<1> SUFFICES ASSUME IInit PROVE BatchInv
  OBVIOUS
<1>1. /\ ipc = "off" /\ step = 1 /\ merged = 0 /\ onto = {} /\ closed = {}
      /\ passed = [i \in 1 .. Len(MergeOrder) |-> {}]
  BY DEF IInit
<1>2. FirstOf(step, merged) = {}
  BY <1>1 DEF FirstOf
<1>3. AtBatch => Len(Current) \in Nat
  BY <1>1, Orders DEF AtBatch, Current
<1> QED
  BY <1>1, <1>2, <1>3, Orders DEF BatchInv

LEMMA BatchInvNext == BatchInv /\ [IntegrationStep]_ivars => BatchInv'
<1> SUFFICES ASSUME BatchInv, [IntegrationStep]_ivars PROVE BatchInv'
  OBVIOUS
<1> USE DEF BatchInv
<1>1. CASE MergeLane
  <2> DEFINE w == LaneWaves[Current[merged + 1]][1]
  <2>1. /\ ipc = "merge" /\ AtBatch /\ merged < Len(Current) /\ merged' = merged + 1
        /\ onto' = onto \cup {w} /\ UNCHANGED <<ipc, step, closed, passed>>
    BY <1>1 DEF MergeLane, BranchOf
  <2>2. step \in 1 .. Len(MergeOrder) /\ Len(Current) \in Nat /\ Current = MergeOrder[step]
    BY <2>1, Orders DEF AtBatch, Current
  <2>3. AtBatch' /\ Current' = Current
    BY <2>1 DEF AtBatch, Current
  <2>4. merged + 1 \in 1 .. Len(Current)
    BY <2>1, <2>2
  <2>5. w \in OfBatch(step)
    BY <2>2, <2>4 DEF OfBatch, BranchOf
  <2>6. FirstOf(step, merged + 1) \subseteq FirstOf(step, merged) \cup {w}
    <3>1. \A j \in 1 .. merged + 1 : j \in 1 .. merged \/ j = merged + 1
      OBVIOUS
    <3> QED
      BY <2>2, <3>1 DEF FirstOf, BranchOf
  <2>7. passed' \in [1 .. Len(MergeOrder) -> SUBSET onto']
    BY <2>1
  <2>8. \A x \in onto' :
          \/ \E i \in 1 .. step' - 1 : x \in OfBatch(i)
          \/ AtBatch' /\ merged' > 0 /\ x \in OfBatch(step')
    BY <2>1, <2>3, <2>5
  <2>9. merged' <= Len(Current') /\ FirstOf(step', merged') \subseteq onto'
    BY <2>1, <2>2, <2>3, <2>6
  <2> QED
    BY <2>1, <2>3, <2>7, <2>8, <2>9
<1>2. CASE RunTargets
  <2>1. /\ ipc = "merge" /\ AtBatch /\ merged = Len(Current)
        /\ UNCHANGED <<step, merged, onto, closed>>
        /\ \/ ipc' = "commit" /\ passed' = [passed EXCEPT ![step] = onto]
           \/ ipc' = "raised" /\ passed' = passed
    BY <1>2 DEF RunTargets
  <2>2. step \in 1 .. Len(MergeOrder) /\ AtBatch' /\ Current' = Current
    BY <2>1, Orders DEF AtBatch, Current
  <2>3. OfBatch(step) = FirstOf(step, merged)
    BY <2>1 DEF OfBatch, FirstOf, Current
  <2>4. \A i \in closed : passed'[i] = passed[i]
    BY <2>1, <2>2
  <2>5. passed' \in [1 .. Len(MergeOrder) -> SUBSET onto']
    BY <2>1
  <2>6. ipc' = "commit" => OfBatch(step) \subseteq passed'[step]
    BY <2>1, <2>2, <2>3
  <2> QED
    BY <2>1, <2>2, <2>4, <2>5, <2>6
<1>3. CASE CloseBatch
  <2>1. /\ ipc = "commit" /\ closed' = closed \cup {step} /\ step' = step + 1
        /\ merged' = 0 /\ ipc' = "merge" /\ UNCHANGED <<onto, passed>>
    BY <1>3 DEF CloseBatch
  <2>2. step \in 1 .. Len(MergeOrder)
    BY <2>1, Orders DEF AtBatch
  <2>3. FirstOf(step', merged') = {}
    BY <2>1 DEF FirstOf
  <2>4. AtBatch' => Len(Current') \in Nat
    BY <2>1, <2>2, Orders DEF AtBatch, Current
  <2>5. closed' = 1 .. step' - 1
    BY <2>1, <2>2
  <2>6. \A x \in onto' : \E i \in 1 .. step' - 1 : x \in OfBatch(i)
    BY <2>1, <2>2
  <2> QED
    BY <2>1, <2>2, <2>3, <2>4, <2>5, <2>6, Orders
<1>4. CASE UNCHANGED <<step, merged, onto, closed, passed>> /\ ipc' \notin {"commit", "off"}
  BY <1>4 DEF AtBatch, Current
<1>5. CASE UNCHANGED ivars
  BY <1>5 DEF ivars, AtBatch, Current
<1> QED
  BY <1>1, <1>2, <1>3, <1>4, <1>5
     DEF IntegrationStep, IStep, CreateBranch, MergeConflicts, Finish, Kill

\* Types of the integration.
LEMMA ITypeNext == BatchInv /\ IType /\ [IntegrationStep]_ivars => IType'
<1> SUFFICES ASSUME BatchInv, IType, [IntegrationStep]_ivars PROVE IType'
  OBVIOUS
<1> USE DEF IType
<1>1. CASE MergeLane
  <2>1. /\ ipc = "merge" /\ AtBatch /\ merged < Len(Current) /\ merged' = merged + 1
        /\ onto' = onto \cup BranchOf(Current[merged + 1])
        /\ UNCHANGED <<ipc, step, closed, passed>>
    BY <1>1 DEF MergeLane
  <2>2. step \in 1 .. Len(MergeOrder) /\ Len(Current) \in Nat /\ Current \in Seq(Lane)
    BY <2>1, Orders DEF AtBatch, Current
  <2>3. merged + 1 \in 1 .. Len(Current)
    BY <2>1, <2>2 DEF BatchInv
  <2>4. PICK l \in Lane : l = Current[merged + 1]
    BY <2>2, <2>3
  <2>5. 1 \in 1 .. Len(LaneWaves[l])
    BY IntegrationAssumption
  <2>6. BranchOf(l) \subseteq LaneWave
    BY <2>5 DEF BranchOf, LaneWave
  <2>7. AtBatch' /\ Current' = Current
    BY <2>1 DEF AtBatch, Current
  <2> QED
    BY <2>1, <2>2, <2>3, <2>4, <2>6, <2>7
<1>2. CASE RunTargets
  <2>1. /\ ipc' \in {"commit", "raised"} /\ UNCHANGED <<step, merged, onto, closed>>
        /\ passed' = [passed EXCEPT ![step] = onto] \/ passed' = passed
    BY <1>2 DEF RunTargets
  <2> QED
    BY <2>1 DEF AtBatch, Current
<1>3. CASE CloseBatch
  <2>1. /\ ipc' = "merge" /\ step' = step + 1 /\ merged' = 0 /\ closed' = closed \cup {step}
        /\ AtBatch /\ UNCHANGED <<onto, passed>>
    BY <1>3 DEF CloseBatch, BatchInv
  <2>2. step \in 1 .. Len(MergeOrder)
    BY <2>1, Orders DEF AtBatch
  <2> QED
    BY <2>1, <2>2, Orders
<1>4. CASE ipc' \in {"merge", "finished", "raised"} /\ UNCHANGED <<step, merged, onto, closed, passed>>
  BY <1>4 DEF AtBatch, Current
<1>5. CASE UNCHANGED ivars
  BY <1>5 DEF ivars, AtBatch, Current
<1> QED
  BY <1>1, <1>2, <1>3, <1>4, <1>5
     DEF IntegrationStep, IStep, CreateBranch, MergeConflicts, Finish, Kill

LEMMA BatchInvGated == BatchInv => BatchesGated
<1> SUFFICES ASSUME BatchInv PROVE BatchesGated
  OBVIOUS
<1>1. ASSUME NEW w \in onto
      PROVE  \E i \in 1 .. Len(MergeOrder) : w \in OfBatch(i) /\ 1 .. i - 1 \subseteq closed
  <2>1. PICK i \in 1 .. step : w \in OfBatch(i) /\ i <= Len(MergeOrder)
    BY Orders DEF BatchInv, AtBatch
  <2> QED
    BY <2>1, Orders DEF BatchInv
<1> QED
  BY <1>1 DEF BatchesGated, BatchInv

-----------------------------------------------------------------------------
(* The pull request.                                                       *)

PrInv ==
  /\ prs \in {0, 1}
  /\ "open_pr" \notin keys => prs = 0
  /\ call = "opening" => prs = 0 /\ "open_pr" \in keys

LEMMA PrInvInit == PInit => PrInv
BY DEF PInit, PrInv

LEMMA PrInvNext == PrInv /\ [PrStep]_pvars => PrInv'
<1> SUFFICES ASSUME PrInv, [PrStep]_pvars PROVE PrInv'
  OBVIOUS
<1> USE DEF PrInv
<1>1. CASE RecordOpen
  BY <1>1 DEF RecordOpen, remoteVars
<1>2. CASE PerformOpen
  BY <1>2 DEF PerformOpen
<1>3. CASE RecordPush \/ PerformPush
  BY <1>3 DEF RecordPush, PerformPush, remoteVars
<1>4. CASE StartDeliver \/ StartLoop \/ ShepherdDies
  BY <1>4 DEF StartDeliver, StartLoop, ShepherdDies, remoteVars
<1>5. CASE LoopStep
  BY <1>5 DEF LoopStep, LoopPush, Poll, Investigate, Fix, ReVerify, MergeGate, AtNode, MoveOn,
     remoteVars
<1>6. CASE ClosePr \/ ApproveMerge \/ ParkNow \/ FindingsSync
  BY <1>6 DEF ClosePr, ApproveMerge, ParkNow, FindingsSync, remoteVars
<1>7. CASE UNCHANGED pvars
  BY <1>7 DEF pvars
<1> QED
  BY <1>1, <1>2, <1>3, <1>4, <1>5, <1>6, <1>7 DEF PrStep, DeliverStep

\* Types of the shepherd's calls.
LEMMA PTypeNext == PType /\ [PrStep]_pvars => PType'
<1> SUFFICES ASSUME PType, [PrStep]_pvars PROVE PType'
  OBVIOUS
<1> USE DEF PType
<1>1. CASE DeliverStep
  <2>1. CASE RecordPush \/ RecordOpen
    BY <2>1 DEF RecordPush, RecordOpen, loopVars, gateVars, remoteVars
  <2>2. CASE PerformPush
    <3>1. /\ call' \in {"open_pr", "none"} /\ (pushed' = TRUE \/ pushed' = pushed)
          /\ UNCHANGED <<keys, node, held, pending, approved, prs, prOpen, open>>
      BY <2>2 DEF PerformPush, loopVars, gateVars
    <3> QED
      BY <3>1
  <2>3. CASE PerformOpen
    <3>1. /\ prs' \in {prs, prs + 1} /\ (prOpen' = TRUE \/ prOpen' = prOpen) /\ call' = "none"
          /\ UNCHANGED <<keys, node, held, pending, approved, pushed, open>>
      BY <2>3 DEF PerformOpen, loopVars, gateVars
    <3>2. prs' \in Nat
      BY <3>1
    <3>3. prOpen' \in BOOLEAN
      BY <3>1
    <3>4. call' \in {"none", "push", "pushing", "open_pr", "opening", "loop"}
      BY <3>1
    <3> QED
      BY <3>1, <3>2, <3>3, <3>4
  <2> QED
    BY <1>1, <2>1, <2>2, <2>3 DEF DeliverStep
<1>2. CASE StartDeliver \/ StartLoop \/ ShepherdDies
  BY <1>2 DEF StartDeliver, StartLoop, ShepherdDies, loopVars, gateVars, remoteVars
<1>3. CASE LoopStep
  BY <1>3 DEF LoopStep, LoopPush, Poll, Investigate, Fix, ReVerify, MergeGate, AtNode, MoveOn,
     gateVars, remoteVars
<1>4. CASE ClosePr \/ ApproveMerge \/ ParkNow
  BY <1>4 DEF ClosePr, ApproveMerge, ParkNow, loopVars, gateVars, remoteVars
<1>5. CASE FindingsSync
  BY <1>5 DEF FindingsSync, loopVars, gateVars
<1>6. CASE UNCHANGED pvars
  BY <1>6 DEF pvars
<1> QED
  BY <1>1, <1>2, <1>3, <1>4, <1>5, <1>6 DEF PrStep

-----------------------------------------------------------------------------
(* What holds of the delivery.                                             *)

\* The drives of a delivered run are behaviours of the outer loop alone: what
\* integrates it and what shepherds its pull request never touch its ledger,
\* its directory or its channels.
THEOREM RunAlone == DSpec => Spec
<1>1. DInit => Init
  BY DEF DInit
<1>2. [DNext]_dvars => [Next]_vars
  BY Parts
<1> QED
  BY <1>1, <1>2, PTL DEF DSpec, Spec

\* Every variable of the outer loop, the integration and the pull request keeps
\* its type; in particular no node is repeated more often than its retry policy
\* says, and no more lanes are merged than a batch has.
THEOREM TypeCorrect == DSpec => []DeliveryTypes
<1> DEFINE I == RunInv /\ BatchInv /\ IType /\ PType /\ first \in BOOLEAN
<1>1. DInit => I
  <2> SUFFICES ASSUME DInit PROVE IType /\ PType /\ first \in BOOLEAN
    BY RunInvInit, BatchInvInit DEF DInit
  <2>1. IType
    BY Orders DEF DInit, IInit, IType
  <2>2. PType
    BY DEF DInit, PInit, PType
  <2> QED
    BY <2>1, <2>2 DEF DInit
<1>2. I /\ [DNext]_dvars => I'
  <2> SUFFICES ASSUME I, [DNext]_dvars PROVE I'
    OBVIOUS
  <2>1. RunInv' /\ BatchInv' /\ IType' /\ PType'
    BY Parts, RunInvNext, BatchInvNext, ITypeNext, PTypeNext
  <2>2. first' \in BOOLEAN
    BY DEF DNext, RunPart, BeginIntegration, IntegrationPart, IntegrationDies, BeginDeliver,
       BeginLoop, PrPart, Idle, dvars
  <2> QED
    BY <2>1, <2>2
<1>3. I => DeliveryTypes
  BY DEF RunInv, DeliveryTypes
<1> QED
  BY <1>1, <1>2, <1>3, PTL DEF DSpec

\* A run under processed/ is done in the ledger, with gates passed and all its
\* waves in the manifest, whatever pauses, crashes, repeated nodes and stale
\* channels came before (_drive_via_outer_loop).
THEOREM Verified == DSpec => []ProcessedIsVerified
<1>1. Spec => []RunInv
  BY RunInvInit, RunInvNext, PTL DEF Spec
<1>2. RunInv => ProcessedIsVerified
  BY DEF RunInv, ProcessedIsVerified
<1> QED
  BY <1>1, <1>2, RunAlone, PTL

\* Batches are closed in order, after their targets passed with all their lanes
\* merged, and nothing else is on the branch (execute_integration).
THEOREM Gated == DSpec => []BatchesGated
<1>1. DInit => BatchInv
  BY BatchInvInit DEF DInit
<1>2. BatchInv /\ [DNext]_dvars => BatchInv'
  BY Parts, BatchInvNext
<1> QED
  BY <1>1, <1>2, BatchInvGated, PTL DEF DSpec

\* Only a run that is filed as done with its gates passed is ever integrated,
\* and it stays so, whatever becomes of the integration (_finalize_run_result).
THEOREM OnlyVerifiedIntegrated ==
  DSpec => [](ipc # "off" => loc = "processed" /\ gated = Node)
<1> DEFINE I == ipc # "off" => loc = "processed" /\ pc = "down"
<1>1. DInit => RunInv /\ I
  BY RunInvInit DEF DInit, IInit
<1>2. RunInv /\ I /\ [DNext]_dvars => RunInv' /\ I'
  <2> SUFFICES ASSUME RunInv, I, [DNext]_dvars PROVE I' /\ RunInv'
    OBVIOUS
  <2>1. RunInv'
    BY Parts, RunInvNext
  <2>2. loc = "processed" /\ pc = "down" => loc' = "processed" /\ pc' = "down"
    <3>1. ASSUME loc = "processed", pc = "down", Next PROVE FALSE
      BY <3>1 DEF Next, EngineStep, Validate, WavesBegin, Dispatch, Settle, WavesEnd,
         WavesReturn, WavesRetried, Verify, Commit, Review, Generate, Conclude, Crash,
         ResumeFailed, ResumeStopped
    <3> QED
      BY <3>1, Parts DEF vars, dirVars
  <2> QED
    BY <2>1, <2>2, Parts DEF vars, dirVars
<1>3. RunInv /\ I => (ipc # "off" => loc = "processed" /\ gated = Node)
  BY DEF RunInv
<1> QED
  BY <1>1, <1>2, <1>3, PTL DEF DSpec

\* However often deliver is called, cut off, refused or raced by a human who
\* closes its pull request, it opens at most one (run_commit_node).
THEOREM OnePr == DSpec => []AtMostOnePr
<1>1. DInit => PrInv
  BY PrInvInit DEF DInit
<1>2. PrInv /\ [DNext]_dvars => PrInv'
  BY Parts, PrInvNext
<1>3. PrInv => AtMostOnePr
  BY DEF PrInv, AtMostOnePr
<1> QED
  BY <1>1, <1>2, <1>3, PTL DEF DSpec
=============================================================================
