------------------------- MODULE SkwPipeline_proofs -------------------------
(***************************************************************************)
(* Proofs about the spec-kit-wave pipeline, for any plans, gates, turn     *)
(* limits, verdict words and checkouts.                                    *)
(***************************************************************************)
EXTENDS SkwPipeline, TLAPS

AtWave == {"wave", "verify", "commit", "gate"}
Reviewed == {"review", "cross", "generate", "done"}

\* The waves of the turn are taken in order, and a review follows the last.
PosInv ==
  /\ proc \in AtWave \cup Reviewed => pos \in 1 .. Length[plan]
  /\ proc \in Reviewed => pos = Length[plan]

\* Behind the commit of a wave, and until the next wave's agent works, the
\* tree is clean and the branch pushed.
PushInv ==
  proc \in {"gate"} \cup Reviewed /\ env.commit =>
    /\ loose[CommitTree] \subseteq {Papers}
    /\ env.push => ahead = {}

\* Every plan of the trail is in the snapshot of the turn, once it is taken:
\* no later difference can find one of them again.
TurnInv ==
  running \/ proc = "done" =>
    /\ \A i \in 1 .. Len(trail) : trail[i] \in plans
    /\ proc # "validate" => \A i \in 1 .. Len(trail) : trail[i] \in before
    /\ \A i, j \in 1 .. Len(trail) : trail[i] = trail[j] => i = j
    /\ Len(trail) <= MaxTurns[trail[1]]
    /\ proc = "generate" => Len(trail) < MaxTurns[trail[1]]

LEMMA PlanBounds ==
  ASSUME NEW p \in Plan
  PROVE  /\ Length[p] \in Nat \ {0} /\ MaxTurns[p] \in Nat \ {0}
         /\ \A k \in Gated[p] : k \in 1 .. Length[p]
BY SkwAssumption

LEMMA PlanIsPlan ==
  ASSUME TypeOK, proc # "none"
  PROVE  plan \in Plan /\ Length[plan] \in Nat \ {0} /\ Len(trail) \in Nat \ {0}
<1>1. Len(trail) \in Nat \ {0} /\ trail \in Seq(Plan)
  BY DEF TypeOK
<1>2. plan \in Plan
  BY <1>1 DEF plan
<1> QED
  BY <1>1, <1>2, PlanBounds

LEMMA TreeIsTree == ASSUME TypeOK PROVE CommitTree \in Tree
BY DEF TypeOK, CommitTree, Setting, Tree

\* What an agent edits is an item.
LEMMA EditsTyped ==
  ASSUME TypeOK, NEW w \in Wave
  PROVE  /\ With(w) \in [Tree -> SUBSET Item]
         /\ Edits(w) => loose' \in [Tree -> SUBSET Item]
         /\ PapersLoose \in [Tree -> SUBSET Item]
BY DEF TypeOK, With, Edits, PapersLoose, Item, Setting, Tree

\* A commit, pushed or not, moves items out of one tree.
LEMMA CommitTyped ==
  ASSUME TypeOK, NEW e \in [Tree -> SUBSET Item], NEW t \in Tree,
         Recorded(e, t) \/ Pushed(e, t)
  PROVE  loose' \in [Tree -> SUBSET Item] /\ ahead' \subseteq Item
BY DEF TypeOK, Recorded, Pushed

LEMMA WaveIsWave ==
  ASSUME TypeOK, PosInv, proc \in AtWave
  PROVE  <<plan, pos>> \in Wave
BY PlanIsPlan DEF PosInv, AtWave, Wave

-----------------------------------------------------------------------------

LEMMA TypeInit == Init => TypeOK
<1> SUFFICES ASSUME Init PROVE TypeOK
  OBVIOUS
<1>1. env \in Setting
  BY SettingsAssumption DEF Init
<1>2. trail \in Seq(Plan) /\ pos \in Nat
  BY DEF Init
<1>3. /\ reviews \in [Plan -> Verdict \cup {"missing"}]
      /\ loose \in [Tree -> SUBSET Item]
  BY DEF Init
<1> QED
  BY <1>1, <1>2, <1>3 DEF Init, TypeOK, Stages, Ended

LEMMA TypeNext == TypeOK /\ PosInv /\ [Next]_vars => TypeOK'
<1> SUFFICES ASSUME TypeOK, PosInv, [Next]_vars PROVE TypeOK'
  OBVIOUS
<1> USE DEF Stages, Ended
<1>1. ASSUME NEW p \in Plan, NEW ok \in BOOLEAN, Run(p, ok) PROVE TypeOK'
  BY <1>1 DEF TypeOK, Run, Start
<1>2. CASE Validate
  BY <1>2 DEF TypeOK, Validate, Fail
<1>3. CASE WaveAgent
  BY <1>3, EditsTyped, WaveIsWave
     DEF TypeOK, WaveAgent, Fail, turnVars, disk, AtWave
<1>4. CASE Verify
  BY <1>4 DEF TypeOK, Verify, Fail, turnVars, disk, repo
<1>5. CASE Commit
  <2>1. loose' \in [Tree -> SUBSET Item] /\ ahead' \subseteq Item
    BY <1>5, CommitTyped, TreeIsTree DEF TypeOK, Commit, repo
  <2>2. pos' \in Nat /\ proc' \in Stages \cup Ended /\ proc' # "none"
    BY <1>5 DEF TypeOK, Commit, AfterCommit, Onward, Fail
  <2>3. trail # <<>>
    BY <1>5 DEF TypeOK, Commit
  <2> QED
    BY <1>5, <2>1, <2>2, <2>3 DEF TypeOK, Commit, turnVars, disk
<1>6. CASE Gate
  BY <1>6 DEF TypeOK, Gate, Onward, turnVars, disk, repo
<1>7. CASE Review
  <2>1. loose' \in [Tree -> SUBSET Item]
    BY <1>7, EditsTyped DEF Review, TypeOK, PapersLoose, Item, Tree
  <2>2. /\ reviews' \in [Plan -> Verdict \cup {"missing"}]
        /\ reviews'[plan] \in Verdict \cup {"missing"}
    BY <1>7, PlanIsPlan DEF Review, TypeOK
  <2> QED
    BY <1>7, <2>1, <2>2 DEF TypeOK, Review, Fail, turnVars
<1>8. CASE CrossCheck
  <2>1. proc' \in {"done", "generate", "failed"}
    BY <1>8 DEF CrossCheck
  <2> QED
    BY <1>8, <2>1 DEF TypeOK, CrossCheck, turnVars, disk, repo
<1>9. CASE Generate
  <2>1. plans' \subseteq Plan /\ Fresh(plans') \subseteq Plan
    BY <1>9 DEF TypeOK, Generate, Fresh
  <2>2. loose' \in [Tree -> SUBSET Item]
    BY <1>9 DEF Generate, TypeOK, PapersLoose, Item, Tree
  <2>3. /\ trail' \in Seq(Plan) /\ trail' # <<>> /\ pos' \in Nat
        /\ proc' \in {"validate", "failed"}
    <3>1. ASSUME NEW p \in Fresh(plans'), trail' = Append(trail, p)
          PROVE  trail' \in Seq(Plan) /\ trail' # <<>>
      BY <2>1, <3>1 DEF TypeOK
    <3>2. trail' = trail => trail' \in Seq(Plan) /\ trail' # <<>>
      BY <1>9 DEF TypeOK, Generate
    <3>3. pos' \in Nat /\ proc' \in {"validate", "failed"}
      BY <1>9 DEF TypeOK, Generate, Fail
    <3> QED
      BY <1>9, <3>1, <3>2, <3>3 DEF Generate
  <2> QED
    BY <1>9, <2>1, <2>2, <2>3 DEF TypeOK, Generate
<1>10. CASE Die
  BY <1>10 DEF TypeOK, Die, running, Fail, turnVars, disk, repo
<1>11. ASSUME NEW p \in Plan, Author(p) PROVE TypeOK'
  <2>1. loose' \in [Tree -> SUBSET Item]
    BY <1>11 DEF Author, TypeOK, PapersLoose, Item, Tree
  <2> QED
    BY <1>11, <2>1 DEF TypeOK, Author, turnVars
<1>12. ASSUME NEW w \in Wave, AgentRun(w) PROVE TypeOK'
  <2>1. CASE Edits(w) /\ UNCHANGED ahead
    BY <1>12, <2>1, EditsTyped DEF TypeOK, AgentRun, turnVars, disk
  <2>2. ASSUME env.home # "nowhere", NEW edited \in {loose, With(w)},
               Recorded(edited, env.home) \/ Pushed(edited, env.home)
        PROVE  TypeOK'
    <3>1. edited \in [Tree -> SUBSET Item] /\ env.home \in Tree
      BY <2>2, EditsTyped DEF TypeOK, Setting, Tree
    <3> QED
      BY <1>12, <2>2, <3>1, CommitTyped DEF TypeOK, AgentRun, turnVars, disk
  <2> QED
    BY <1>12, <2>1, <2>2 DEF AgentRun
<1>13. CASE UNCHANGED vars
  BY <1>13 DEF TypeOK, vars
<1> QED
  BY <1>1, <1>2, <1>3, <1>4, <1>5, <1>6, <1>7, <1>8, <1>9, <1>10, <1>11,
     <1>12, <1>13 DEF Next

-----------------------------------------------------------------------------

LEMMA PosInit == Init => PosInv
BY DEF Init, PosInv, AtWave, Reviewed

LEMMA PosNext == TypeOK /\ PosInv /\ [Next]_vars => PosInv'
<1> SUFFICES ASSUME TypeOK, PosInv, [Next]_vars PROVE PosInv'
  OBVIOUS
<1> USE DEF AtWave, Reviewed
<1>1. ASSUME NEW p \in Plan, NEW ok \in BOOLEAN, Run(p, ok) PROVE PosInv'
  BY <1>1 DEF PosInv, Run, Start
<1>2. CASE Validate
  BY <1>2, PlanIsPlan DEF PosInv, Validate, Fail, plan
<1>3. CASE WaveAgent
  BY <1>3 DEF PosInv, WaveAgent, Fail, turnVars, plan
<1>4. CASE Verify
  BY <1>4 DEF PosInv, Verify, Fail, turnVars, plan
<1>5. CASE Commit
  BY <1>5, PlanIsPlan
     DEF PosInv, Commit, AfterCommit, Onward, Fail, turnVars, plan
<1>6. CASE Gate
  BY <1>6, PlanIsPlan DEF PosInv, Gate, Onward, turnVars, plan
<1>7. CASE Review
  BY <1>7 DEF PosInv, Review, Fail, turnVars, plan
<1>8. CASE CrossCheck
  <2>1. proc' \in {"done", "generate", "failed"}
    BY <1>8 DEF CrossCheck
  <2> QED
    BY <1>8, <2>1 DEF PosInv, CrossCheck, turnVars, plan
<1>9. CASE Generate
  <2>1. proc' \in {"validate", "failed"}
    BY <1>9 DEF Generate, Fail
  <2> QED
    BY <2>1 DEF PosInv
<1>10. CASE Die
  BY <1>10 DEF PosInv, Die, Fail
<1>11. ASSUME NEW p \in Plan, Author(p) PROVE PosInv'
  BY <1>11 DEF PosInv, Author, turnVars, plan
<1>12. ASSUME NEW w \in Wave, AgentRun(w) PROVE PosInv'
  BY <1>12 DEF PosInv, AgentRun
<1>13. CASE UNCHANGED vars
  BY <1>13 DEF PosInv, vars, plan
<1> QED
  BY <1>1, <1>2, <1>3, <1>4, <1>5, <1>6, <1>7, <1>8, <1>9, <1>10, <1>11,
     <1>12, <1>13 DEF Next

\* Every state of the pipeline is well typed, and its position in its plan.
THEOREM TypeCorrect == Spec => [](TypeOK /\ PosInv)
<1>1. Init => TypeOK /\ PosInv
  BY TypeInit, PosInit
<1>2. TypeOK /\ PosInv /\ [Next]_vars => (TypeOK /\ PosInv)'
  BY TypeNext, PosNext
<1> QED
  BY <1>1, <1>2, PTL DEF Spec

-----------------------------------------------------------------------------
(* What has been pushed *)

LEMMA PushInit == Init => PushInv
BY DEF Init, PushInv, Reviewed

LEMMA PushNext == TypeOK /\ PushInv /\ [Next]_vars => PushInv'
<1> SUFFICES ASSUME TypeOK, PushInv, [Next]_vars PROVE PushInv'
  OBVIOUS
<1> USE DEF Reviewed
<1> CommitTree \in Tree
  BY TreeIsTree
<1>0. ASSUME loose' = PapersLoose \/ loose' = loose,
             UNCHANGED <<env, ahead>>, proc \in {"gate"} \cup Reviewed
      PROVE  PushInv'
  <2>1. loose[CommitTree] \subseteq {Papers} =>
          loose'[CommitTree] \subseteq {Papers}
    BY <1>0 DEF PapersLoose, TypeOK
  <2> QED
    BY <1>0, <2>1 DEF PushInv, CommitTree
<1>1. ASSUME NEW p \in Plan, NEW ok \in BOOLEAN, Run(p, ok) PROVE PushInv'
  BY <1>1 DEF PushInv, Run, Start
<1>2. CASE Validate
  BY <1>2 DEF PushInv, Validate, Fail
<1>3. CASE WaveAgent
  BY <1>3 DEF PushInv, WaveAgent, Fail
<1>4. CASE Verify
  BY <1>4 DEF PushInv, Verify, Fail
<1>5. CASE Commit
  <2>1. CASE ~env.commit \/ Fail
    BY <1>5, <2>1 DEF PushInv, Commit, Fail
  <2>2. ASSUME ~env.push, Recorded(loose, CommitTree) PROVE PushInv'
    BY <1>5, <2>2 DEF PushInv, Commit, Recorded, CommitTree, TypeOK
  <2>3. ASSUME Pushed(loose, CommitTree) PROVE PushInv'
    BY <1>5, <2>3 DEF PushInv, Commit, Pushed, CommitTree, TypeOK
  <2> QED
    BY <1>5, <2>1, <2>2, <2>3 DEF Commit
<1>6. CASE Gate
  BY <1>0, <1>6 DEF Gate, repo
<1>7. CASE Review
  BY <1>0, <1>7 DEF Review
<1>8. CASE CrossCheck
  BY <1>0, <1>8 DEF CrossCheck, repo
<1>9. CASE Generate
  BY <1>0, <1>9 DEF Generate
<1>10. CASE Die
  BY <1>10 DEF PushInv, Die, Fail
<1>11. ASSUME NEW p \in Plan, Author(p) PROVE PushInv'
  <2>1. CASE proc \in {"gate"} \cup Reviewed
    BY <1>0, <1>11, <2>1 DEF Author
  <2>2. CASE proc \notin {"gate"} \cup Reviewed
    BY <1>11, <2>2 DEF Author, PushInv
  <2> QED
    BY <2>1, <2>2
<1>12. ASSUME NEW w \in Wave, AgentRun(w) PROVE PushInv'
  BY <1>12 DEF PushInv, AgentRun
<1>13. CASE UNCHANGED vars
  BY <1>13 DEF PushInv, vars, CommitTree
<1> QED
  BY <1>1, <1>2, <1>3, <1>4, <1>5, <1>6, <1>7, <1>8, <1>9, <1>10, <1>11,
     <1>12, <1>13 DEF Next

\* A run that ends well has left no edit uncommitted where the branch is
\* checked out and no commit unpushed, its own or an earlier one's (Commit
\* fails on an empty diff, so no run ends without a push of its own).
THEOREM DonePushed == Spec => []FinishIsPushed
<1>1. Init => PushInv
  BY PushInit
<1>2. TypeOK /\ PushInv /\ [Next]_vars => PushInv'
  BY PushNext
<1>3. PushInv => FinishIsPushed
  BY DEF PushInv, FinishIsPushed, Reviewed
<1> QED
  BY <1>1, <1>2, <1>3, TypeCorrect, PTL DEF Spec

-----------------------------------------------------------------------------
(* Gates *)

LEMMA GateInit == Init => GatesHold
BY DEF Init, GatesHold, running, Stages

LEMMA GateNext == TypeOK /\ PosInv /\ GatesHold /\ [Next]_vars => GatesHold'
<1> SUFFICES ASSUME TypeOK, PosInv, GatesHold, [Next]_vars PROVE GatesHold'
  OBVIOUS
<1> USE DEF running, Stages, AtWave, Reviewed
<1>1. ASSUME NEW p \in Plan, NEW ok \in BOOLEAN, Run(p, ok) PROVE GatesHold'
  <2>1. p \in Plan /\ plan' = p /\ pos' = 0 /\ proc' = "validate"
    BY <1>1 DEF Run, Start, plan
  <2> QED
    BY <2>1, SkwAssumption DEF GatesHold
<1>2. CASE Validate
  <2>1. \A k \in Gated[plan] : 1 <= k
    BY <1>2, PlanIsPlan, PlanBounds DEF Validate
  <2> QED
    BY <1>2, <2>1, PlanIsPlan DEF GatesHold, Validate, Fail, plan
<1>3. CASE WaveAgent
  BY <1>3 DEF GatesHold, WaveAgent, Fail, turnVars, plan
<1>4. CASE Verify
  BY <1>4 DEF GatesHold, Verify, Fail, turnVars, plan
<1>5. CASE Commit \/ Gate
  <2>1. /\ UNCHANGED <<plan, approved>>
        /\ Gated[plan] \subseteq 1 .. Length[plan]
        /\ Length[plan] \in Nat /\ pos \in Nat
        /\ pos \in 1 .. Length[plan]
    BY <1>5, PlanIsPlan, SkwAssumption
       DEF Commit, Gate, turnVars, plan, PosInv, TypeOK
  <2>2. CASE Onward /\ (approved \/ pos \notin Gated[plan])
    BY <1>5, <2>1, <2>2 DEF GatesHold, Onward, Commit, Gate
  <2>3. CASE proc' = "gate" /\ pos' = pos
    BY <1>5, <2>1, <2>3 DEF GatesHold, Commit, Gate
  <2>4. CASE proc' \in {"stopped", "failed"}
    BY <2>4 DEF GatesHold
  <2> QED
    BY <1>5, <2>2, <2>3, <2>4 DEF Commit, Gate, AfterCommit, Fail
<1>7. CASE Review
  BY <1>7 DEF GatesHold, Review, Fail, turnVars, plan
<1>8. CASE CrossCheck
  <2>1. proc' \in {"done", "generate", "failed"}
    BY <1>8 DEF CrossCheck
  <2> QED
    BY <1>8, <2>1 DEF GatesHold, CrossCheck, turnVars, plan
<1>9. CASE Generate
  <2>1. CASE proc' = "failed"
    BY <2>1 DEF GatesHold
  <2>2. ASSUME NEW p \in Plan, trail' = Append(trail, p),
               proc' = "validate", pos' = 0
        PROVE  GatesHold'
    <3>1. plan' = p
      BY <2>2 DEF TypeOK, plan
    <3> QED
      BY <2>2, <3>1, SkwAssumption DEF GatesHold
  <2>3. Fresh(plans') \subseteq Plan
    BY <1>9 DEF Generate, Fresh, TypeOK
  <2> QED
    BY <1>9, <2>1, <2>2, <2>3 DEF Generate, Fail
<1>10. CASE Die
  BY <1>10 DEF GatesHold, Die, Fail
<1>11. ASSUME NEW p \in Plan, Author(p) PROVE GatesHold'
  BY <1>11 DEF GatesHold, Author, turnVars, plan
<1>12. ASSUME NEW w \in Wave, AgentRun(w) PROVE GatesHold'
  BY <1>12 DEF GatesHold, AgentRun
<1>13. CASE UNCHANGED vars
  BY <1>13 DEF GatesHold, vars, plan
<1> QED
  BY <1>1, <1>2, <1>3, <1>4, <1>5, <1>7, <1>8, <1>9, <1>10, <1>11,
     <1>12, <1>13 DEF Next

\* No process that was started without approval works behind a gate of any
\* of its plans, or reviews or finishes a plan that has one, however often
\* the plan was started before.
THEOREM GatesAreHeld == Spec => []GatesHold
<1>1. Init => GatesHold
  BY GateInit
<1>2. TypeOK /\ PosInv /\ GatesHold /\ [Next]_vars => GatesHold'
  BY GateNext
<1> QED
  BY <1>1, <1>2, TypeCorrect, PTL DEF Spec

-----------------------------------------------------------------------------
(* Turns *)

LEMMA TurnInit == Init => TurnInv
BY DEF Init, TurnInv, running, Stages

LEMMA TurnNext == TypeOK /\ TurnInv /\ [Next]_vars => TurnInv'
<1> SUFFICES ASSUME TypeOK, TurnInv, [Next]_vars PROVE TurnInv'
  OBVIOUS
<1> USE DEF running, Stages
<1>1. ASSUME NEW p \in Plan, NEW ok \in BOOLEAN, Run(p, ok) PROVE TurnInv'
  <2>1. /\ Len(trail') = 1 /\ trail'[1] = p /\ p \in plans'
        /\ proc' = "validate"
    BY <1>1 DEF Run, Start
  <2>2. 1 .. Len(trail') = {1} /\ 1 <= MaxTurns[p]
    BY <2>1, SkwAssumption
  <2> QED
    BY <2>1, <2>2 DEF TurnInv
<1>2. CASE Validate
  BY <1>2 DEF TurnInv, Validate, Fail
<1>3. CASE WaveAgent
  BY <1>3 DEF TurnInv, WaveAgent, Fail, turnVars, disk
<1>4. CASE Verify
  BY <1>4 DEF TurnInv, Verify, Fail, turnVars, disk
<1>5. CASE Commit
  BY <1>5 DEF TurnInv, Commit, AfterCommit, Onward, Fail, turnVars, disk
<1>6. CASE Gate
  BY <1>6 DEF TurnInv, Gate, Onward, turnVars, disk
<1>7. CASE Review
  BY <1>7 DEF TurnInv, Review, Fail, turnVars
<1>8. CASE CrossCheck
  <2>1. /\ proc' \in {"done", "generate", "failed"}
        /\ proc' = "generate" => Len(trail) < MaxTurns[trail[1]]
    BY <1>8 DEF CrossCheck
  <2> QED
    BY <1>8, <2>1 DEF TurnInv, CrossCheck, turnVars, disk
<1>9. CASE Generate
  <2>1. CASE proc' = "failed"
    BY <2>1 DEF TurnInv
  <2>2. ASSUME NEW p \in Fresh(plans'), trail' = Append(trail, p),
               proc' = "validate"
        PROVE  TurnInv'
    <3> DEFINE n == Len(trail)
    <3>1. /\ n \in Nat \ {0} /\ p \in Plan /\ p \in plans'
          /\ p \notin before /\ plans \subseteq plans' /\ plans' \subseteq Plan
      BY <1>9, PlanIsPlan DEF Generate, Fresh, TypeOK
    <3>2. /\ Len(trail') = n + 1 /\ trail'[n + 1] = p
          /\ \A i \in 1 .. n : trail'[i] = trail[i]
      BY <2>2, <3>1 DEF TypeOK
    <3>3. /\ \A i \in 1 .. n : trail[i] \in plans /\ trail[i] # p
          /\ \A i, j \in 1 .. n : trail[i] = trail[j] => i = j
          /\ n < MaxTurns[trail[1]]
      BY <1>9, <3>1 DEF TurnInv, Generate
    <3>4. trail[1] \in Plan /\ 1 \in 1 .. n
      BY <3>1 DEF TypeOK
    <3>5. MaxTurns[trail'[1]] \in Nat /\ trail'[1] = trail[1]
      BY <3>2, <3>4, PlanBounds
    <3>6. \A i \in 1 .. n + 1 : i \in 1 .. n \/ i = n + 1
      BY <3>1
    <3>7. \A i \in 1 .. Len(trail') : trail'[i] \in plans'
      BY <3>1, <3>2, <3>3, <3>6
    <3>8. \A i, j \in 1 .. Len(trail') : trail'[i] = trail'[j] => i = j
      BY <3>2, <3>3, <3>6
    <3>9. Len(trail') <= MaxTurns[trail'[1]]
      BY <3>1, <3>2, <3>3, <3>5
    <3> QED
      BY <2>2, <3>7, <3>8, <3>9 DEF TurnInv
  <2> QED
    BY <1>9, <2>1, <2>2 DEF Generate, Fail
<1>10. CASE Die
  BY <1>10 DEF TurnInv, Die, Fail
<1>11. ASSUME NEW p \in Plan, Author(p) PROVE TurnInv'
  BY <1>11 DEF TurnInv, Author, turnVars
<1>12. ASSUME NEW w \in Wave, AgentRun(w) PROVE TurnInv'
  BY <1>12 DEF TurnInv, AgentRun
<1>13. CASE UNCHANGED vars
  BY <1>13 DEF TurnInv, vars
<1> QED
  BY <1>1, <1>2, <1>3, <1>4, <1>5, <1>6, <1>7, <1>8, <1>9, <1>10, <1>11,
     <1>12, <1>13 DEF Next

\* A run goes through distinct plans, at most as many as the first allows: a
\* plan that is once in a turn's snapshot is never new again.
THEOREM TurnsAreFew == Spec => []TurnsEnd
<1>1. Init => TurnInv
  BY TurnInit
<1>2. TypeOK /\ TurnInv /\ [Next]_vars => TurnInv'
  BY TurnNext
<1>3. TurnInv => TurnsEnd
  BY DEF TurnInv, TurnsEnd
<1> QED
  BY <1>1, <1>2, <1>3, TypeCorrect, PTL DEF Spec

=============================================================================
