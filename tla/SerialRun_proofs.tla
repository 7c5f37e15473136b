-------------------------- MODULE SerialRun_proofs --------------------------
(***************************************************************************)
(* Proofs about the serial drive and its review gates, for any graph, any  *)
(* serial order and any set of gates.                                      *)
(***************************************************************************)
EXTENDS SerialRun, FiniteSetTheorems, SequenceTheorems, TLAPS

WaveRows == wave \in [Node -> WaveStates]

\* What is pushed before the row says done.
PushInv ==
  CommitPerWave =>
    /\ InState({"done"}) \subseteq pushed \cup HumanGate
    /\ pc = "record" => Current \in pushed

\* The driver works on a run under processing/ and files it as it has judged.
FileInv ==
  /\ pc # "down" => loc = "processing"
  /\ pc = "file" => runState = IF blocked = {} THEN "done" ELSE "failed"
  /\ FiledByVerdict

\* No review is pending from the start of a session to the writing of a mark.
Unmarked == {"recover", "gate", "prepare", "pick", "file", "mark"} \cup Executing
GateInv == pc \in Unmarked => Pending \notin GateWave

\* The driver's set of done waves has every done row, and not the wave at work.
Driving == {"pick", "file"} \cup GateSteps \cup Executing
DoneInv ==
  /\ pc \in Driving => InState({"done"}) \subseteq done
  /\ pc \in Executing => Current \notin done

LEMMA GateIds == None \notin GateWave /\ PreZero \notin GateWave
BY ConstantsAssumption

LEMMA NextCases ==
  ASSUME [Next]_vars
  PROVE  \/ GateOpen \/ GateAutoAccept \/ GatePark \/ GateCanary \/ GateFail
         \/ PrepareRefused \/ Prepare
         \/ SkipSettled \/ PauseExit \/ Dispatch
         \/ WorkDelivered \/ GauntletPassed \/ GauntletFailed \/ WaveBlocked
         \/ QuotaOrCostPause \/ Raised \/ VerifyPassed
         \/ Push \/ PushFailed \/ CommitFailed \/ RecordDone
         \/ MarkGate \/ WriteGateForm \/ AgentPasses \/ GateStops
         \/ Conclude \/ FileRun \/ Recover
         \/ WaiterApproves \/ Answer \/ Approve \/ ApproveLegacy
         \/ RequestPause \/ Reactivate \/ Resume \/ AbandonWait \/ Crash
         \/ UNCHANGED vars
BY DEF Next, DriveStep, OperatorStep, Completed, Poll

-----------------------------------------------------------------------------
(* Rows *)

LEMMA RowsInit == Init => WaveRows
BY DEF Init, WaveRows, WaveStates

LEMMA RowsNext == WaveRows /\ [Next]_vars => WaveRows'
<1> SUFFICES ASSUME WaveRows, [Next]_vars PROVE WaveRows'
  OBVIOUS
<1> USE DEF WaveRows, WaveStates, Requeue
<1>1. CASE UNCHANGED wave
  BY <1>1
<1>2. CASE PrepareRefused \/ Prepare \/ Recover \/ Resume
  BY <1>2 DEF PrepareRefused, Prepare, Recover, Resume
<1>3. CASE Dispatch \/ WorkDelivered \/ GauntletPassed \/ GauntletFailed
           \/ WaveBlocked \/ QuotaOrCostPause
  BY <1>3 DEF Dispatch, WorkDelivered, GauntletPassed, GauntletFailed,
              WaveBlocked, QuotaOrCostPause, SetWave
<1>4. CASE Raised \/ PushFailed \/ CommitFailed \/ RecordDone
  BY <1>4 DEF Raised, PushFailed, CommitFailed, RecordDone, SetWave
<1> QED
  BY <1>1, <1>2, <1>3, <1>4, NextCases
     DEF GateOpen, GateAutoAccept, GatePark, GateCanary, GateFail, SkipSettled,
         PauseExit, VerifyPassed, Push, MarkGate, WriteGateForm, AgentPasses,
         GateStops, Conclude, FileRun, WaiterApproves, Answer, Approve,
         ApproveLegacy, RequestPause, Reactivate, AbandonWait, Crash, vars,
         ledgerVars

-----------------------------------------------------------------------------
(* Pushes *)

LEMMA PushInit == Init => PushInv
BY DEF Init, PushInv, InState

LEMMA PushNext == WaveRows /\ PushInv /\ [Next]_vars => PushInv'
<1> SUFFICES ASSUME WaveRows, PushInv, [Next]_vars PROVE PushInv'
  OBVIOUS
<1> USE DEF PushInv, InState
<1>1. CASE UNCHANGED <<wave, pushed>> /\ pc' # "record"
  BY <1>1
<1>2. CASE PrepareRefused \/ Prepare \/ Recover \/ Resume
  BY <1>2 DEF PrepareRefused, Prepare, Recover, Resume, Requeue, Cleared,
              CommandEnds
<1>3. CASE Dispatch \/ WorkDelivered \/ GauntletPassed \/ GauntletFailed
           \/ WaveBlocked \/ QuotaOrCostPause
  BY <1>3 DEF Dispatch, WorkDelivered, GauntletPassed, GauntletFailed,
              WaveBlocked, QuotaOrCostPause, SetWave, Advance, Return, WaveRows
<1>4. CASE Raised \/ PushFailed \/ CommitFailed \/ RecordDone
  BY <1>4 DEF Raised, PushFailed, CommitFailed, RecordDone, SetWave, Advance,
              Return, WaveRows, Requeue, CommandEnds
<1>5. CASE VerifyPassed
  BY <1>5 DEF VerifyPassed, ledgerVars
<1>6. CASE Push
  BY <1>6 DEF Push, Current
<1>7. CASE UNCHANGED <<wave, pushed, pc, pos>>
  BY <1>7 DEF Current
<1> QED
  BY <1>1, <1>2, <1>3, <1>4, <1>5, <1>6, <1>7, NextCases
     DEF GateOpen, GateAutoAccept, GatePark, GateCanary, GateFail, SkipSettled,
         PauseExit, MarkGate, WriteGateForm, AgentPasses, Advance, Return,
         GateStops, Conclude, FileRun, WaiterApproves, Answer, Approve,
         ApproveLegacy, RequestPause, Reactivate, AbandonWait, Crash, vars,
         ledgerVars, driverVars, CommandEnds

\* With a commit per wave no row says done before the wave's work is on the
\* remote branch, for any graph and through every failure and crash.
THEOREM DonePushed == Spec => []DoneIsPushed
<1>1. Init => WaveRows /\ PushInv
  BY RowsInit, PushInit
<1>2. WaveRows /\ PushInv /\ [Next]_vars => (WaveRows /\ PushInv)'
  BY RowsNext, PushNext
<1>3. PushInv => DoneIsPushed
  BY DEF PushInv, DoneIsPushed
<1> QED
  BY <1>1, <1>2, <1>3, PTL DEF Spec

-----------------------------------------------------------------------------
(* Filing *)

LEMMA FileInit == Init => FileInv
BY DEF Init, FileInv, FiledByVerdict

LEMMA FileNext == FileInv /\ [Next]_vars => FileInv'
<1> SUFFICES ASSUME FileInv, [Next]_vars PROVE FileInv'
  OBVIOUS
<1> USE DEF FileInv, FiledByVerdict
<1>1. CASE UNCHANGED <<runState, loc, pc, blocked>>
  BY <1>1
<1>2. CASE pc # "down" /\ UNCHANGED loc /\ pc' # "file"
  BY <1>2
<1>3. CASE Conclude
  BY <1>3 DEF Conclude, dirVars
<1>4. CASE FileRun
  BY <1>4 DEF FileRun, CommandEnds, ledgerVars
<1>5. CASE Reactivate \/ Resume
  BY <1>5 DEF Reactivate, Resume, dirVars
<1>6. CASE \/ GateOpen \/ GateAutoAccept \/ GatePark \/ GateCanary \/ GateFail
           \/ PrepareRefused \/ Prepare \/ SkipSettled \/ PauseExit \/ Dispatch
           \/ WorkDelivered \/ GauntletPassed \/ GauntletFailed \/ WaveBlocked
  <2>1. pc # "down" /\ UNCHANGED loc /\ pc' # "file"
    BY <1>6 DEF GateOpen, GateAutoAccept, GatePark, GateCanary, GateFail, AtGate,
         PrepareRefused, Prepare, SkipSettled, AtWave, PauseExit, Dispatch,
         WorkDelivered, GauntletPassed, GauntletFailed, WaveBlocked,
         CommandEnds, Return, Advance, dirVars
  <2> QED
    BY <2>1
<1>7. CASE \/ QuotaOrCostPause \/ Raised \/ VerifyPassed \/ Push \/ PushFailed
           \/ CommitFailed \/ RecordDone \/ MarkGate \/ WriteGateForm
           \/ AgentPasses \/ GateStops \/ Recover \/ WaiterApproves
           \/ AbandonWait \/ Crash
  <2>1. pc # "down" /\ UNCHANGED loc /\ pc' # "file"
    BY <1>7 DEF QuotaOrCostPause, Raised, VerifyPassed, Push, PushFailed,
         CommitFailed, RecordDone, MarkGate, WriteGateForm, AgentPasses,
         GateStops, Recover, WaiterApproves, AbandonWait, Crash, Executing,
         CommandEnds, Return, Advance, dirVars
  <2> QED
    BY <2>1
<1>8. CASE Answer \/ Approve \/ ApproveLegacy \/ RequestPause \/ UNCHANGED vars
  BY <1>1, <1>8 DEF Answer, Approve, ApproveLegacy, RequestPause, vars,
     ledgerVars, dirVars, driverVars
<1> QED
  BY <1>3, <1>4, <1>5, <1>6, <1>7, <1>8, NextCases

\* The folder a filed run lies in agrees with the verdict in its row, at every
\* moment and not only after a session that ended well.
THEOREM Filed == Spec => []FiledByVerdict
<1>1. Init => FileInv
  BY FileInit
<1>2. FileInv /\ [Next]_vars => FileInv'
  BY FileNext
<1>3. FileInv => FiledByVerdict
  BY DEF FileInv
<1> QED
  BY <1>1, <1>2, <1>3, PTL DEF Spec

-----------------------------------------------------------------------------
(* Reviews *)

\* A review is pending when its mark is there and no approval is.
LEMMA PendingReview ==
  Pending \in GateWave <=> gatePending \in GateWave /\ gateApproved = None
BY GateIds DEF Pending

LEMMA GateInit == Init => GateInv
BY PendingReview, GateIds DEF Init, GateInv

LEMMA GateNext ==
  ASSUME "eager" \notin Env, GateInv, [Next]_vars
  PROVE  GateInv'
<1> USE DEF GateInv
<1>0. Pending' \in GateWave <=> gatePending' \in GateWave /\ gateApproved' = None
  BY GateIds DEF Pending
<1>1. CASE UNCHANGED <<gatePending, gateApproved>> /\ pc \in Unmarked
  BY <1>0, <1>1, PendingReview
<1>2. CASE UNCHANGED <<gatePending, gateApproved>> /\ Pending \notin GateWave
  BY <1>0, <1>2, PendingReview
<1>3. CASE pc' \notin Unmarked
  BY <1>3
<1>4. CASE gatePending' = None
  BY <1>0, <1>4, GateIds
<1>5. CASE UNCHANGED <<gatePending, gateApproved, pc>>
  BY <1>0, <1>5, PendingReview
<1>6. CASE \/ GateOpen \/ GateAutoAccept \/ Prepare \/ SkipSettled \/ Dispatch
           \/ WorkDelivered \/ GauntletPassed \/ GauntletFailed \/ WaveBlocked
           \/ VerifyPassed \/ Push \/ CommitFailed \/ RecordDone \/ Conclude
           \/ Recover
  BY <1>1, <1>6 DEF Unmarked, Executing, GateOpen, GateAutoAccept, AtGate,
     Prepare, SkipSettled, AtWave, Dispatch, WorkDelivered, GauntletPassed,
     GauntletFailed, WaveBlocked, VerifyPassed, Push, CommitFailed, RecordDone,
     Conclude, Recover, gateVars
<1>7. CASE \/ GatePark \/ GateCanary \/ GateFail \/ PrepareRefused \/ PauseExit
           \/ QuotaOrCostPause \/ Raised \/ PushFailed \/ GateStops \/ FileRun
           \/ MarkGate \/ WriteGateForm \/ AbandonWait \/ Crash
  BY <1>3, <1>7 DEF Unmarked, Executing, GatePark, GateCanary, GateFail,
     PrepareRefused, PauseExit, QuotaOrCostPause, Raised, PushFailed, GateStops,
     FileRun, MarkGate, WriteGateForm, AbandonWait, Crash, CommandEnds, Return
<1>8. CASE AgentPasses
  BY <1>4, <1>8 DEF AgentPasses
<1>9. CASE Reactivate \/ Resume
  BY <1>2, <1>9 DEF Reactivate, Resume, MayResume, gateVars
<1>10. CASE WaiterApproves
  <2>1. CASE Pending = PreZero
    BY <1>2, <1>10, <2>1, GateIds DEF WaiterApproves, PassPending
  <2>2. CASE Pending # PreZero
    BY <1>4, <1>10, <2>2 DEF WaiterApproves, PassPending
  <2> QED
    BY <2>1, <2>2
<1>11. CASE Approve \/ ApproveLegacy
  <2>1. \/ UNCHANGED <<gatePending, gateApproved, pc>>
        \/ gatePending' = None
    BY <1>11 DEF Approve, ApproveLegacy, PassPending, driverVars
  <2> QED
    BY <1>4, <1>5, <2>1
<1>12. CASE Answer \/ RequestPause \/ UNCHANGED vars
  BY <1>5, <1>12 DEF Answer, RequestPause, vars, gateVars, driverVars
<1> QED
  BY <1>6, <1>7, <1>8, <1>9, <1>10, <1>11, <1>12, NextCases

\* If operators approve before they resume, no wave is at work while a review
\* is pending, wherever a crash cut the writing of the gate's files.
THEOREM ReviewsHold ==
  ASSUME "eager" \notin Env
  PROVE  Spec => []NoWorkUnderPendingGate
<1>1. Init => GateInv
  BY GateInit
<1>2. GateInv /\ [Next]_vars => GateInv'
  BY GateNext
<1>3. GateInv => NoWorkUnderPendingGate
  BY DEF GateInv, NoWorkUnderPendingGate, Unmarked
<1> QED
  BY <1>1, <1>2, <1>3, PTL DEF Spec

-----------------------------------------------------------------------------
(* Done waves *)

LEMMA DoneInit == Init => DoneInv
BY DEF Init, DoneInv, InState, Driving, GateSteps, Executing

LEMMA DoneNext == WaveRows /\ DoneInv /\ [Next]_vars => DoneInv'
<1> SUFFICES ASSUME WaveRows, DoneInv, [Next]_vars PROVE DoneInv'
  OBVIOUS
<1> USE DEF DoneInv, Driving, GateSteps, Executing
<1>1. CASE pc' \notin Driving
  BY <1>1
<1>2. CASE UNCHANGED <<wave, done, pos, pc>>
  BY <1>2 DEF InState, Current
<1>3. CASE Prepare
  BY <1>3 DEF Prepare, InState, Requeue, StaleStates, Cleared
<1>4. CASE Dispatch
  BY <1>4 DEF Dispatch, AtWave, InState, Current, WaveRows
<1>5. CASE \/ WorkDelivered \/ GauntletPassed \/ GauntletFailed \/ WaveBlocked
           \/ CommitFailed
  BY <1>5 DEF WorkDelivered, GauntletPassed, GauntletFailed, WaveBlocked,
     CommitFailed, SetWave, Advance, InState, Current, WaveRows
<1>6. CASE RecordDone
  BY <1>6 DEF RecordDone, SetWave, Advance, InState, WaveRows
<1>7. CASE \/ SkipSettled \/ VerifyPassed \/ Push \/ MarkGate \/ WriteGateForm
           \/ AgentPasses \/ Conclude
  BY <1>7 DEF SkipSettled, AtWave, VerifyPassed, Push, MarkGate, WriteGateForm,
     AgentPasses, Conclude, Advance, InState, Current, ledgerVars
<1>8. CASE \/ GatePark \/ GateCanary \/ GateFail \/ PrepareRefused \/ PauseExit
           \/ QuotaOrCostPause \/ Raised \/ PushFailed \/ GateStops \/ FileRun
           \/ AbandonWait \/ Crash
  BY <1>1, <1>8 DEF GatePark, GateCanary, GateFail,
     PrepareRefused, PauseExit, QuotaOrCostPause, Raised, PushFailed, GateStops,
     FileRun, AbandonWait, Crash, CommandEnds, Return
<1>9. CASE \/ GateOpen \/ GateAutoAccept \/ Recover \/ WaiterApproves
           \/ Reactivate \/ Resume
  BY <1>1, <1>9 DEF GateOpen, GateAutoAccept, Recover, WaiterApproves,
     Reactivate, Resume
<1>10. CASE \/ Answer \/ Approve \/ ApproveLegacy \/ RequestPause
            \/ UNCHANGED vars
  BY <1>2, <1>10 DEF Answer, Approve, ApproveLegacy, RequestPause, vars,
     ledgerVars, driverVars
<1> QED
  BY <1>3, <1>4, <1>5, <1>6, <1>7, <1>8, <1>9, <1>10, NextCases

\* What a step does to the row of a done wave.
LEMMA DoneStep ==
  ASSUME WaveRows, DoneInv, [Next]_vars, NEW n \in Node, wave[n] = "done"
  PROVE  wave'[n] = "done"
<1> USE DEF DoneInv, Driving, GateSteps, Executing, InState
<1>1. CASE UNCHANGED wave
  BY <1>1
<1>2. CASE PrepareRefused \/ Prepare \/ Recover \/ Resume
  BY <1>2 DEF PrepareRefused, Prepare, Recover, Resume, Requeue, StaleStates
<1>3. CASE Raised
  BY <1>3 DEF Raised, Requeue, StaleStates
<1>4. CASE Dispatch
  BY <1>4 DEF Dispatch, AtWave, WaveRows
<1>5. CASE \/ WorkDelivered \/ GauntletPassed \/ GauntletFailed \/ WaveBlocked
           \/ QuotaOrCostPause
  BY <1>5 DEF WorkDelivered, GauntletPassed, GauntletFailed, WaveBlocked,
     QuotaOrCostPause, SetWave, WaveRows
<1>6. CASE PushFailed \/ CommitFailed \/ RecordDone
  BY <1>6 DEF PushFailed, CommitFailed, RecordDone, SetWave, WaveRows
<1> QED
  BY <1>1, <1>2, <1>3, <1>4, <1>5, <1>6, NextCases
     DEF GateOpen, GateAutoAccept, GatePark, GateCanary, GateFail, SkipSettled,
         PauseExit, VerifyPassed, Push, MarkGate, WriteGateForm, AgentPasses,
         GateStops, Conclude, FileRun, WaiterApproves, Answer, Approve,
         ApproveLegacy, RequestPause, Reactivate, AbandonWait, Crash, vars,
         ledgerVars

\* No wave that is done is dispatched or requeued again, by whichever of the
\* ways a run is paused, killed, reactivated and resumed.
THEOREM DoneStays == Spec => DoneIsFinal
<1>1. Init => WaveRows /\ DoneInv
  BY RowsInit, DoneInit
<1>2. WaveRows /\ DoneInv /\ [Next]_vars => (WaveRows /\ DoneInv)'
  BY RowsNext, DoneNext
<1>3. WaveRows /\ DoneInv /\ [Next]_vars
        => [\A n \in Node : wave[n] = "done" => wave'[n] = "done"]_vars
  BY DoneStep
<1> QED
  BY <1>1, <1>2, <1>3, PTL DEF Spec, DoneIsFinal

-----------------------------------------------------------------------------
(* Approvals *)

\* Once the engine has stopped at a gate, whoever approves it, a command, the
\* dashboard or the command that waits, has complete answers to that gate's own
\* form before it, unless the gate was left between its two writes
\* (approve_gate, _wait_for_hitl_loop).
THEOREM InformedApproval == Spec => ApprovalIsInformed
<1>1. ASSUME Next, pc \in {"down", "await"}, gateApproved' # gateApproved, ~BetweenWrites
      PROVE  gateApproved' = answers
  <2>1. [Next]_vars
    BY <1>1
  <2>2. Approve \/ WaiterApproves \/ ApproveLegacy
    BY <1>1, <2>1, NextCases DEF GateOpen, GateAutoAccept, GatePark, GateCanary, GateFail,
       PrepareRefused, Prepare, SkipSettled, PauseExit, Dispatch, WorkDelivered, GauntletPassed,
       GauntletFailed, WaveBlocked, QuotaOrCostPause, Raised, VerifyPassed, Push, PushFailed,
       CommitFailed, RecordDone, MarkGate, WriteGateForm, AgentPasses, GateStops, Conclude,
       FileRun, Recover, Answer, RequestPause, Reactivate, Resume, AbandonWait, Crash, vars, gateVars
  <2>3. Pending # PreZero /\ gateApproved' = gatePending
    BY <1>1, <2>2, GateIds DEF Approve, WaiterApproves, ApproveLegacy, PassPending
  <2>4. Pending # None
    BY <1>1, <2>2, GateIds DEF Approve, WaiterApproves, ApproveLegacy, CanApprove
  <2>5. gatePending # None /\ form = gatePending
    BY <1>1, <2>3, <2>4 DEF Pending, BetweenWrites
  <2> QED
    BY <2>2, <2>3, <2>5 DEF Approve, WaiterApproves, ApproveLegacy, CanApprove
<1>2. [Next]_vars => [(pc \in {"down", "await"} /\ gateApproved' # gateApproved /\ ~BetweenWrites)
                        => gateApproved' = answers]_vars
  BY <1>1
<1> QED
  BY <1>2, PTL DEF Spec, ApprovalIsInformed

-----------------------------------------------------------------------------
(* The order                                                               *)

UpTo(i) == {j \in Unlisted : j <= i}

LEMMA UnlistedFacts ==
  /\ Unlisted \subseteq 1 .. Len(Topo) /\ IsFiniteSet(Unlisted)
  /\ Cardinality(Unlisted) \in Nat
  /\ \A i \in Unlisted : IsFiniteSet(UpTo(i)) /\ Cardinality(UpTo(i)) \in 1 .. Cardinality(Unlisted)
<1>1. Unlisted \subseteq 1 .. Len(Topo) /\ Len(Topo) \in Nat
  BY ConstantsAssumption DEF Unlisted
<1>2. IsFiniteSet(Unlisted) /\ Cardinality(Unlisted) \in Nat
  <2>1. IsFiniteSet(1 .. Len(Topo))
    BY <1>1, FS_Interval
  <2>2. IsFiniteSet(Unlisted)
    BY <1>1, <2>1, FS_Subset
  <2> QED
    BY <2>2, FS_CardinalityType
<1>3. ASSUME NEW i \in Unlisted
      PROVE  IsFiniteSet(UpTo(i)) /\ Cardinality(UpTo(i)) \in 1 .. Cardinality(Unlisted)
  <2>1. UpTo(i) \in SUBSET Unlisted /\ i \in UpTo(i)
    BY <1>1 DEF UpTo
  <2>2. IsFiniteSet(UpTo(i)) /\ Cardinality(UpTo(i)) <= Cardinality(Unlisted)
    BY <1>2, <2>1, FS_Subset
  <2>3. Cardinality(UpTo(i)) \in Nat /\ Cardinality(UpTo(i)) # 0
    BY <2>1, <2>2, FS_CardinalityType, FS_EmptySet
  <2> QED
    BY <1>2, <2>2, <2>3
<1> QED
  BY <1>1, <1>2, <1>3

\* How many unlisted waves there are up to one of them tells which it is.
LEMMA UpToInjective ==
  ASSUME NEW i \in Unlisted, NEW j \in Unlisted, Cardinality(UpTo(i)) = Cardinality(UpTo(j))
  PROVE  i = j
<1>1. Unlisted \subseteq Nat
  BY UnlistedFacts
<1>2. ASSUME NEW k \in Unlisted, NEW l \in Unlisted, k < l,
             Cardinality(UpTo(k)) = Cardinality(UpTo(l))
      PROVE  FALSE
  <2>1. l \in UpTo(l) /\ l \notin UpTo(k)
    BY <1>1, <1>2 DEF UpTo
  <2>2. UpTo(k) \in SUBSET UpTo(l)
    <3>1. \A x \in UpTo(k) : x \in UpTo(l)
      BY <1>1, <1>2 DEF UpTo
    <3> QED
      BY <3>1
  <2>3. IsFiniteSet(UpTo(l))
    BY UnlistedFacts
  <2> QED
    BY <1>2, <2>1, <2>2, <2>3, FS_Subset
<1> QED
  BY <1>1, <1>2

LEMMA NthFacts ==
  /\ \A k \in 1 .. Cardinality(Unlisted) : NthUnlisted(k) \in Unlisted
  /\ \A i \in Unlisted : NthUnlisted(Cardinality(UpTo(i))) = i
<1> DEFINE n == Cardinality(Unlisted)
           f == [i \in Unlisted |-> Cardinality(UpTo(i))]
<1>1. f \in Injection(Unlisted, 1 .. n)
  BY UnlistedFacts, UpToInjective DEF Injection, IsInjective
<1>2. IsFiniteSet(1 .. n) /\ Cardinality(1 .. n) = n
  BY UnlistedFacts, FS_Interval
<1>3. f \in Surjection(Unlisted, 1 .. n)
  BY <1>1, <1>2, FS_Injection
<1>4. ASSUME NEW k \in 1 .. n
      PROVE  NthUnlisted(k) \in Unlisted /\ Cardinality(UpTo(NthUnlisted(k))) = k
  <2>1. \E i \in Unlisted : Cardinality(UpTo(i)) = k
    BY <1>3 DEF Surjection
  <2> QED
    BY <2>1 DEF NthUnlisted, UpTo
<1>5. ASSUME NEW i \in Unlisted PROVE NthUnlisted(Cardinality(UpTo(i))) = i
  BY <1>4, UnlistedFacts, UpToInjective
<1> QED
  BY <1>4, <1>5

\* The serial order has every listed wave and every wave of the topological
\* order (orchestrator_serial_nodes).
LEMMA OrderFacts ==
  /\ Order \in Seq(Node) /\ Len(Order) \in Nat
  /\ \A n \in SeqSet(Listed) \cup SeqSet(Topo) : \E i \in 1 .. Len(Order) : Order[i] = n
<1> DEFINE m == Cardinality(Unlisted)
           rest == [k \in 1 .. m |-> Topo[NthUnlisted(k)]]
<1>1. \A i \in Unlisted : Topo[i] \in Node
  BY UnlistedFacts, ConstantsAssumption
<1>2. m \in Nat /\ rest \in [1 .. m -> Node]
  BY <1>1, NthFacts, UnlistedFacts
<1>3. Order = Listed \o rest /\ \A i \in Unlisted : \A k \in 1 .. m : NthUnlisted(k) = i => rest[k] = Topo[i]
  BY DEF Order
<1> HIDE DEF rest, m
<1>4. /\ Order \in Seq(Node) /\ Len(Order) = Len(Listed) + m /\ Len(Listed) \in Nat
      /\ \A i \in 1 .. Len(Listed) : Order[i] = Listed[i]
      /\ \A k \in 1 .. m : Order[Len(Listed) + k] = rest[k]
  <2>1. rest \in Seq(Node) /\ Len(rest) = m
    BY <1>2, SeqDef
  <2>2. Len(Listed) \in Nat
    BY ConstantsAssumption
  <2>3. Order \in Seq(Node) /\ Len(Order) = Len(Listed) + m
    BY <1>3, <2>1, ConstantsAssumption, ConcatProperties
  <2>4. \A i \in 1 .. Len(Listed) + m :
          Order[i] = IF i <= Len(Listed) THEN Listed[i] ELSE rest[i - Len(Listed)]
    BY <1>3, <2>1, ConstantsAssumption, ConcatProperties
  <2> QED
    BY <1>2, <2>2, <2>3, <2>4
<1>5. ASSUME NEW n \in SeqSet(Listed) PROVE \E i \in 1 .. Len(Order) : Order[i] = n
  <2>1. PICK i \in 1 .. Len(Listed) : Listed[i] = n
    BY ConstantsAssumption DEF SeqSet
  <2> QED
    BY <1>2, <1>4, <2>1
<1>6. ASSUME NEW n \in SeqSet(Topo), n \notin SeqSet(Listed)
      PROVE  \E i \in 1 .. Len(Order) : Order[i] = n
  <2>1. PICK i \in Unlisted : Topo[i] = n
    BY <1>6 DEF SeqSet, Unlisted
  <2> DEFINE k == Cardinality(UpTo(i))
  <2>2. k \in 1 .. m /\ rest[k] = n
    BY <1>3, <2>1, NthFacts, UnlistedFacts DEF m
  <2>3. Len(Listed) + k \in 1 .. Len(Order) /\ Order[Len(Listed) + k] = n
    BY <1>2, <1>4, <2>2
  <2> QED
    BY <2>3
<1> QED
  BY <1>2, <1>4, <1>5, <1>6

-----------------------------------------------------------------------------
(* Complete runs *)

\* The wave's row allows the run to be called done.
Fine(n) == wave[n] = "done" \/ (n \in Gauntlet /\ wave[n] \in {"failed", "unverified"})

\* The loop leaves behind it only waves that are fine or that it keeps as
\* blocked, but for the wave at work, which may stand in the order twice.
LoopInv ==
  /\ pos \in Nat \ {0} /\ done \subseteq Node
  /\ pc \in GateSteps \cup Executing => pos <= Len(Order)
  /\ pc \in Driving => \A n \in done : wave[n] = "done"
  /\ pc \in GateSteps => wave[Current] = "done"
  /\ pc \in Driving =>
       \A i \in 1 .. Len(Order) : i < pos =>
         \/ Order[i] \in blocked \/ Fine(Order[i])
         \/ pc \in Executing /\ Order[i] = Current
  /\ pc = "gauntlet" => Current \in Gauntlet

\* Once a run is called done no session takes a wave up again.
VerdictInv ==
  runState = "done" =>
    /\ \A n \in Node : Fine(n)
    /\ pc \notin Driving \ {"file"}

LEMMA CurrentWave ==
  ASSUME LoopInv, pc \in GateSteps \cup Executing
  PROVE  pos \in 1 .. Len(Order) /\ Current \in Node
<1>1. pos \in 1 .. Len(Order)
  BY OrderFacts DEF LoopInv
<1> QED
  BY <1>1, OrderFacts DEF Current

LEMMA LoopInit == Init => LoopInv /\ VerdictInv
BY DEF Init, LoopInv, VerdictInv, GateSteps, Executing, Driving

\* Leaving a wave behind that is fine or kept as blocked.
LEMMA AdvanceLoop ==
  ASSUME LoopInv, pc \in GateSteps \cup Executing, Advance, done' \subseteq Node,
         \A n \in done' : wave'[n] = "done", blocked \subseteq blocked',
         \A n \in Node \ {Current} : wave'[n] = wave[n],
         NEW m \in Node, m = Current,
         \/ m \in blocked' \/ wave'[m] = "done"
         \/ m \in Gauntlet /\ wave'[m] \in {"failed", "unverified"}
  PROVE  LoopInv'
<1> USE DEF LoopInv, Driving, GateSteps, Executing
<1>1. /\ pos \in 1 .. Len(Order) /\ pc' = "pick" /\ pos' = pos + 1
      /\ Len(Order) \in Nat /\ \A i \in 1 .. Len(Order) : Order[i] \in Node
  BY CurrentWave, OrderFacts DEF Advance
<1>2. ASSUME NEW i \in 1 .. Len(Order), i < pos'
      PROVE  Order[i] \in blocked' \/ Fine(Order[i])'
  <2>1. CASE Order[i] = m
    BY <2>1 DEF Fine
  <2>2. CASE Order[i] # m
    <3>1. i < pos /\ Order[i] \in Node \ {Current}
      BY <1>1, <1>2, <2>2 DEF Current
    <3>2. Order[i] \in blocked \/ Fine(Order[i])
      BY <1>1, <2>2, <3>1
    <3> QED
      BY <3>1, <3>2 DEF Fine
  <2> QED
    BY <2>1, <2>2
<1> QED
  BY <1>1, <1>2

LEMMA LoopNext ==
  ASSUME WaveRows, DoneInv, LoopInv, [Next]_vars
  PROVE  LoopInv'
<1> USE DEF LoopInv, Driving, GateSteps, Executing
<1>0. Len(Order) \in Nat /\ Order \in Seq(Node) /\ \A i \in 1 .. Len(Order) : Order[i] \in Node
  BY OrderFacts
<1>1. CASE pc' \notin Driving /\ pos' \in Nat \ {0} /\ done' \subseteq Node
  BY <1>1
<1>2. CASE UNCHANGED <<wave, done, blocked, pos, pc>>
  BY <1>2 DEF Fine, Current
<1>3. CASE Prepare
  <2>1. /\ pc' = "pick" /\ pos' = 1 /\ done' = InState({"done"}) \cup Cleared
        /\ \A n \in Node : wave'[n] = IF n \in Cleared THEN "done" ELSE Requeue(InState(StaleStates))[n]
    BY <1>3 DEF Prepare
  <2>2. done' \subseteq Node
    BY <2>1, ConstantsAssumption DEF InState, Cleared
  <2>3. \A n \in done' : wave'[n] = "done"
    BY <2>1, <2>2 DEF InState, Requeue, StaleStates
  <2> QED
    BY <2>1, <2>2, <2>3
<1>4. CASE SkipSettled
  <2>1. /\ pc = "pick" /\ pos <= Len(Order) /\ Current \in done \cup blocked
        /\ pc' = "pick" /\ pos' = pos + 1 /\ UNCHANGED <<wave, done, blocked>>
    BY <1>4 DEF SkipSettled, AtWave, Advance, ledgerVars
  <2>2. Current \in blocked \/ Fine(Current)
    BY <2>1 DEF Fine
  <2>3. \A i \in 1 .. Len(Order) : i < pos' => i < pos \/ Order[i] = Current
    BY <1>0, <2>1 DEF Current
  <2>4. \A i \in 1 .. Len(Order) : i < pos' => Order[i] \in blocked \/ Fine(Order[i])
    BY <2>1, <2>2, <2>3
  <2> QED
    BY <1>0, <2>1, <2>4 DEF Fine
<1>5. CASE Dispatch
  <2>1. /\ pc = "pick" /\ pos <= Len(Order) /\ Current \notin done
        /\ pc' = "work" /\ wave' = [wave EXCEPT ![Current] = "running"]
        /\ UNCHANGED <<pos, done, blocked>>
    BY <1>5 DEF Dispatch, AtWave
  <2>2. \A n \in Node \ {Current} : wave'[n] = wave[n]
    BY <2>1 DEF WaveRows
  <2> QED
    BY <1>0, <2>1, <2>2 DEF Fine, Current
<1>6. CASE WorkDelivered \/ GauntletPassed
  <2>1. /\ pc \in Executing /\ pc' \in Executing /\ (pc' = "gauntlet" => Current \in Gauntlet) /\ \A n \in Node \ {Current} : wave'[n] = wave[n]
        /\ UNCHANGED <<pos, done, blocked>>
    BY <1>6 DEF WorkDelivered, GauntletPassed, SetWave, WaveRows
  <2>2. Current \notin done
    BY <2>1 DEF DoneInv
  <2> QED
    BY <1>0, <2>1, <2>2 DEF Fine, Current
<1>7. CASE GauntletFailed \/ WaveBlocked \/ CommitFailed
  <2>1. /\ pc \in Executing /\ pc' = "pick" /\ pos' = pos + 1 /\ done' = done
        /\ \A n \in Node \ {Current} : wave'[n] = wave[n]
        /\ blocked \subseteq blocked'
    BY <1>7 DEF GauntletFailed, WaveBlocked, CommitFailed, SetWave, Advance, WaveRows
  <2>2. Current \notin done /\ Current \in Node /\ pos \in 1 .. Len(Order)
    BY <2>1, CurrentWave DEF DoneInv
  <2>3. PICK m \in Node : m = Current
    BY <2>2
  <2>4. m \in blocked' \/ (m \in Gauntlet /\ wave'[m] \in {"failed", "unverified"})
    <3>1. CASE WaveBlocked \/ CommitFailed
      BY <2>3, <3>1 DEF WaveBlocked, CommitFailed
    <3>2. CASE GauntletFailed
      BY <2>2, <2>3, <3>2 DEF GauntletFailed, SetWave, WaveRows
    <3> QED
      BY <1>7, <3>1, <3>2
  <2>5. Advance /\ \A n \in done' : wave'[n] = "done"
    BY <1>7, <2>1, <2>2 DEF GauntletFailed, WaveBlocked, CommitFailed
  <2> QED
    BY <2>1, <2>3, <2>4, <2>5, AdvanceLoop
<1>8. CASE VerifyPassed \/ Push
  BY <1>8 DEF VerifyPassed, Push, ledgerVars, Fine, Current
<1>9. CASE RecordDone
  <2>1. /\ pc = "record" /\ wave' = [wave EXCEPT ![Current] = "done"]
        /\ done' = done \cup {Current} /\ UNCHANGED blocked
    BY <1>9 DEF RecordDone, SetWave
  <2>2. PICK m \in Node : m = Current
    BY <2>1, CurrentWave
  <2>3. wave'[m] = "done" /\ \A n \in Node \ {Current} : wave'[n] = wave[n]
    BY <2>1, <2>2 DEF WaveRows
  <2>4. done' \subseteq Node /\ \A n \in done' : wave'[n] = "done"
    BY <2>1, <2>2, <2>3
  <2>5. CASE m \in GateWave
    <3>1. pc' = "mark" /\ pos' = pos
      BY <1>9, <2>2, <2>5 DEF RecordDone
    <3>2. ASSUME NEW i \in 1 .. Len(Order), i < pos
          PROVE  Order[i] \in blocked \/ Fine(Order[i])'
      <4>1. CASE Order[i] = m
        BY <2>3, <4>1 DEF Fine
      <4>2. CASE Order[i] # m
        BY <1>0, <2>1, <2>2, <2>3, <3>2, <4>2 DEF Fine
      <4> QED
        BY <4>1, <4>2
    <3> QED
      BY <2>1, <2>2, <2>3, <2>4, <3>1, <3>2 DEF Current
  <2>6. CASE m \notin GateWave
    <3>1. Advance
      BY <1>9, <2>2, <2>6 DEF RecordDone
    <3> QED
      BY <2>1, <2>2, <2>3, <2>4, <3>1, AdvanceLoop
  <2> QED
    BY <2>5, <2>6
<1>10. CASE MarkGate \/ WriteGateForm
  BY <1>10 DEF MarkGate, WriteGateForm, ledgerVars, Fine, Current
<1>11. CASE AgentPasses
  <2>1. pc = "verdict" /\ Advance /\ UNCHANGED <<wave, done, blocked>>
    BY <1>11 DEF AgentPasses, ledgerVars
  <2>2. PICK m \in Node : m = Current
    BY <2>1, CurrentWave
  <2> QED
    BY <2>1, <2>2, AdvanceLoop
<1>12. CASE Conclude
  <2>1. /\ pc = "pick" /\ pos > Len(Order) /\ pc' = "file" /\ UNCHANGED <<wave, done, blocked, pos>>
    BY <1>12 DEF Conclude
  <2> QED
    BY <2>1 DEF Fine
<1>13. CASE \/ GatePark \/ GateCanary \/ GateFail \/ PrepareRefused \/ PauseExit
           \/ QuotaOrCostPause \/ Raised \/ PushFailed \/ GateStops \/ FileRun
           \/ AbandonWait \/ Crash
  BY <1>1, <1>13 DEF GatePark, GateCanary, GateFail,
     PrepareRefused, PauseExit, QuotaOrCostPause, Raised, PushFailed, GateStops,
     FileRun, AbandonWait, Crash, CommandEnds, Return, EngineGone
<1>14. CASE \/ GateOpen \/ GateAutoAccept \/ Recover \/ WaiterApproves
           \/ Reactivate \/ Resume
  BY <1>1, <1>14 DEF GateOpen, GateAutoAccept, Recover, WaiterApproves,
     Reactivate, Resume
<1>15. CASE \/ Answer \/ Approve \/ ApproveLegacy \/ RequestPause
            \/ UNCHANGED vars
  BY <1>2, <1>15 DEF Answer, Approve, ApproveLegacy, RequestPause, vars,
     ledgerVars, driverVars
<1> QED
  BY <1>3, <1>4, <1>5, <1>6, <1>7, <1>8, <1>9, <1>10, <1>11, <1>12, <1>13, <1>14, <1>15, NextCases

LEMMA VerdictNext ==
  ASSUME Node \subseteq SeqSet(Listed) \cup SeqSet(Topo),
         WaveRows, DoneInv, LoopInv, FileInv, VerdictInv, [Next]_vars
  PROVE  VerdictInv'
<1> USE DEF VerdictInv, Driving, GateSteps, Executing
<1>1. CASE runState' # "done"
  BY <1>1
<1>2. CASE UNCHANGED <<runState, wave, pc>>
  BY <1>2 DEF Fine
<1>3. CASE Conclude
  <2>1. pc = "pick" /\ pos > Len(Order) /\ pc' = "file" /\ wave' = wave
        /\ (runState' = "done" => blocked = {})
    BY <1>3 DEF Conclude
  <2>2. CASE blocked = {}
    <3>1. ASSUME NEW n \in Node PROVE Fine(n)
      <4>1. PICK i \in 1 .. Len(Order) : Order[i] = n
        BY OrderFacts
      <4>2. i < pos
        BY <2>1, <4>1, OrderFacts DEF LoopInv
      <4> QED
        BY <2>1, <2>2, <4>1, <4>2 DEF LoopInv
    <3> QED
      BY <2>1, <3>1 DEF Fine
  <2> QED
    BY <2>1, <2>2
<1>4. CASE runState = "done" /\ UNCHANGED runState /\ wave' = wave /\ pc' \notin Driving \ {"file"}
  BY <1>4 DEF Fine
<1>5. CASE PrepareRefused \/ Resume
  <2>1. /\ UNCHANGED runState /\ pc' \notin Driving
        /\ \E S \in SUBSET Node : wave' = Requeue(S) /\ \A n \in S : wave[n] \in StaleStates \cup {"blocked"}
    BY <1>5 DEF PrepareRefused, Resume, CommandEnds, InState
  <2> QED
    BY <2>1 DEF Requeue, StaleStates, Fine
<1>6. CASE Prepare \/ Recover
  BY <1>1, <1>6 DEF Prepare, Recover
<1>7. CASE \/ SkipSettled \/ PauseExit \/ Dispatch \/ WorkDelivered \/ GauntletPassed
           \/ GauntletFailed \/ WaveBlocked \/ QuotaOrCostPause \/ Raised \/ VerifyPassed
           \/ Push \/ PushFailed \/ CommitFailed \/ RecordDone \/ MarkGate \/ WriteGateForm
           \/ AgentPasses \/ GateStops
  <2>1. pc \in Driving \ {"file"} /\ runState' \in {runState, "paused"}
    BY <1>7 DEF SkipSettled, AtWave, PauseExit, Dispatch, WorkDelivered, GauntletPassed,
       GauntletFailed, WaveBlocked, QuotaOrCostPause, Raised, VerifyPassed, Push, PushFailed,
       CommitFailed, RecordDone, MarkGate, WriteGateForm, AgentPasses, GateStops, ledgerVars
  <2> QED
    BY <1>1, <2>1
<1>8. CASE \/ GateOpen \/ GateAutoAccept \/ GatePark \/ GateCanary \/ GateFail \/ FileRun
           \/ AbandonWait \/ Crash \/ WaiterApproves \/ Reactivate
  <2>1. /\ wave' = wave /\ pc' \notin Driving
        /\ runState' = runState \/ (runState' \in {"paused", "failed"} /\ runState' # "done")
    BY <1>8 DEF GateOpen, GateAutoAccept, GatePark, GateCanary, GateFail, FileRun, AbandonWait,
       Crash, WaiterApproves, Reactivate, TryRun, CommandEnds, Return, ledgerVars
  <2> QED
    BY <1>1, <1>4, <2>1
<1>9. CASE Answer \/ Approve \/ ApproveLegacy \/ RequestPause \/ UNCHANGED vars
  BY <1>2, <1>9 DEF Answer, Approve, ApproveLegacy, RequestPause, vars, ledgerVars, driverVars
<1> QED
  BY <1>3, <1>5, <1>6, <1>7, <1>8, <1>9, NextCases

-----------------------------------------------------------------------------
(* Types *)

\* A gate's steps are taken for a wave that has one.
GateTypes ==
  /\ gatePending \in GateWave \cup {None}
  /\ gateApproved \in GateWave \cup {None}
  /\ form \in GateWave \cup {PreZero, None}
  /\ answers \in GateWave \cup {PreZero, None}
  /\ reviewed \subseteq GateWave
  /\ pc \in GateSteps => Current \in GateWave

LEMMA GateTypesNext == GateTypes /\ [Next]_vars => GateTypes'
<1> SUFFICES ASSUME GateTypes, [Next]_vars PROVE GateTypes'
  OBVIOUS
<1> USE DEF GateTypes
<1>1. CASE MarkGate \/ WriteGateForm
  BY <1>1 DEF MarkGate, WriteGateForm, GateSteps, Current, dirVars
<1>2. CASE AgentPasses
  BY <1>2 DEF AgentPasses, Advance, GateSteps
<1>3. CASE GateStops
  BY <1>3 DEF GateStops, Return, gateVars, GateSteps
<1>4. CASE GatePark
  BY <1>4 DEF GatePark, Return, GateSteps
<1>5. CASE WaiterApproves \/ Approve \/ ApproveLegacy
  <2>1. Pending \notin GateWave \cup {PreZero, None} => FALSE
    BY DEF Pending
  <2>2. \/ PassPending /\ Pending # None
        \/ UNCHANGED <<gatePending, gateApproved, reviewed>>
    BY <1>5, GateIds DEF WaiterApproves, Approve, ApproveLegacy, CanApprove
  <2>3. /\ UNCHANGED <<form, answers, pos>>
        /\ pc' \in {pc, "gate"}
    BY <1>5 DEF WaiterApproves, Approve, ApproveLegacy, driverVars
  <2>4. /\ gatePending' \in GateWave \cup {None}
        /\ gateApproved' \in GateWave \cup {None}
        /\ reviewed' \subseteq GateWave
    BY <2>1, <2>2 DEF PassPending, Pending
  <2> QED
    BY <2>3, <2>4 DEF GateSteps, Current
<1>6. CASE Answer
  BY <1>6 DEF Answer, driverVars, Current
<1>7. CASE RecordDone
  BY <1>7 DEF RecordDone, gateVars, Advance, GateSteps, Current
<1>8. CASE UNCHANGED gateVars /\ pc' \notin GateSteps
  BY <1>8 DEF gateVars
<1>9. CASE RequestPause \/ UNCHANGED vars
  BY <1>9 DEF RequestPause, vars, gateVars, driverVars, Current
<1>10. CASE GateOpen \/ GateAutoAccept \/ GateCanary \/ GateFail \/ PrepareRefused \/ Prepare
            \/ SkipSettled \/ PauseExit \/ Dispatch \/ WorkDelivered \/ GauntletPassed
            \/ GauntletFailed \/ WaveBlocked \/ QuotaOrCostPause \/ Raised
  BY <1>8, <1>10 DEF GateOpen, GateAutoAccept, GateCanary, GateFail, PrepareRefused, Prepare,
     SkipSettled, PauseExit, Dispatch, WorkDelivered, GauntletPassed, GauntletFailed, WaveBlocked,
     QuotaOrCostPause, Raised, Return, CommandEnds, Advance, GateSteps, gateVars
<1>11. CASE VerifyPassed \/ Push \/ PushFailed \/ CommitFailed \/ Conclude \/ FileRun \/ Recover
            \/ Reactivate \/ Resume \/ AbandonWait \/ Crash
  BY <1>8, <1>11 DEF VerifyPassed, Push, PushFailed, CommitFailed, Conclude, FileRun, Recover,
     Reactivate, Resume, AbandonWait, Crash, Return, CommandEnds, Advance, GateSteps, gateVars
<1> QED
  BY <1>1, <1>2, <1>3, <1>4, <1>5, <1>6, <1>7, <1>9, <1>10, <1>11, NextCases

\* The rest of the type invariant.
PlaceTypes ==
  /\ runState \in RunStates
  /\ pushed \subseteq Node
  /\ loc \in {"processing", "processed", "failed"}
  /\ approved \in BOOLEAN
  /\ pauseMarker \in BOOLEAN
  /\ pc \in {"down", "recover", "gate", "prepare", "pick", "file", "await"}
              \cup Executing \cup GateSteps
  /\ pos \in 1 .. Len(Order) + 1
  /\ blocked \subseteq Node

LEMMA PlaceTypesNext == LoopInv /\ PlaceTypes /\ [Next]_vars => PlaceTypes'
<1> SUFFICES ASSUME LoopInv, PlaceTypes, [Next]_vars PROVE PlaceTypes'
  OBVIOUS
<1> USE DEF PlaceTypes, RunStates, Executing, GateSteps
<1>1. Len(Order) \in Nat
  BY OrderFacts
<1>2. pc \in Executing \cup GateSteps => Current \in Node
  BY CurrentWave
<1>3. pc \in Executing \cup GateSteps \/ AtWave => pos \in 1 .. Len(Order)
  BY <1>1 DEF LoopInv, AtWave
<1>4. CASE GateOpen \/ GateAutoAccept
  BY <1>4 DEF GateOpen, GateAutoAccept, ledgerVars, dirVars
<1>5. CASE GatePark \/ GateCanary \/ GateFail
  BY <1>1, <1>5 DEF GatePark, GateCanary, GateFail, TryRun, Return, CommandEnds, EngineGone, dirVars
<1>6. CASE PrepareRefused \/ Prepare
  BY <1>1, <1>6 DEF PrepareRefused, Prepare, CommandEnds, EngineGone, dirVars, InState
<1>7. CASE SkipSettled \/ PauseExit \/ Dispatch
  BY <1>1, <1>3, <1>7 DEF SkipSettled, PauseExit, Dispatch, AtWave, Advance, Return, EngineGone,
     ledgerVars, dirVars
<1>8. CASE WorkDelivered \/ GauntletPassed \/ GauntletFailed \/ WaveBlocked
  BY <1>1, <1>2, <1>3, <1>8 DEF WorkDelivered, GauntletPassed, GauntletFailed, WaveBlocked, Advance,
     dirVars
<1>9. CASE QuotaOrCostPause \/ Raised \/ VerifyPassed
  BY <1>1, <1>9 DEF QuotaOrCostPause, Raised, VerifyPassed, Return, CommandEnds, EngineGone,
     ledgerVars, dirVars
<1>10. CASE Push \/ PushFailed \/ CommitFailed \/ RecordDone
  BY <1>1, <1>2, <1>3, <1>10 DEF Push, PushFailed, CommitFailed, RecordDone, Return, EngineGone,
     Advance, dirVars
<1>11. CASE MarkGate \/ WriteGateForm \/ AgentPasses \/ GateStops
  BY <1>1, <1>3, <1>11 DEF MarkGate, WriteGateForm, AgentPasses, GateStops, Return, EngineGone,
     Advance, ledgerVars, dirVars
<1>12. CASE Conclude \/ FileRun \/ Recover
  BY <1>1, <1>12 DEF Conclude, FileRun, Recover, CommandEnds, EngineGone, ledgerVars, dirVars
<1>13. CASE WaiterApproves \/ Approve \/ ApproveLegacy
  BY <1>13 DEF WaiterApproves, Approve, ApproveLegacy, PassPending, ledgerVars, driverVars
<1>14. CASE Answer \/ RequestPause \/ Reactivate \/ Resume
  BY <1>14 DEF Answer, RequestPause, Reactivate, Resume, ledgerVars, dirVars, driverVars
<1>15. CASE AbandonWait \/ Crash
  BY <1>1, <1>15 DEF AbandonWait, Crash, CommandEnds, EngineGone, ledgerVars, dirVars
<1>16. CASE UNCHANGED vars
  BY <1>16 DEF vars, ledgerVars, dirVars, driverVars
<1> QED
  BY <1>4, <1>5, <1>6, <1>7, <1>8, <1>9, <1>10, <1>11, <1>12, <1>13, <1>14, <1>15, <1>16, NextCases

\* Every variable of a serial run keeps its type: markers, forms and approvals
\* name waves that have a review gate, and the loop never leaves the serial order
\* by more than its end (_drive_orchestrator_serial, _handle_review_gate).
THEOREM TypeCorrect == Spec => []TypeOK
<1> DEFINE AllInv == WaveRows /\ DoneInv /\ LoopInv /\ GateTypes /\ PlaceTypes
<1>1. Init => AllInv
  <2> SUFFICES ASSUME Init PROVE GateTypes /\ PlaceTypes
    BY RowsInit, DoneInit, LoopInit
  <2>1. pos = 1 /\ 1 \in 1 .. Len(Order) + 1
    BY OrderFacts DEF Init
  <2> QED
    BY <2>1 DEF Init, GateTypes, PlaceTypes, GateSteps, RunStates
<1>2. AllInv /\ [Next]_vars => AllInv'
  BY RowsNext, DoneNext, LoopNext, GateTypesNext, PlaceTypesNext
<1>3. AllInv => TypeOK
  BY DEF WaveRows, LoopInv, GateTypes, PlaceTypes, TypeOK
<1> QED
  BY <1>1, <1>2, <1>3, PTL DEF Spec

\* A serial run that is called done or filed as done has every wave done, but for
\* those whose gauntlet failed: the loop passes over none, and no later session
\* takes one up.  The serial order has every wave if the dependencies have no
\* cycle; _topological_sort_nodes drops the waves on one.
THEOREM NoShamGreen ==
  ASSUME Node \subseteq SeqSet(Listed) \cup SeqSet(Topo)
  PROVE  Spec => []DoneRunIsComplete
<1> DEFINE AllInv == WaveRows /\ DoneInv /\ LoopInv /\ FileInv /\ VerdictInv
<1>1. Init => AllInv
  BY RowsInit, DoneInit, LoopInit, FileInit
<1>2. AllInv /\ [Next]_vars => AllInv'
  BY RowsNext, DoneNext, LoopNext, FileNext, VerdictNext
<1>3. AllInv => DoneRunIsComplete
  BY DEF VerdictInv, FileInv, FiledByVerdict, DoneRunIsComplete, Fine
<1> QED
  BY <1>1, <1>2, <1>3, PTL DEF Spec
=============================================================================
