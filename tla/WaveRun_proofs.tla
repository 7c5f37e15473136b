--------------------------- MODULE WaveRun_proofs ---------------------------
(***************************************************************************)
(* WaveRun's safety properties hold for every graph, batch list, retry cap *)
(* and environment.  IInv (module WaveRunInv) is inductive; the lemmas     *)
(* below show one group of its conjuncts each, in the order in which they  *)
(* depend on one another.                                                  *)
(***************************************************************************)
EXTENDS WaveRunInv, TLAPS

-----------------------------------------------------------------------------
(* The nondeterministic helpers, once: what they do to the types.          *)

\* end_attempt may only push the run over its budget.
LEMMA EndAttemptType ==
  ASSUME overBudget \in BOOLEAN, EndAttempt
  PROVE  overBudget' \in BOOLEAN
<1>1. overBudget' \in {overBudget, TRUE} \/ overBudget' \in {overBudget}
  BY Zenon DEF EndAttempt
<1> QED
  BY <1>1, Zenon

\* The no-progress flag of one coroutine may be raised.
LEMMA NoteProgressType ==
  ASSUME stuck \in [Node -> BOOLEAN], NEW n \in Node, NoteProgress(n)
  PROVE  stuck' \in [Node -> BOOLEAN]
<1>1. stuck' \in {stuck, [stuck EXCEPT ![n] = TRUE]} \/ stuck' \in {stuck}
  BY Zenon DEF NoteProgress
<1>2. [stuck EXCEPT ![n] = TRUE] \in [Node -> BOOLEAN]
  OBVIOUS
<1> QED
  BY <1>1, <1>2, Zenon

\* Resume requeues a set of waves, clears their attempts and may raise the
\* budget.
LEMMA RestartType ==
  ASSUME TypeOK, NEW S \in SUBSET Node, RestartWaves(S)
  PROVE  /\ wave' = [n \in Node |-> IF n \in S THEN "queued" ELSE wave[n]]
         /\ attempts' = [n \in Node |-> IF n \in S THEN 0 ELSE attempts[n]]
         /\ overBudget' \in BOOLEAN
         /\ wave' \in [Node -> WaveStates]
         /\ attempts' \in [Node -> 0 .. MaxAttempts]
<1>1. wave' = [n \in Node |-> IF n \in S THEN "queued" ELSE wave[n]]
  BY Zenon DEF RestartWaves, Requeue
<1>2. attempts' = [n \in Node |-> IF n \in S THEN 0 ELSE attempts[n]]
  BY Zenon DEF RestartWaves
<1>3. overBudget' \in BOOLEAN
  BY Zenon DEF RestartWaves, TypeOK
<1>4. wave' \in [Node -> WaveStates]
  BY <1>1, SMT DEF TypeOK, WaveStates
<1>5. attempts' \in [Node -> 0 .. MaxAttempts]
  BY <1>2, ConstantsAssumption, SMT DEF TypeOK
<1> QED
  BY <1>1, <1>2, <1>3, <1>4, <1>5

\* What the resume command does to the rows: only stale and blocked ones are
\* requeued, and a finished wave keeps its attempts.
LEMMA RestartedRows ==
  ASSUME TypeOK, Recover \/ Resume
  PROVE  /\ \A n \in Node :
              \/ wave'[n] = wave[n] /\ attempts'[n] = attempts[n]
              \/ wave'[n] = "queued" /\ wave[n] \in StaleStates \cup {"blocked"}
         /\ \A n \in Node : wave[n] = "done" =>
              wave'[n] = "done" /\ attempts'[n] = attempts[n]
         /\ Resume => \A n \in Node : wave'[n] \notin StaleStates
<1>1. CASE Recover
  <2>1. InState({"blocked"}) \in SUBSET Node
    BY DEF InState
  <2>2. ~Resume
    BY <1>1, Zenon DEF Recover, Resume
  <2> QED
    BY <1>1, <2>1, <2>2, RestartType, SMT DEF Recover, InState, StaleStates
<1>2. CASE Resume
  <2>1. InState(StaleStates \cup {"blocked"}) \in SUBSET Node
    BY DEF InState
  <2> QED
    BY <1>2, <2>1, RestartType, SMT DEF Resume, InState, StaleStates
<1> QED
  BY <1>1, <1>2

\* What the position at which a coroutine ended says of its wave's row.
LEMMA FinishedRows ==
  ASSUME Rows, NEW n \in flight, at[n] \in Finished
  PROVE  /\ wave[n] \notin StaleStates
         /\ at[n] = "done" <=> wave[n] = "done"
         /\ wave[n] = "blocked" => at[n] = "blocked"
<1>1. RowAt(at[n], wave[n], used[n])
  BY DEF Rows
<1>2. at[n] \in {"done", "blocked", "quality", "quota", "cost"}
  BY DEF Finished
<1> QED
  BY <1>1, <1>2, SMT DEF RowAt, StaleStates

\* When the engine process ends nothing is left of its memory.
LEMMA SessionOver ==
  ASSUME EndSession
  PROVE  pc' = "down" /\ flight' = {} /\ done' = {} /\ blocked' = {}
BY DEF EndSession, NoCoroutines

\* A batch is a set of waves of the run, all of them batch waves.
LEMMA BatchesInNode ==
  \A i \in 1 .. Len(Batches) : Batches[i] \subseteq Node /\ Batches[i] \subseteq BatchNodes
BY ConstantsAssumption DEF BatchNodes

-----------------------------------------------------------------------------

\* The types, the shape of the coroutines and the retry budget: the budget is
\* needed for the types (attempts_used never leaves 0 .. MaxAttempts).
LEMMA TypeStep ==
  ASSUME TypeOK, Shape, Budget, [Next]_vars
  PROVE  TypeOK' /\ Shape' /\ Budget'
<1> USE ConstantsAssumption
<1> USE DEF vars, ledgerVars, dirVars, driverVars, nodeVars, nodeFrame
<1> USE DEF TypeOK, RunStates, WaveStates, Working, Finished, Shape, Draining,
           Budget, RetryBudgetAgrees
<1>1. CASE Recover
  BY <1>1, RestartType, InState({"blocked"}) \in SUBSET Node, SMT
  DEF Recover, CanMoveRun, TerminalRunStates, InState
<1>2. CASE GateOpen
  BY <1>2, SMT
  DEF GateOpen
<1>3. CASE GateAutoAccept
  BY <1>3, SMT
  DEF GateAutoAccept
<1>4. CASE GatePark
  BY <1>4, SMT
  DEF GatePark, TryRun, CanMoveRun, TerminalRunStates, EndSession, NoCoroutines
<1>5. CASE GateFail
  BY <1>5, SMT
  DEF GateFail, TryRun, CanMoveRun, TerminalRunStates, EndSession, NoCoroutines
<1>6. CASE PrepareRefused
  BY <1>6, SMT
  DEF PrepareRefused, CanMoveRun, TerminalRunStates, Requeue, InState,
      StaleStates, EndSession, NoCoroutines
<1>7. CASE Prepare
  BY <1>7, SMT
  DEF Prepare, CanMoveRun, TerminalRunStates, Cleared, Requeue, InState,
      StaleStates
<1>8. CASE BatchDrained
  BY <1>8, SMT
  DEF BatchDrained, AtRound, Undrained
<1>9. CASE Deadlocked
  BY <1>9, SMTT(30)
  DEF Deadlocked, AtRound, Undrained, Ready
<1>10. CASE PauseExit
  BY <1>10, SMT
  DEF PauseExit, AtRound, Ready, Undrained, EndSession, NoCoroutines
<1>11. CASE ExternalExit
  BY <1>11, SMT
  DEF ExternalExit, AtRound, Ready, Undrained, EndSession, NoCoroutines
<1>12. CASE DeadlineExit
  BY <1>12, SMT
  DEF DeadlineExit, AtRound, Ready, Undrained, EndSession, NoCoroutines
<1>13. CASE Dispatch
  BY <1>13, SMT
  DEF Dispatch, AtRound, Ready, Undrained, IsGreedy
<1>14. CASE RoundOver
  BY <1>14, SMT
  DEF RoundOver, AllEnded, Ended, NoCoroutines
<1>15. CASE RoundPaused
  BY <1>15, SMT
  DEF RoundPaused, AllEnded, Ended, EndSession, NoCoroutines
<1>16. CASE Conclude
  BY <1>16, SMT
  DEF Conclude
<1>17. CASE FileRun
  BY <1>17, SMT
  DEF FileRun, EndSession, NoCoroutines
<1>18. CASE RequestPause
  BY <1>18, SMT
  DEF RequestPause
<1>19. CASE Approve
  BY <1>19, SMT
  DEF Approve
<1>20. CASE Reactivate
  BY <1>20, SMT
  DEF Reactivate
<1>21. CASE Resume
  BY <1>21, RestartType, InState(StaleStates \cup {"blocked"}) \in SUBSET Node,
     SMT
  DEF Resume, InState, StaleStates
<1>22. CASE Crash
  BY <1>22, SMT
  DEF Crash, EndSession, NoCoroutines
<1>23. CASE Interrupt
  BY <1>23, SMT
  DEF Interrupt, Requeue, InState, StaleStates, EndSession, NoCoroutines
<1>24. CASE Completed
  BY <1>24, SMT
  DEF Completed, vars
<1>25. ASSUME NEW n \in Node, NodeStep(n)
      PROVE  TypeOK' /\ Shape' /\ Budget'
  <2>1. CASE StopForCost(n)
    BY <2>1, SMT
    DEF StopForCost, InLoop, Return
  <2>2. CASE EscalateStuck(n)
    BY <2>2, SMT
    DEF EscalateStuck, InLoop, Return
  <2>3. CASE Exhaust(n)
    BY <2>3, SMT
    DEF Exhaust, InLoop, Return
  <2>4. CASE BeginAttempt(n)
    BY <2>4, SMT
    DEF BeginAttempt, InLoop
  <2>5. CASE DispatchRaised(n)
    BY <2>5, EndAttemptType, SMT
    DEF DispatchRaised, HasReturned, Return
  <2>6. CASE InfraFailure(n)
    BY <2>6, EndAttemptType, SMT
    DEF InfraFailure, HasReturned
  <2>7. CASE CooldownOver(n)
    BY <2>7, SMT
    DEF CooldownOver
  <2>8. CASE InfraCap(n)
    BY <2>8, EndAttemptType, SMT
    DEF InfraCap, HasReturned, Retry
  <2>9. CASE CostAfterDispatch(n)
    BY <2>9, EndAttemptType, SMT
    DEF CostAfterDispatch, HasReturned, Return
  <2>10. CASE AttemptFailed(n)
    BY <2>10, EndAttemptType, NoteProgressType, SMT
    DEF AttemptFailed, HasReturned, Retry
  <2>11. CASE QuotaExhausted(n)
    BY <2>11, EndAttemptType, SMT
    DEF QuotaExhausted, HasReturned, Return
  <2>12. CASE WorkDelivered(n)
    BY <2>12, NoteProgressType, SMT
    DEF WorkDelivered, HasReturned
  <2>13. CASE GauntletPassed(n)
    BY <2>13, SMT
    DEF GauntletPassed, InGauntlet
  <2>14. CASE GauntletFailed(n)
    BY <2>14, EndAttemptType, SMT
    DEF GauntletFailed, InGauntlet, Return
  <2>15. CASE VerifyPassed(n)
    BY <2>15, EndAttemptType, SMT
    DEF VerifyPassed, InVerify, Return
  <2>16. CASE VerifyFailed(n)
    BY <2>16, EndAttemptType, SMT
    DEF VerifyFailed, InVerify, Retry
  <2>17. CASE CoroutineRaised(n)
    BY <2>17, SMT
    DEF CoroutineRaised, Return, StaleStates
  <2> QED
    BY <1>25, <2>1, <2>2, <2>3, <2>4, <2>5, <2>6, <2>7, <2>8, <2>9,
       <2>10, <2>11, <2>12, <2>13, <2>14, <2>15, <2>16, <2>17
    DEF NodeStep
<1>26. CASE UNCHANGED vars
  BY <1>26
<1> QED
  BY <1>1, <1>2, <1>3, <1>4, <1>5, <1>6, <1>7, <1>8, <1>9, <1>10,
     <1>11, <1>12, <1>13, <1>14, <1>15, <1>16, <1>17, <1>18, <1>19, <1>20,
     <1>21, <1>22, <1>23, <1>24, <1>25, <1>26
  DEF Next, DriverStep, GateStep, OperatorStep

\* A coroutine's step touches its own wave and nothing of the driver.
LEMMA NodeFrame ==
  ASSUME TypeOK, NEW n \in Node, NodeStep(n)
  PROVE  /\ pc = "gather" /\ n \in flight /\ at[n] \in Working
         /\ UNCHANGED <<runState, loc, approved, pc, batch, done, blocked, flight>>
         /\ \A m \in Node \ {n} : 
              /\ wave'[m] = wave[m] /\ attempts'[m] = attempts[m]
              /\ at'[m] = at[m]
<1> USE DEF ledgerVars, dirVars, driverVars, nodeVars, nodeFrame, TypeOK, Working
<1>1. CASE StopForCost(n)
  BY <1>1, SMT
  DEF StopForCost, InLoop, Return
<1>2. CASE EscalateStuck(n)
  BY <1>2, SMT
  DEF EscalateStuck, InLoop, Return
<1>3. CASE Exhaust(n)
  BY <1>3, SMT
  DEF Exhaust, InLoop, Return
<1>4. CASE BeginAttempt(n)
  BY <1>4, SMT
  DEF BeginAttempt, InLoop
<1>5. CASE DispatchRaised(n)
  BY <1>5, SMT
  DEF DispatchRaised, HasReturned, Return
<1>6. CASE InfraFailure(n)
  BY <1>6, SMT
  DEF InfraFailure, HasReturned
<1>7. CASE CooldownOver(n)
  BY <1>7, SMT
  DEF CooldownOver
<1>8. CASE InfraCap(n)
  BY <1>8, SMT
  DEF InfraCap, HasReturned, Retry
<1>9. CASE CostAfterDispatch(n)
  BY <1>9, SMT
  DEF CostAfterDispatch, HasReturned, Return
<1>10. CASE AttemptFailed(n)
  BY <1>10, SMT
  DEF AttemptFailed, HasReturned, Retry
<1>11. CASE QuotaExhausted(n)
  BY <1>11, SMT
  DEF QuotaExhausted, HasReturned, Return
<1>12. CASE WorkDelivered(n)
  BY <1>12, SMT
  DEF WorkDelivered, HasReturned
<1>13. CASE GauntletPassed(n)
  BY <1>13, SMT
  DEF GauntletPassed, InGauntlet
<1>14. CASE GauntletFailed(n)
  BY <1>14, SMT
  DEF GauntletFailed, InGauntlet, Return
<1>15. CASE VerifyPassed(n)
  BY <1>15, SMT
  DEF VerifyPassed, InVerify, Return
<1>16. CASE VerifyFailed(n)
  BY <1>16, SMT
  DEF VerifyFailed, InVerify, Retry
<1>17. CASE CoroutineRaised(n)
  BY <1>17, SMT
  DEF CoroutineRaised, Return, StaleStates
<1> QED
  BY <1>1, <1>2, <1>3, <1>4, <1>5, <1>6, <1>7, <1>8, <1>9, <1>10,
     <1>11, <1>12, <1>13, <1>14, <1>15, <1>16, <1>17
  DEF NodeStep

\* Each coroutine's position goes on to determine its wave's row.  A wave is
\* dispatched with a row that is queued, unverified or failed, since the sets
\* mirror the ledger and no row is stale.
LEMMA RowsStep ==
  ASSUME TypeOK, Shape, Budget, Rows, Mirror, Quiet, [Next]_vars
  PROVE  Rows'
<1> USE ConstantsAssumption
<1> USE DEF vars, ledgerVars, dirVars, driverVars, nodeVars, nodeFrame
<1> USE DEF TypeOK, RunStates, WaveStates, Working, Finished, Shape, Draining,
           Budget, RetryBudgetAgrees, Rows, RowAt, TerminalWaveStates,
           StaleStates, Mirror, Quiet
<1>1. CASE \/ GatePark \/ GateFail \/ PauseExit \/ ExternalExit
           \/ DeadlineExit
  BY <1>1, SessionOver, SMT
  DEF GatePark, TryRun, CanMoveRun, TerminalRunStates, GateFail, PauseExit,
      AtRound, ExternalExit, DeadlineExit
<1>2. CASE RoundPaused \/ FileRun \/ Crash
  BY <1>2, SessionOver, SMT
  DEF RoundPaused, Ended, FileRun, Crash
<1>3. CASE \/ GateOpen \/ GateAutoAccept \/ RequestPause \/ Approve
           \/ Reactivate \/ Completed \/ BatchDrained \/ RoundOver
           \/ Conclude
  BY <1>3, SMT
  DEF GateOpen, GateAutoAccept, RequestPause, Approve, Reactivate, Completed,
      vars, BatchDrained, AtRound, Undrained, RoundOver, AllEnded, Ended,
      NoCoroutines, Conclude
<1>4. CASE Recover
  BY <1>4, RestartedRows, SMT
  DEF Recover, CanMoveRun, TerminalRunStates, InState
<1>5. CASE Resume
  BY <1>5, RestartedRows, SMT
  DEF Resume, InState
<1>6. CASE PrepareRefused
  BY <1>6, SessionOver, SMT
  DEF PrepareRefused, CanMoveRun, TerminalRunStates, Requeue, InState
<1>7. CASE Prepare
  BY <1>7, SMT
  DEF Prepare, CanMoveRun, TerminalRunStates, Cleared, Requeue, InState
<1>8. CASE Deadlocked
  BY <1>8, SMT
  DEF Deadlocked, AtRound, Undrained, Ready
<1>9. CASE Dispatch
  BY <1>9, SMT
  DEF Dispatch, AtRound, Ready, Undrained, IsGreedy
<1>10. CASE Interrupt
  BY <1>10, SessionOver, SMT
  DEF Interrupt, Requeue, InState
<1>11. ASSUME NEW n \in Node, NodeStep(n)
      PROVE  Rows'
  <2>1. CASE StopForCost(n)
    BY <2>1, SMT
    DEF StopForCost, InLoop, Return
  <2>2. CASE EscalateStuck(n)
    BY <2>2, SMT
    DEF EscalateStuck, InLoop, Return
  <2>3. CASE Exhaust(n)
    BY <2>3, SMT
    DEF Exhaust, InLoop, Return
  <2>4. CASE BeginAttempt(n)
    BY <2>4, SMT
    DEF BeginAttempt, InLoop
  <2>5. CASE DispatchRaised(n)
    BY <2>5, EndAttemptType, SMT
    DEF DispatchRaised, HasReturned, Return
  <2>6. CASE InfraFailure(n)
    BY <2>6, EndAttemptType, SMT
    DEF InfraFailure, HasReturned
  <2>7. CASE CooldownOver(n)
    BY <2>7, SMT
    DEF CooldownOver
  <2>8. CASE InfraCap(n)
    BY <2>8, EndAttemptType, SMT
    DEF InfraCap, HasReturned, Retry
  <2>9. CASE CostAfterDispatch(n)
    BY <2>9, EndAttemptType, SMT
    DEF CostAfterDispatch, HasReturned, Return
  <2>10. CASE AttemptFailed(n)
    BY <2>10, EndAttemptType, NoteProgressType, SMT
    DEF AttemptFailed, HasReturned, Retry
  <2>11. CASE QuotaExhausted(n)
    BY <2>11, EndAttemptType, SMT
    DEF QuotaExhausted, HasReturned, Return
  <2>12. CASE WorkDelivered(n)
    BY <2>12, NoteProgressType, SMT
    DEF WorkDelivered, HasReturned
  <2>13. CASE GauntletPassed(n)
    BY <2>13, SMT
    DEF GauntletPassed, InGauntlet
  <2>14. CASE GauntletFailed(n)
    BY <2>14, EndAttemptType, SMT
    DEF GauntletFailed, InGauntlet, Return
  <2>15. CASE VerifyPassed(n)
    BY <2>15, EndAttemptType, SMT
    DEF VerifyPassed, InVerify, Return
  <2>16. CASE VerifyFailed(n)
    BY <2>16, EndAttemptType, SMT
    DEF VerifyFailed, InVerify, Retry
  <2>17. CASE CoroutineRaised(n)
    BY <2>17, SMT
    DEF CoroutineRaised, Return
  <2> QED
    BY <1>11, <2>1, <2>2, <2>3, <2>4, <2>5, <2>6, <2>7, <2>8, <2>9,
       <2>10, <2>11, <2>12, <2>13, <2>14, <2>15, <2>16, <2>17
    DEF NodeStep
<1>12. CASE UNCHANGED vars
  BY <1>12
<1> QED
  BY <1>1, <1>2, <1>3, <1>4, <1>5, <1>6, <1>7, <1>8, <1>9, <1>10,
     <1>11, <1>12
  DEF Next, DriverStep, GateStep, OperatorStep

\* The driver's sets go on to mirror the ledger: rounds integrate what their
\* coroutines wrote.
LEMMA MirrorStep ==
  ASSUME TypeOK, Shape, Rows, Mirror, [Next]_vars
  PROVE  Mirror'
<1> USE ConstantsAssumption
<1> USE DEF vars, ledgerVars, dirVars, driverVars, nodeVars, nodeFrame
<1> USE DEF TypeOK, RunStates, WaveStates, Working, Finished, Shape, Draining,
           Rows, RowAt, TerminalWaveStates, StaleStates, Mirror
<1>1. CASE \/ GatePark \/ GateFail \/ PauseExit \/ ExternalExit
           \/ DeadlineExit \/ RoundPaused \/ FileRun \/ Crash
  BY <1>1, SessionOver, SMT
  DEF GatePark, TryRun, CanMoveRun, TerminalRunStates, GateFail, PauseExit,
      AtRound, ExternalExit, DeadlineExit, RoundPaused, Ended, FileRun, Crash
<1>2. CASE \/ GateOpen \/ GateAutoAccept \/ RequestPause \/ Approve
           \/ Reactivate \/ Completed \/ BatchDrained \/ Conclude
  BY <1>2, SMT
  DEF GateOpen, GateAutoAccept, RequestPause, Approve, Reactivate, Completed,
      vars, BatchDrained, AtRound, Undrained, Conclude
<1>3. CASE Recover \/ Resume
  BY <1>3, RestartedRows, SMT
  DEF Recover, CanMoveRun, TerminalRunStates, InState, Resume
<1>4. CASE PrepareRefused \/ Interrupt
  BY <1>4, SessionOver, SMT
  DEF PrepareRefused, CanMoveRun, TerminalRunStates, Requeue, InState,
      Interrupt
<1>5. CASE Prepare
  BY <1>5, SMT
  DEF Prepare, CanMoveRun, TerminalRunStates, Cleared, Requeue, InState
<1>6. CASE Deadlocked
  BY <1>6, SMT
  DEF Deadlocked, AtRound, Undrained, Ready
<1>7. CASE Dispatch
  BY <1>7, SMT
  DEF Dispatch, AtRound, Ready, Undrained, IsGreedy
<1>8. CASE RoundOver
  BY <1>8, SMT
  DEF RoundOver, AllEnded, Ended, NoCoroutines
<1>9. ASSUME NEW n \in Node, NodeStep(n)
      PROVE  Mirror'
  BY <1>9, NodeFrame
<1>10. CASE UNCHANGED vars
  BY <1>10
<1> QED
  BY <1>1, <1>2, <1>3, <1>4, <1>5, <1>6, <1>7, <1>8, <1>9, <1>10
  DEF Next, DriverStep, GateStep, OperatorStep

\* No row claims a dispatch that is not there: a session starts by requeueing
\* what the last one left, and a run is stopped only between rounds.
LEMMA QuietStep ==
  ASSUME TypeOK, Shape, Rows, Quiet, Settled, FiledByVerdict, [Next]_vars
  PROVE  Quiet'
<1> USE ConstantsAssumption
<1> USE DEF vars, ledgerVars, dirVars, driverVars, nodeVars, nodeFrame
<1> USE DEF TypeOK, RunStates, WaveStates, Working, Finished, Shape, Draining,
           Rows, RowAt, TerminalWaveStates, StaleStates, Quiet, Settled,
           FiledByVerdict
<1>1. CASE GatePark \/ GateFail
  BY <1>1, SessionOver, SMT
  DEF GatePark, TryRun, CanMoveRun, TerminalRunStates, GateFail
<1>2. CASE PauseExit \/ ExternalExit \/ DeadlineExit
  BY <1>2, SessionOver, SMT
  DEF PauseExit, AtRound, ExternalExit, DeadlineExit
<1>3. CASE FileRun \/ Crash
  BY <1>3, SessionOver, SMT
  DEF FileRun, Crash
<1>4. CASE RoundPaused
  <2>1. \A n \in flight : wave[n] \notin StaleStates
    BY <1>4, FinishedRows, SMT DEF RoundPaused, AllEnded, Ended
  <2> QED
    BY <1>4, <2>1, SessionOver, SMT DEF RoundPaused, AllEnded
<1>5. CASE \/ GateOpen \/ GateAutoAccept \/ RequestPause \/ Approve
           \/ Reactivate \/ Completed \/ BatchDrained \/ Conclude
  BY <1>5, SMT
  DEF GateOpen, GateAutoAccept, RequestPause, Approve, Reactivate, Completed,
      vars, BatchDrained, AtRound, Undrained, Conclude
<1>6. CASE Recover
  BY <1>6, RestartedRows, SMT
  DEF Recover, CanMoveRun, TerminalRunStates, InState
<1>7. CASE Resume
  BY <1>7, RestartedRows, SMT
  DEF Resume, InState
<1>8. CASE PrepareRefused
  BY <1>8, SessionOver, SMT
  DEF PrepareRefused, CanMoveRun, TerminalRunStates, Requeue, InState
<1>9. CASE Interrupt
  BY <1>9, SessionOver, SMT
  DEF Interrupt, Requeue, InState
<1>10. CASE Prepare
  BY <1>10, SMT
  DEF Prepare, CanMoveRun, TerminalRunStates, Cleared, Requeue, InState
<1>11. CASE Deadlocked
  BY <1>11, SMT
  DEF Deadlocked, AtRound, Undrained, Ready
<1>12. CASE Dispatch
  BY <1>12, SMT
  DEF Dispatch, AtRound, Ready, Undrained, IsGreedy
<1>13. CASE RoundOver
  <2>1. \A n \in flight : wave[n] \notin StaleStates
    BY <1>13, FinishedRows, SMT DEF RoundOver, AllEnded, Ended
  <2> QED
    BY <1>13, <2>1, SMT DEF RoundOver, AllEnded, NoCoroutines
<1>14. ASSUME NEW n \in Node, NodeStep(n)
      PROVE  Quiet'
  BY <1>14, NodeFrame
<1>15. CASE UNCHANGED vars
  BY <1>15
<1> QED
  BY <1>1, <1>2, <1>3, <1>4, <1>5, <1>6, <1>7, <1>8, <1>9, <1>10,
     <1>11, <1>12, <1>13, <1>14, <1>15
  DEF Next, DriverStep, GateStep, OperatorStep

\* Batches settle in order, and a verdict is given and filed only after the
\* last one.
LEMMA VerdictStep ==
  ASSUME TypeOK, Shape, Rows, Mirror, Settled, FiledByVerdict, DoneRunIsComplete, [Next]_vars
  PROVE  Settled' /\ FiledByVerdict' /\ DoneRunIsComplete'
<1> USE ConstantsAssumption
<1> USE DEF vars, ledgerVars, dirVars, driverVars, nodeVars, nodeFrame
<1> USE DEF TypeOK, RunStates, WaveStates, Working, Finished, Shape, Draining,
           Rows, RowAt, TerminalWaveStates, StaleStates, Mirror, Settled,
           FiledByVerdict, DoneRunIsComplete
<1>1. CASE GatePark
  BY <1>1, SessionOver, SMT
  DEF GatePark, TryRun, CanMoveRun, TerminalRunStates
<1>2. CASE GateFail
  BY <1>2, SessionOver, SMT
  DEF GateFail, TryRun, CanMoveRun, TerminalRunStates
<1>3. CASE PauseExit
  BY <1>3, SessionOver, SMT
  DEF PauseExit, AtRound
<1>4. CASE ExternalExit
  BY <1>4, SessionOver, SMT
  DEF ExternalExit, AtRound
<1>5. CASE DeadlineExit
  BY <1>5, SessionOver, SMT
  DEF DeadlineExit, AtRound
<1>6. CASE FileRun
  BY <1>6, SessionOver, SMT
  DEF FileRun
<1>7. CASE Crash
  BY <1>7, SessionOver, SMT
  DEF Crash
<1>8. CASE \/ GateOpen \/ GateAutoAccept \/ RequestPause \/ Approve
           \/ Reactivate \/ Completed
  BY <1>8, SMT
  DEF GateOpen, GateAutoAccept, RequestPause, Approve, Reactivate, Completed,
      vars
<1>9. CASE RoundPaused
  BY <1>9, SessionOver, SMT
  DEF RoundPaused, Ended
<1>10. CASE BatchDrained
  <2> USE <1>10 DEF BatchDrained, AtRound
  <2>1. Batches[batch] \subseteq done' \cup blocked'
    BY SMT DEF Undrained
  <2>2. \A i \in 1 .. Len(Batches) : i < batch' => i < batch \/ i = batch
    BY SMT
  <2>3. runState = "active" /\ runState' = "active" /\ loc' = "processing"
    BY SMT
  <2>4. done \cup blocked \subseteq done' \cup blocked'
    BY SMT
  <2>5. \A i \in 1 .. Len(Batches) : i < batch => Batches[i] \subseteq done \cup blocked
    BY SMT
  <2>6. \A i \in 1 .. Len(Batches) : i < batch' => Batches[i] \subseteq done' \cup blocked'
    BY ONLY <2>1, <2>2, <2>4, <2>5, Zenon
  <2>7. Settled'
    BY <2>3, <2>6, SMT
  <2> QED
    BY <2>3, <2>7, SMT
<1>11. CASE Conclude
  <2> USE <1>11 DEF Conclude
  <2>1. blocked = {} => \A i \in 1 .. Len(Batches) : Batches[i] \subseteq done
    BY SMT
  <2>2. \A n \in done : wave[n] = "done"
    BY SMT
  <2>3. DoneRunIsComplete'
    BY <2>1, <2>2, SMT
  <2> QED
    BY <2>3, SMT
<1>12. CASE Recover
  BY <1>12, RestartedRows, SMT
  DEF Recover, CanMoveRun, TerminalRunStates, InState
<1>13. CASE Resume
  <2>1. \A n \in Node : wave[n] = "done" => wave'[n] = "done"
    BY <1>13, RestartedRows, SMT
  <2>2. DoneRunIsComplete'
    BY <1>13, <2>1, BatchesInNode, SMT DEF Resume
  <2> QED
    BY <1>13, <2>2, SMT DEF Resume
<1>14. CASE PrepareRefused
  BY <1>14, SessionOver, SMT
  DEF PrepareRefused, CanMoveRun, TerminalRunStates, Requeue, InState
<1>15. CASE Interrupt
  BY <1>15, SessionOver, SMT
  DEF Interrupt, Requeue, InState
<1>16. CASE Prepare
  BY <1>16, SMT
  DEF Prepare, CanMoveRun, TerminalRunStates, Cleared, Requeue, InState
<1>17. CASE Deadlocked
  <2> USE <1>17 DEF Deadlocked, AtRound
  <2>1. Batches[batch] \subseteq done' \cup blocked'
    BY SMT DEF Undrained
  <2>2. \A i \in 1 .. Len(Batches) : i < batch' => i < batch \/ i = batch
    BY SMT
  <2>3. runState = "active" /\ runState' = "active" /\ loc' = "processing"
    BY SMT
  <2>4. done \cup blocked \subseteq done' \cup blocked'
    BY SMT
  <2>5. \A i \in 1 .. Len(Batches) : i < batch => Batches[i] \subseteq done \cup blocked
    BY SMT
  <2>6. \A i \in 1 .. Len(Batches) : i < batch' => Batches[i] \subseteq done' \cup blocked'
    BY ONLY <2>1, <2>2, <2>4, <2>5, Zenon
  <2>7. Settled'
    BY <2>3, <2>6, SMT
  <2> QED
    BY <2>3, <2>7, SMT
<1>18. CASE Dispatch
  BY <1>18, SMT
  DEF Dispatch, AtRound, Ready, Undrained, IsGreedy
<1>19. CASE RoundOver
  BY <1>19, SMT
  DEF RoundOver, AllEnded, Ended, NoCoroutines
<1>20. ASSUME NEW n \in Node, NodeStep(n)
      PROVE  Settled' /\ FiledByVerdict' /\ DoneRunIsComplete'
  BY <1>20, NodeFrame
<1>21. CASE UNCHANGED vars
  BY <1>21
<1> QED
  BY <1>1, <1>2, <1>3, <1>4, <1>5, <1>6, <1>7, <1>8, <1>9, <1>10,
     <1>11, <1>12, <1>13, <1>14, <1>15, <1>16, <1>17, <1>18, <1>19, <1>20,
     <1>21
  DEF Next, DriverStep, GateStep, OperatorStep

\* Only a dispatch adds to the waves in flight, and what it adds is a greedy
\* selection, which has no clashing pair.
LEMMA ClashStep ==
  ASSUME TypeOK, Shape, NoClashInFlight, [Next]_vars
  PROVE  NoClashInFlight'
<1> USE ConstantsAssumption
<1> USE DEF vars, ledgerVars, dirVars, driverVars, nodeVars, nodeFrame
<1> USE DEF NoClashInFlight, Shape, Draining
<1>1. CASE \/ GatePark \/ GateFail \/ PauseExit \/ ExternalExit
           \/ DeadlineExit \/ RoundPaused \/ FileRun \/ Crash
           \/ PrepareRefused \/ Interrupt
  BY <1>1, SessionOver, SMT
  DEF GatePark, TryRun, CanMoveRun, TerminalRunStates, GateFail, PauseExit,
      AtRound, ExternalExit, DeadlineExit, RoundPaused, Ended, FileRun, Crash,
      PrepareRefused, Requeue, InState, StaleStates, Interrupt
<1>2. CASE \/ GateOpen \/ GateAutoAccept \/ RequestPause \/ Approve
           \/ Reactivate \/ Completed \/ BatchDrained \/ Deadlocked
           \/ Conclude \/ Recover \/ Resume \/ Prepare
  BY <1>2, RestartedRows, SMT
  DEF GateOpen, GateAutoAccept, RequestPause, Approve, Reactivate, Completed,
      vars, BatchDrained, AtRound, Undrained, Deadlocked, Ready, Conclude,
      Recover, CanMoveRun, TerminalRunStates, InState, Resume, StaleStates,
      Prepare, Cleared, Requeue
<1>3. CASE RoundOver
  BY <1>3, SMT
  DEF RoundOver, AllEnded, Ended, Finished, NoCoroutines
<1>4. CASE Dispatch
  <2>1. PICK S \in SUBSET Ready : IsGreedy(S) /\ flight' = S
    BY <1>4 DEF Dispatch
  <2>2. S \subseteq Node
    BY <1>4, BatchesInNode, SMT DEF Dispatch, AtRound, Ready, Undrained, TypeOK
  <2> SUFFICES ASSUME NEW m \in S, NEW n \in S, m # n
               PROVE  <<m, n>> \notin Clash
    BY <2>1
  <2>3. Rank[m] < Rank[n] \/ Rank[n] < Rank[m]
    BY <2>2
  <2>4. CASE Rank[m] < Rank[n]
    BY <2>1, <2>4 DEF IsGreedy
  <2>5. CASE Rank[n] < Rank[m]
    BY <2>1, <2>2, <2>5 DEF IsGreedy
  <2> QED
    BY <2>3, <2>4, <2>5
<1>5. ASSUME NEW n \in Node, NodeStep(n)
      PROVE  NoClashInFlight'
  BY <1>5, NodeFrame
<1>6. CASE UNCHANGED vars
  BY <1>6
<1> QED
  BY <1>1, <1>2, <1>3, <1>4, <1>5, <1>6
  DEF Next, DriverStep, GateStep, OperatorStep

\* What is blocked goes on to be unfinished work of some batch.
LEMMA PendingStep ==
  ASSUME TypeOK, Shape, Rows, Mirror, Pending, [Next]_vars
  PROVE  Pending'
<1> USE ConstantsAssumption
<1> USE DEF vars, ledgerVars, dirVars, driverVars, nodeVars, nodeFrame
<1> USE DEF TypeOK, RunStates, WaveStates, Working, Finished, Shape, Draining,
           Rows, RowAt, TerminalWaveStates, StaleStates, Mirror, Pending
<1>1. CASE GatePark \/ GateFail
  BY <1>1, SessionOver, SMT
  DEF GatePark, TryRun, CanMoveRun, TerminalRunStates, GateFail
<1>2. CASE PauseExit \/ ExternalExit \/ DeadlineExit
  BY <1>2, SessionOver, SMT
  DEF PauseExit, AtRound, ExternalExit, DeadlineExit
<1>3. CASE RoundPaused
  BY <1>3, SessionOver, SMT
  DEF RoundPaused, Ended
<1>4. CASE FileRun \/ Crash
  BY <1>4, SessionOver, SMT
  DEF FileRun, Crash
<1>5. CASE GateOpen \/ GateAutoAccept
  BY <1>5, SMT
  DEF GateOpen, GateAutoAccept
<1>6. CASE RequestPause \/ Approve \/ Reactivate \/ Completed
  BY <1>6, SMT
  DEF RequestPause, Approve, Reactivate, Completed, vars
<1>7. CASE BatchDrained
  BY <1>7, SMT
  DEF BatchDrained, AtRound, Undrained
<1>8. CASE Conclude
  BY <1>8, SMT
  DEF Conclude
<1>9. CASE Recover
  BY <1>9, RestartedRows, SMT
  DEF Recover, CanMoveRun, TerminalRunStates, InState
<1>10. CASE Resume
  BY <1>10, RestartedRows, SMT
  DEF Resume, InState
<1>11. CASE PrepareRefused
  BY <1>11, SessionOver, SMT
  DEF PrepareRefused, CanMoveRun, TerminalRunStates, Requeue, InState
<1>12. CASE Interrupt
  BY <1>12, SessionOver, SMT
  DEF Interrupt, Requeue, InState
<1>13. CASE Prepare
  BY <1>13, SMT
  DEF Prepare, CanMoveRun, TerminalRunStates, Cleared, Requeue, InState
<1>14. CASE Deadlocked
  BY <1>14, BatchesInNode, SMT
  DEF Deadlocked, AtRound, Undrained, Ready
<1>15. CASE Dispatch
  BY <1>15, BatchesInNode, SMT
  DEF Dispatch, AtRound, Ready, Undrained, IsGreedy
<1>16. CASE RoundOver
  BY <1>16, SMT
  DEF RoundOver, AllEnded, Ended, NoCoroutines
<1>17. ASSUME NEW n \in Node, NodeStep(n)
      PROVE  Pending'
  BY <1>17, NodeFrame
<1>18. CASE UNCHANGED vars
  BY <1>18
<1> QED
  BY <1>1, <1>2, <1>3, <1>4, <1>5, <1>6, <1>7, <1>8, <1>9, <1>10,
     <1>11, <1>12, <1>13, <1>14, <1>15, <1>16, <1>17, <1>18
  DEF Next, DriverStep, GateStep, OperatorStep

\* Nobody touches the row of a wave that is done.
LEMMA DoneStep ==
  ASSUME TypeOK, Shape, Rows, Mirror, [Next]_vars
  PROVE  \A w \in Node : wave[w] = "done" => wave'[w] = "done" /\ attempts'[w] = attempts[w]
<1> USE ConstantsAssumption
<1> USE DEF vars, ledgerVars, dirVars, driverVars, nodeVars, nodeFrame
<1> USE DEF TypeOK, RunStates, WaveStates, Working, Finished, Shape, Draining,
           Rows, RowAt, TerminalWaveStates, StaleStates, Mirror
<1>1. CASE \/ GatePark \/ GateFail \/ PauseExit \/ ExternalExit
           \/ DeadlineExit \/ RoundPaused \/ FileRun \/ Crash
           \/ GateOpen \/ GateAutoAccept \/ RequestPause \/ Approve
           \/ Reactivate \/ Completed \/ BatchDrained \/ Conclude
           \/ Dispatch \/ RoundOver
  BY <1>1, SessionOver, SMT
  DEF GatePark, TryRun, CanMoveRun, TerminalRunStates, GateFail, PauseExit,
      AtRound, ExternalExit, DeadlineExit, RoundPaused, Ended, FileRun, Crash,
      GateOpen, GateAutoAccept, RequestPause, Approve, Reactivate, Completed,
      vars, BatchDrained, Conclude, Dispatch, IsGreedy, RoundOver, NoCoroutines
<1>2. CASE Recover \/ Resume
  BY <1>2, RestartedRows, SMT
  DEF Recover, CanMoveRun, TerminalRunStates, InState, Resume
<1>3. CASE PrepareRefused
  BY <1>3, SessionOver, SMT
  DEF PrepareRefused, CanMoveRun, TerminalRunStates, Requeue, InState
<1>4. CASE Interrupt
  BY <1>4, SessionOver, SMT
  DEF Interrupt, Requeue, InState
<1>5. CASE Prepare
  BY <1>5, SMT
  DEF Prepare, CanMoveRun, TerminalRunStates, Cleared, Requeue, InState
<1>6. CASE Deadlocked
  BY <1>6, SMT
  DEF Deadlocked, AtRound, Undrained, Ready
<1>7. ASSUME NEW n \in Node, NodeStep(n)
      PROVE  \A w \in Node : wave[w] = "done" => wave'[w] = "done" /\ attempts'[w] = attempts[w]
  BY <1>7, NodeFrame
<1>8. CASE UNCHANGED vars
  BY <1>8
<1> QED
  BY <1>1, <1>2, <1>3, <1>4, <1>5, <1>6, <1>7, <1>8
  DEF Next, DriverStep, GateStep, OperatorStep

\* Every move of a run or a wave is one the ledger accepts.
LEMMA GuardStep ==
  ASSUME TypeOK, Shape, Rows, Mirror, Settled, FiledByVerdict, [Next]_vars
  PROVE  CanMoveRun(runState, runState') /\ \A w \in Node \ HumanGate : CanMoveWave(wave[w], wave'[w])
<1> USE ConstantsAssumption
<1> USE DEF vars, ledgerVars, dirVars, driverVars, nodeVars, nodeFrame
<1> USE DEF TypeOK, RunStates, WaveStates, Working, Finished, Shape, Draining,
           Rows, RowAt, TerminalWaveStates, StaleStates, Mirror, Settled,
           FiledByVerdict, CanMoveRun, TerminalRunStates, CanMoveWave
<1>1. CASE GatePark \/ GateFail
  BY <1>1, SessionOver, SMT
  DEF GatePark, TryRun, GateFail
<1>2. CASE PauseExit \/ ExternalExit \/ DeadlineExit
  BY <1>2, SessionOver, SMT
  DEF PauseExit, AtRound, ExternalExit, DeadlineExit
<1>3. CASE RoundPaused
  BY <1>3, SessionOver, SMT
  DEF RoundPaused, Ended
<1>4. CASE FileRun \/ Crash
  BY <1>4, SessionOver, SMT
  DEF FileRun, Crash
<1>5. CASE \/ GateOpen \/ GateAutoAccept \/ RequestPause \/ Approve
           \/ Reactivate \/ Completed \/ BatchDrained \/ Dispatch
           \/ RoundOver
  BY <1>5, SMT
  DEF GateOpen, GateAutoAccept, RequestPause, Approve, Reactivate, Completed,
      vars, BatchDrained, AtRound, Undrained, Dispatch, Ready, IsGreedy,
      RoundOver, AllEnded, Ended, NoCoroutines
<1>6. CASE Conclude
  BY <1>6, SMT
  DEF Conclude
<1>7. CASE Recover
  BY <1>7, RestartedRows, SMT
  DEF Recover, InState
<1>8. CASE Resume
  BY <1>8, RestartedRows, SMT
  DEF Resume, InState
<1>9. CASE PrepareRefused
  BY <1>9, SessionOver, SMT
  DEF PrepareRefused, Requeue, InState
<1>10. CASE Interrupt
  BY <1>10, SessionOver, SMT
  DEF Interrupt, Requeue, InState
<1>11. CASE Prepare
  BY <1>11, SMT
  DEF Prepare, Cleared, Requeue, InState
<1>12. CASE Deadlocked
  BY <1>12, SMT
  DEF Deadlocked, AtRound, Undrained, Ready
<1>13. ASSUME NEW n \in Node, NodeStep(n)
      PROVE  CanMoveRun(runState, runState') /\ \A w \in Node \ HumanGate : CanMoveWave(wave[w], wave'[w])
  BY <1>13, NodeFrame
<1>14. CASE UNCHANGED vars
  BY <1>14
<1> QED
  BY <1>1, <1>2, <1>3, <1>4, <1>5, <1>6, <1>7, <1>8, <1>9, <1>10,
     <1>11, <1>12, <1>13, <1>14
  DEF Next, DriverStep, GateStep, OperatorStep

-----------------------------------------------------------------------------
(* The inductive invariant and what follows from it.                       *)

\* A run that Engine.start has just written satisfies the invariant.
LEMMA InitInv == Init => IInv
<1> SUFFICES ASSUME Init PROVE IInv
  OBVIOUS
<1> USE ConstantsAssumption DEF Init
<1>1. TypeOK
  <2>1. stuck \in [Node -> BOOLEAN] /\ overBudget \in BOOLEAN
        /\ approved \in BOOLEAN /\ pauseMarker \in BOOLEAN
    BY Zenon
  <2>2. Len(Batches) \in Nat
    OBVIOUS
  <2> QED
    BY <2>1, <2>2, SMT DEF TypeOK, RunStates, WaveStates
<1>2. Shape /\ Budget /\ Rows /\ Mirror
  BY SMT DEF Shape, Budget, RetryBudgetAgrees, Rows, Mirror, Draining
<1>3. Quiet /\ Settled
  BY SMT DEF Quiet, Settled, Draining, StaleStates
<1>4. DoneRunIsComplete /\ FiledByVerdict /\ NoClashInFlight
     /\ Pending
  BY SMT DEF Pending, DoneRunIsComplete, FiledByVerdict, NoClashInFlight
<1> QED
  BY <1>1, <1>2, <1>3, <1>4 DEF IInv

\* Every step of the driver, the coroutines and the operator preserves it.
LEMMA Inductive == IInv /\ [Next]_vars => IInv'
<1> SUFFICES ASSUME IInv, [Next]_vars PROVE IInv'
  OBVIOUS
<1> USE DEF IInv
<1>1. TypeOK' /\ Shape' /\ Budget'
  BY TypeStep
<1>2. Rows' /\ Mirror'
  BY RowsStep, MirrorStep
<1>3. Quiet'
  BY QuietStep
<1>4. Settled' /\ FiledByVerdict' /\ DoneRunIsComplete'
  BY VerdictStep
<1>5. NoClashInFlight' /\ Pending'
  BY ClashStep, PendingStep
<1> QED
  BY <1>1, <1>2, <1>3, <1>4, <1>5

\* IInv holds in every state of every run, for every graph.
THEOREM Invariance == Spec => []IInv
<1> QED
  BY InitInv, Inductive, PTL DEF Spec

\* The types of the ledger, the run directory and the engine's variables; in
\* particular no wave's attempts exceed the retry cap.
THEOREM TypeCorrect == Spec => []TypeOK
<1>1. IInv => TypeOK
  BY DEF IInv
<1> QED
  BY <1>1, Invariance, PTL

\* No dispatch ahead of its dependencies: the driver's done set, from which
\* ready_nodes selects, contains only waves that are done in the ledger.
THEOREM DependenciesFirst == Spec => []WorkAfterDeps
<1>1. IInv => WorkAfterDeps
  <2> SUFFICES ASSUME IInv, NEW n \in flight, NEW d \in Deps[n]
               PROVE  wave[d] = "done"
    BY DEF WorkAfterDeps
  <2>1. pc = "gather"
    BY DEF IInv, Shape
  <2>2. n \in Node /\ d \in Node
    BY ConstantsAssumption, SMT DEF IInv, TypeOK
  <2>3. d \in done /\ d \notin flight
    BY <2>1, SMT DEF IInv, Mirror, Draining
  <2> QED
    BY <2>1, <2>2, <2>3 DEF IInv, Mirror, Draining
<1> QED
  BY <1>1, Invariance, PTL

\* Clashing waves never fly together, whatever the order of candidates.
THEOREM ClashFree == Spec => []NoClashInFlight
<1>1. IInv => NoClashInFlight
  BY DEF IInv
<1> QED
  BY <1>1, Invariance, PTL

\* The in-memory retry budget and the persistent one never drift apart.
THEOREM BudgetsAgree == Spec => []RetryBudgetAgrees
<1>1. IInv => RetryBudgetAgrees
  BY DEF IInv, Budget
<1> QED
  BY <1>1, Invariance, PTL

\* No sham green: done and processed runs have every batch wave done.
THEOREM NoShamGreen == Spec => []DoneRunIsComplete
<1>1. IInv => DoneRunIsComplete
  BY DEF IInv
<1> QED
  BY <1>1, Invariance, PTL

\* The folder of a filed run tells its verdict: complete_run and fail_run move
\* the directory only after transition_run has committed the matching state.
THEOREM FolderMatches == Spec => []FiledByVerdict
<1>1. IInv => FiledByVerdict
  BY DEF IInv
<1> QED
  BY <1>1, Invariance, PTL

\* A run that is not active has no row that claims a live dispatch.
THEOREM StoppedQuiet == Spec => []StoppedRunIsQuiet
<1>1. IInv => StoppedRunIsQuiet
  <2> SUFFICES ASSUME IInv, runState # "active", NEW n \in Node
               PROVE  wave[n] \notin StaleStates
    BY DEF StoppedRunIsQuiet, InState
  <2>1. flight = {}
    BY DEF IInv, Shape, Settled
  <2> QED
    BY <2>1 DEF IInv, Quiet
<1> QED
  BY <1>1, Invariance, PTL

\* A wave that is done stays done and spends no further attempt, through
\* crashes, resumes and recoveries.
THEOREM DoneForGood == Spec => DoneIsFinal
<1>1. IInv /\ [Next]_vars =>
        [\A n \in Node : wave[n] = "done" =>
           wave'[n] = "done" /\ attempts'[n] = attempts[n]]_vars
  BY DoneStep DEF IInv
<1> QED
  BY <1>1, Invariance, PTL DEF Spec, DoneIsFinal

\* transition_run and transition_wave never have to refuse a move that the
\* driver makes.
THEOREM GuardsRespected == Spec => LedgerGuardsRespected
<1>1. IInv /\ [Next]_vars =>
        [/\ CanMoveRun(runState, runState')
         /\ \A n \in Node \ HumanGate : CanMoveWave(wave[n], wave'[n])]_vars
  BY GuardStep DEF IInv
<1> QED
  BY <1>1, Invariance, PTL DEF Spec, LedgerGuardsRespected


-----------------------------------------------------------------------------
(***************************************************************************)
(* WaveRun implements RunContract for every graph with at least one wave   *)
(* to dispatch (a red gate may fail an empty run, which the contract would *)
(* call done): the mapping is the one of WaveRun's Contract instance, and  *)
(* the inductive invariant IInv says why each step of the driver is a step *)
(* of the contract or leaves what the operator sees unchanged.             *)
(***************************************************************************)

\* What the operator sees, as in the Contract instance.
Outcome  == IF runState \in TerminalRunStates THEN runState ELSE "open"
Finishes == InState({"done"})
Works    == {n \in flight : at[n] \in Working}

\* The instance's variables under the mapping are these three.
LEMMA Views ==
  /\ Contract!cvars = <<Outcome, Finishes, Works>>
  /\ (UNCHANGED Contract!cvars) <=> (UNCHANGED <<Outcome, Finishes, Works>>)
BY DEF Contract!cvars, Outcome, Finishes, Works

\* Without coroutines nothing is being worked on.
LEMMA NoWork == flight = {} => Works = {}
BY DEF Works

\* A step of a coroutine finishes its wave, gives it up, or shows nothing.
LEMMA NodeRefines ==
  ASSUME IInv, IInv', NEW n \in Node, NodeStep(n)
  PROVE  [Contract!CNext]_(Contract!cvars)
<1> USE DEF IInv
<1>1. /\ n \in Works /\ Outcome' = Outcome /\ flight' = flight /\ n \in flight'
      /\ \A m \in Node \ {n} : at'[m] = at[m] /\ wave'[m] = wave[m]
  BY NodeFrame DEF Works, Outcome
<1>2. at'[n] \in Working \cup Finished
  BY <1>1, SMT DEF TypeOK, Shape
<1>3. wave[n] # "done"
  BY <1>1, SMT DEF Rows, RowAt, Works, Working, TerminalWaveStates
<1>4. \A m \in Works : m \in Node
  BY DEF Works, TypeOK
<1>5. CASE at'[n] \in Working
  <2>1. \A m \in flight : at'[m] \in Working <=> at[m] \in Working
    <3>1. at[n] \in Working /\ flight \subseteq Node
      BY <1>1 DEF Works, TypeOK
    <3> QED
      BY <1>1, <1>5, <3>1, Zenon
  <2>2. Works' = Works
    BY <1>1, <2>1, Zenon DEF Works
  <2>3. wave'[n] # "done"
    BY <1>1, <1>5, SMT DEF Rows, RowAt, Working, TerminalWaveStates
  <2>4. Finishes' = Finishes
    BY <1>1, <1>3, <2>3, SMT DEF Finishes, InState
  <2> QED
    BY <1>1, <2>2, <2>4, Views
<1>6. CASE at'[n] = "done"
  <2>1. Works' = Works \ {n}
    BY <1>1, <1>6, SMT DEF Works, TypeOK, Working
  <2>2. wave'[n] = "done"
    BY <1>1, <1>6, SMT DEF Rows, RowAt
  <2>3. Finishes' = Finishes \cup {n}
    BY <1>1, <2>2, SMT DEF Finishes, InState
  <2>4. Contract!Finish(n)
    BY <1>1, <2>1, <2>3 DEF Contract!Finish, Outcome, Finishes, Works
  <2> QED
    BY <2>4 DEF Contract!CNext
<1>7. CASE at'[n] \in Finished \ {"done"}
  <2>1. Works' = Works \ {n}
    BY <1>1, <1>7, SMT DEF Works, TypeOK, Working, Finished
  <2>2. wave'[n] # "done"
    BY <1>1, <1>7, SMT DEF Rows, RowAt, Finished
  <2>3. Finishes' = Finishes
    BY <1>1, <1>3, <2>2, SMT DEF Finishes, InState
  <2>4. Contract!Abandon({n})
    BY <1>1, <2>1, <2>3 DEF Contract!Abandon, Outcome, Finishes, Works
  <2> QED
    BY <2>4 DEF Contract!CNext
<1> QED
  BY <1>2, <1>5, <1>6, <1>7 DEF Finished

\* The start of a concurrent round is a Begin of the waves it selects.
LEMMA DispatchRefines ==
  ASSUME IInv, IInv', Dispatch
  PROVE  [Contract!CNext]_(Contract!cvars)
<1> USE DEF IInv
<1>1. PICK S \in SUBSET Ready :
        /\ IsGreedy(S)
        /\ flight' = S
        /\ at' = [n \in Node |-> IF n \in S THEN "loop" ELSE "idle"]
  BY DEF Dispatch
<1>2. /\ pc = "round" /\ pc' = "gather" /\ flight = {}
      /\ UNCHANGED <<runState, wave, done>>
  BY SMT DEF Dispatch, AtRound, Shape, ledgerVars
<1>3. S \subseteq Node
  BY <1>1, SMT DEF TypeOK
<1>4. Works' = S
  BY <1>1, <1>3, SMT DEF Works, Working
<1>5. Outcome = "open" /\ Outcome' = Outcome /\ Finishes' = Finishes
  BY <1>2, SMT DEF Outcome, Finishes, InState, Settled, TerminalRunStates
<1>6. S \cap Finishes = {}
  BY <1>1, <1>2, SMT DEF Mirror, Draining, Ready, Undrained, Finishes, InState
<1>7. \A n \in S : Deps[n] \subseteq Finishes
  <2> SUFFICES ASSUME NEW n \in S, NEW d \in Deps[n] PROVE d \in Finishes
    OBVIOUS
  <2>1. d \in done /\ d \in Node
    BY <1>1, <1>3, ConstantsAssumption DEF Ready
  <2> QED
    BY <1>2, <2>1 DEF Mirror, Draining, Finishes, InState
<1>8. \A m, n \in S : m # n => <<m, n>> \notin Clash
  BY <1>1 DEF NoClashInFlight
<1>9. Contract!Begin(S)
  BY <1>2, <1>4, <1>5, <1>6, <1>7, <1>8, NoWork
     DEF Contract!Begin, Outcome, Finishes, Works
<1> QED
  BY <1>3, <1>9 DEF Contract!CNext

\* A verdict is a Succeed or a Fail; a run is failed only over unfinished work.
LEMMA VerdictRefines ==
  ASSUME IInv, IInv', Conclude \/ ExternalExit \/ GateFail,
         BatchNodes # {}
  PROVE  [Contract!CNext]_(Contract!cvars)
<1> USE DEF IInv
<1>1. flight = {} /\ Works = {} /\ wave' = wave /\ Finishes' = Finishes
  BY NoWork, SMT DEF Conclude, ExternalExit, GateFail, AtRound, Shape, Finishes, InState
<1>2. Works' = {}
  <2>1. flight' = {}
    BY <1>1, SMT DEF Conclude, ExternalExit, GateFail, EndSession, NoCoroutines
  <2> QED
    BY <2>1 DEF Works
<1>3. CASE Outcome' = Outcome
  BY <1>1, <1>2, <1>3, Views
<1>4. CASE Outcome' # Outcome
  <2>1. Outcome = "open" /\ Outcome' \in {"done", "failed"}
    BY <1>4, SMT DEF Conclude, ExternalExit, GateFail, TryRun, CanMoveRun, Outcome,
       TerminalRunStates, Settled, AtRound
  <2>2. CASE Outcome' = "done"
    <3>1. runState' = "done"
      BY <2>2, SMT DEF Outcome
    <3>2. BatchNodes \subseteq Finishes
      <4> SUFFICES ASSUME NEW n \in BatchNodes PROVE n \in Finishes
        OBVIOUS
      <4>1. PICK i \in 1 .. Len(Batches) : n \in Batches[i]
        BY DEF BatchNodes
      <4> QED
        BY <1>1, <3>1, <4>1, BatchesInNode DEF DoneRunIsComplete, Finishes, InState
    <3>3. Contract!Succeed
      BY <1>1, <1>2, <2>1, <2>2, <3>2
         DEF Contract!Succeed, Outcome, Finishes, Works
    <3> QED
      BY <3>3 DEF Contract!CNext
  <2>3. CASE Outcome' = "failed"
    <3>1. \E n \in BatchNodes : wave[n] # "done"
      <4>1. CASE Conclude
        <5>1. blocked # {}
          BY <2>1, <2>3, <4>1, SMT DEF Conclude, Outcome, TerminalRunStates
        <5> QED
          BY <5>1 DEF Pending
      <4>2. CASE ExternalExit
        <5>1. PICK n \in Ready : TRUE
          BY <4>2 DEF ExternalExit
        <5>2. n \in Batches[batch] /\ n \notin done /\ batch \in 1 .. Len(Batches)
          BY <4>2, <5>1, SMT DEF ExternalExit, AtRound, Ready, Undrained, TypeOK
        <5>3. n \in BatchNodes /\ n \in Node /\ pc = "round"
          BY <4>2, <5>2, BatchesInNode DEF ExternalExit, AtRound
        <5> QED
          BY <1>1, <5>2, <5>3 DEF Mirror, Draining
      <4>3. CASE GateFail
        <5>1. \A n \in Node : wave[n] # "done"
          BY <4>3 DEF GateFail, Pending
        <5>2. PICK n \in BatchNodes : TRUE
          OBVIOUS
        <5>3. n \in Node
          BY BatchesInNode DEF BatchNodes
        <5> QED
          BY <5>1, <5>3
      <4> QED
        BY <4>1, <4>2, <4>3
    <3>2. ~(BatchNodes \subseteq Finishes)
      BY <3>1 DEF Finishes, InState
    <3>3. Contract!Fail
      BY <1>1, <1>2, <2>1, <2>3, <3>2 DEF Contract!Fail, Outcome, Finishes, Works
    <3> QED
      BY <3>3 DEF Contract!CNext
  <2> QED
    BY <2>1, <2>2, <2>3
<1> QED
  BY <1>3, <1>4

\* Startup passes the approved gates; everything else of it is internal.
LEMMA PrepareRefines ==
  ASSUME IInv, IInv', Prepare
  PROVE  [Contract!CNext]_(Contract!cvars)
<1> USE DEF IInv
<1>1. flight = {} /\ Works = {} /\ Works' = {}
  BY NoWork, SMT DEF Prepare, Shape, driverVars, Works
<1>2. Outcome = "open" /\ Outcome' = "open"
  BY SMT DEF Prepare, CanMoveRun, Outcome, TerminalRunStates
<1>3. Finishes' = Finishes \cup Cleared
  BY ConstantsAssumption, SMT DEF Prepare, Finishes, InState, Cleared, Requeue, StaleStates
<1>4. CASE approved
  <2>1. Contract!PassGate
    BY <1>1, <1>2, <1>3, <1>4 DEF Contract!PassGate, Cleared, Outcome, Finishes, Works
  <2> QED
    BY <2>1 DEF Contract!CNext
<1>5. CASE ~approved
  <2>1. Finishes' = Finishes
    BY <1>3, <1>5 DEF Cleared
  <2> QED
    BY <1>1, <1>2, <2>1, Views
<1> QED
  BY <1>4, <1>5

\* Recovering a failed run, or parking it at the gate again, reopens it.
LEMMA ReopenRefines ==
  ASSUME IInv, IInv', Recover \/ GatePark
  PROVE  [Contract!CNext]_(Contract!cvars)
<1> USE DEF IInv
<1>1. flight = {} /\ flight' = {}
  BY SMT DEF Recover, GatePark, Shape, EndSession, NoCoroutines
<1>2. Works = {} /\ Works' = {}
  BY <1>1 DEF Works
<1>3. Finishes' = Finishes
  <2>1. CASE GatePark
    BY <2>1 DEF GatePark, Finishes, InState
  <2>2. CASE Recover
    BY <2>2, RestartedRows, SMT DEF Finishes, InState, StaleStates
  <2> QED
    BY <2>1, <2>2
<1>4. Outcome' = Outcome \/ (Outcome = "failed" /\ Outcome' = "open")
  <2>1. runState' = "paused" \/ runState' = runState
    BY DEF Recover, GatePark, TryRun
  <2>2. runState = "done" => runState' = runState
    BY DEF Recover, GatePark, TryRun, CanMoveRun, TerminalRunStates
  <2>3. runState \in {"active", "done", "failed", "paused"}
    BY DEF TypeOK, RunStates
  <2> QED
    BY ONLY <2>1, <2>2, <2>3, SMT DEF Outcome, TerminalRunStates
<1>5. CASE Outcome' = Outcome
  BY <1>2, <1>3, <1>5, Views
<1>6. CASE Outcome = "failed" /\ Outcome' = "open"
  <2>1. Contract!Reopen
    BY <1>2, <1>3, <1>6 DEF Contract!Reopen, Outcome, Finishes, Works
  <2> QED
    BY <2>1 DEF Contract!CNext
<1> QED
  BY <1>4, <1>5, <1>6

\* A crash or an interrupt abandons whatever is being worked on.
LEMMA CrashRefines ==
  ASSUME IInv, IInv', Crash \/ Interrupt
  PROVE  [Contract!CNext]_(Contract!cvars)
<1> USE DEF IInv
<1>1. Outcome' = Outcome
  BY DEF Crash, Interrupt, Outcome, ledgerVars
<1>2. Finishes' = Finishes
  BY SMT DEF Crash, Interrupt, ledgerVars, Finishes, InState, Requeue, StaleStates
<1>3. Works' = {}
  BY SessionOver DEF Crash, Interrupt, Works
<1>4. PICK S \in SUBSET Node : S = Works
  BY DEF Works, TypeOK
<1>5. Contract!Abandon(S)
  BY <1>1, <1>2, <1>3, <1>4 DEF Contract!Abandon, Outcome, Finishes, Works
<1> QED
  BY <1>5 DEF Contract!CNext

\* The remaining steps do not show.
Internal ==
  \/ GateOpen     \/ GateAutoAccept \/ PrepareRefused \/ BatchDrained
  \/ Deadlocked   \/ PauseExit      \/ DeadlineExit   \/ RoundOver
  \/ RoundPaused  \/ FileRun        \/ RequestPause   \/ Approve
  \/ Reactivate   \/ Resume         \/ Completed

\* The steps of Internal show the operator nothing.
LEMMA InternalRefines ==
  ASSUME IInv, IInv', Internal
  PROVE  UNCHANGED Contract!cvars
<1> USE DEF IInv, vars, ledgerVars, dirVars, driverVars, nodeVars
<1>1. CASE GateOpen \/ GateAutoAccept \/ BatchDrained \/ RequestPause \/ Approve
           \/ Reactivate \/ Completed
  BY <1>1, Views, SMT DEF GateOpen, GateAutoAccept, BatchDrained, RequestPause, Approve,
     Reactivate, Completed, Outcome, Finishes, InState, Works
<1>2. CASE PrepareRefused \/ PauseExit \/ DeadlineExit \/ FileRun
  <2>1. flight = {} /\ flight' = {}
    BY <1>2, SessionOver, SMT DEF PrepareRefused, PauseExit, DeadlineExit, FileRun, AtRound, Shape
  <2>2. Works = {} /\ Works' = {}
    BY <2>1 DEF Works
  <2>3. Outcome' = Outcome
    BY <1>2, SMT DEF PrepareRefused, PauseExit, DeadlineExit, FileRun, AtRound, Settled,
       Outcome, TerminalRunStates
  <2>4. Finishes' = Finishes
    BY <1>2, SMT DEF PrepareRefused, PauseExit, DeadlineExit, FileRun, Finishes,
       InState, Requeue, StaleStates
  <2> QED
    BY <2>2, <2>3, <2>4, Views
<1>3. CASE Deadlocked
  <2>1. Works' = Works /\ Outcome' = Outcome
    BY <1>3 DEF Deadlocked, Works, Outcome
  <2>2. \A n \in Undrained : wave[n] # "done"
    BY <1>3, BatchesInNode, SMT DEF Deadlocked, AtRound, Undrained, Mirror, Draining, Shape, TypeOK
  <2>3. Finishes' = Finishes
    BY <1>3, <2>2, SMT DEF Deadlocked, Finishes, InState
  <2> QED
    BY <2>1, <2>3, Views
<1>4. CASE RoundOver \/ RoundPaused
  <2>1. AllEnded /\ flight' = {} /\ wave' = wave
    BY <1>4, SessionOver DEF RoundOver, RoundPaused, NoCoroutines
  <2>2. Works = {} /\ Works' = {}
    BY <2>1, SMT DEF AllEnded, Ended, Works, Working, Finished
  <2>3. Outcome' = Outcome
    BY <1>4, SMT DEF RoundOver, RoundPaused, AllEnded, Settled, Outcome, TerminalRunStates
  <2>4. Finishes' = Finishes
    BY <2>1 DEF Finishes, InState
  <2> QED
    BY <2>2, <2>3, <2>4, Views
<1>5. CASE Resume
  <2>1. flight' = flight /\ at' = at /\ runState' = runState
    BY <1>5 DEF Resume
  <2>2. Finishes' = Finishes
    BY <1>5, RestartedRows, SMT DEF Finishes, InState, StaleStates
  <2> QED
    BY <2>1, <2>2, Views DEF Works, Outcome
<1> QED
  BY <1>1, <1>2, <1>3, <1>4, <1>5 DEF Internal

\* Every step is a step of the contract or invisible.
LEMMA StepRefines ==
  ASSUME IInv, IInv', [Next]_vars, BatchNodes # {}
  PROVE  [Contract!CNext]_(Contract!cvars)
<1>1. CASE UNCHANGED vars
  <2>1. UNCHANGED <<Outcome, Finishes, Works>>
    BY <1>1 DEF vars, ledgerVars, driverVars, nodeVars, Outcome, Finishes, InState, Works
  <2> QED
    BY <2>1, Views
<1>2. CASE \E n \in Node : NodeStep(n)
  BY <1>2, NodeRefines
<1>3. CASE DriverStep \/ OperatorStep \/ Crash \/ Interrupt \/ Completed
  BY <1>3, DispatchRefines, VerdictRefines, PrepareRefines, ReopenRefines,
     CrashRefines, InternalRefines
     DEF DriverStep, OperatorStep, GateStep, Internal
<1> QED
  BY <1>1, <1>2, <1>3 DEF Next

\* A fresh run is open, with nothing finished and nothing worked on.
LEMMA InitRefines == Init => Contract!CInit
BY SMT DEF Init, Contract!CInit, InState, TerminalRunStates

\* Every behaviour of the engine, its crashes, resumes and recoveries included,
\* is one that RunContract allows.
THEOREM Refinement ==
  ASSUME BatchNodes # {}
  PROVE  Spec => ImplementsContract
<1>1. IInv /\ IInv' /\ [Next]_vars => [Contract!CNext]_(Contract!cvars)
  BY StepRefines
<1> QED
  BY <1>1, InitRefines, Invariance, PTL DEF Spec, ImplementsContract, Contract!CSpec
=============================================================================
