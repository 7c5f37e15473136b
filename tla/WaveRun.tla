------------------------------ MODULE WaveRun ------------------------------
(***************************************************************************)
(* One run of a wave plan, from the moment Engine.start has written it to  *)
(* the ledger until its directory leaves processing/: the batch driver     *)
(* (engine_batch_drive), the attempt loop of each dispatched wave          *)
(* (engine_node_dispatch), the startup reconciliation that makes a crashed *)
(* run resumable, and the CLI's pause, approve and resume.                 *)
(*                                                                         *)
(* The ledger and the run directory survive a crash; the engine's own      *)
(* variables do not.  A step is what the event loop does between two       *)
(* awaits, cut further where a crash between two commits is observable.    *)
(* One engine process drives the run at a time.                            *)
(***************************************************************************)
EXTENDS RunLedger, Naturals, Sequences, FiniteSets

CONSTANTS
  Node,         \* the waves of the run's graph
  Deps,         \* Deps[n]: the waves n depends on
  Batches,      \* the batches that are not human gates, in order: sets of waves
  HumanGate,    \* the waves of human-gate batches
  Pre0,         \* does the graph have Pre-0 gates?
  Rank,         \* position of a wave in its batch (lane order, then wave order)
  Clash,        \* pairs of waves that can_run_concurrently refuses
  Gauntlet,     \* waves whose outcome contract enables the quality gauntlet
  MaxAttempts,  \* Engine.max_attempts
  MaxInfra,     \* _MAX_CONSECUTIVE_INFRA
  Env           \* what the environment may do in this instance (see below)

EnvEvents ==
  {"infra", "noprogress", "quota", "budget", "raise", "pause", "deadline",
   "external", "crash", "autogate", "failgate"}

ASSUME ConstantsAssumption ==
  /\ Deps \in [Node -> SUBSET Node]
  /\ Batches \in Seq(SUBSET Node)
  /\ HumanGate \subseteq Node
  /\ Pre0 \in BOOLEAN
  /\ Rank \in [Node -> Nat]
  /\ \A m, n \in Node : m # n => Rank[m] # Rank[n]
  /\ Clash \subseteq Node \X Node
  /\ \A m, n \in Node : <<m, n>> \in Clash => <<n, m>> \in Clash
  /\ Gauntlet \subseteq Node
  /\ MaxAttempts \in Nat \ {0}
  /\ MaxInfra \in Nat \ {0}
  /\ Env \subseteq EnvEvents

VARIABLES
  \* the ledger and the run directory
  runState,     \* runs.state
  wave,         \* waves.state
  attempts,     \* waves.attempt_count
  overBudget,   \* the summed attempt cost has reached cost_budget_usd
  loc,          \* the folder that holds the run directory
  approved,     \* the pre0-approved marker exists
  pauseMarker,  \* pause-requested.md exists
  \* the engine process
  pc,           \* where the driver stands; "down" when no engine runs
  batch,        \* index of the batch being drained
  done,         \* the driver's set of completed waves
  blocked,      \* the driver's list of blocked waves
  flight,       \* the waves of the current concurrent round
  at,           \* where each _execute_node coroutine stands, or how it ended
  used,         \* attempts_used of the coroutine
  infra,        \* consecutive_infra of the coroutine
  stuck         \* no_progress_dispatches has reached its cap of one

ledgerVars == <<runState, wave, attempts, overBudget>>
dirVars    == <<loc, approved, pauseMarker>>
driverVars == <<pc, batch, done, blocked, flight>>
nodeVars   == <<at, used, infra, stuck>>
vars == <<ledgerVars, dirVars, driverVars, nodeVars>>

\* Where a coroutine can be: not started, at the top of the attempt loop, or
\* suspended in one of the awaits; and how it can have ended.
Working  == {"loop", "running", "cooldown", "gauntlet", "verify"}
Finished == {"done", "blocked", "quality", "quota", "cost"}

TypeOK ==
  /\ runState \in RunStates
  /\ wave \in [Node -> WaveStates]
  /\ attempts \in [Node -> 0 .. MaxAttempts]
  /\ overBudget \in BOOLEAN
  /\ loc \in {"processing", "processed", "failed"}
  /\ approved \in BOOLEAN
  /\ pauseMarker \in BOOLEAN
  /\ pc \in {"down", "recover", "gate", "prepare", "round", "gather", "file"}
  /\ batch \in 1 .. Len(Batches) + 1
  /\ done \subseteq Node
  /\ blocked \subseteq Node
  /\ flight \subseteq Node
  /\ at \in [Node -> {"idle"} \cup Working \cup Finished]
  /\ used \in [Node -> 0 .. MaxAttempts]
  /\ infra \in [Node -> 0 .. MaxInfra]
  /\ stuck \in [Node -> BOOLEAN]

-----------------------------------------------------------------------------
(* A coroutine that does not exist has the initial values of its locals.   *)

NoCoroutines ==
  /\ flight' = {}
  /\ at' = [n \in Node |-> "idle"]
  /\ used' = [n \in Node |-> 0]
  /\ infra' = [n \in Node |-> 0]
  /\ stuck' = [n \in Node |-> FALSE]

\* The engine process ends (returns, raises or dies): its variables are gone.
EndSession ==
  /\ pc' = "down"
  /\ batch' = 1
  /\ done' = {}
  /\ blocked' = {}
  /\ NoCoroutines

\* transition_run when the caller goes on (or ends) whatever it answers.
TryRun(to) == runState' = IF CanMoveRun(runState, to) THEN to ELSE runState

\* Put the waves in S back in the queue.
Requeue(S) == [n \in Node |-> IF n \in S THEN "queued" ELSE wave[n]]

InState(S) == {n \in Node : wave[n] \in S}

\* Engine.start: every wave is inserted as queued, then _drive is entered.
Init ==
  /\ runState = "active"
  /\ wave = [n \in Node |-> "queued"]
  /\ attempts = [n \in Node |-> 0]
  /\ overBudget = FALSE
  /\ loc = "processing"
  /\ approved = FALSE
  /\ pauseMarker = FALSE
  /\ pc = "gate"
  /\ batch = 1
  /\ done = {}
  /\ blocked = {}
  /\ flight = {}
  /\ at = [n \in Node |-> "idle"]
  /\ used = [n \in Node |-> 0]
  /\ infra = [n \in Node |-> 0]
  /\ stuck = [n \in Node |-> FALSE]

-----------------------------------------------------------------------------
(* _drive: the Pre-0 gate.                                                 *)

GateOpen ==
  /\ pc = "gate"
  /\ Pre0 => approved
  /\ pc' = "prepare"
  /\ UNCHANGED <<ledgerVars, dirVars, batch, done, blocked, flight, nodeVars>>

\* human_gates = auto_accept with a green canary writes the marker itself.
GateAutoAccept ==
  /\ pc = "gate" /\ Pre0 /\ ~approved
  /\ "autogate" \in Env
  /\ approved' = TRUE
  /\ pc' = "prepare"
  /\ UNCHANGED <<ledgerVars, loc, pauseMarker, batch, done, blocked, flight,
                 nodeVars>>

\* The decision sheet is written (or the canary is red): the run is paused.
GatePark ==
  /\ pc = "gate" /\ Pre0 /\ ~approved
  /\ TryRun("paused")
  /\ EndSession
  /\ UNCHANGED <<wave, attempts, overBudget, dirVars>>

\* human_gates = fail: the run is failed where it stands, in processing/.
GateFail ==
  /\ pc = "gate" /\ Pre0 /\ ~approved
  /\ "failgate" \in Env
  /\ TryRun("failed")
  /\ EndSession
  /\ UNCHANGED <<wave, attempts, overBudget, dirVars>>

-----------------------------------------------------------------------------
(* _prepare_run_ledger: startup reconciliation and hydration.              *)

\* Stale waves are requeued first; then transition_run raises.
PrepareRefused ==
  /\ pc = "prepare"
  /\ ~CanMoveRun(runState, "active")
  /\ wave' = Requeue(InState(StaleStates))
  /\ EndSession
  /\ UNCHANGED <<runState, attempts, overBudget, dirVars>>

\* complete_human_gate_waves runs when the Pre-0 marker exists.
Cleared == IF approved THEN HumanGate ELSE {}

Prepare ==
  /\ pc = "prepare"
  /\ CanMoveRun(runState, "active")
  /\ runState' = "active"
  /\ wave' = [n \in Node |-> IF n \in Cleared
                             THEN "done"
                             ELSE Requeue(InState(StaleStates))[n]]
  /\ done' = InState({"done"}) \cup Cleared
  /\ blocked' = InState({"blocked"}) \ Cleared
  /\ pc' = "round"
  /\ batch' = 1
  /\ UNCHANGED <<attempts, overBudget, dirVars, flight, nodeVars>>
-----------------------------------------------------------------------------
(* _drain_batch: one concurrent round after another.                       *)

\* Mutant of Undrained: waves that are already done are not skipped.
UndrainedAgain == Batches[batch] \ blocked
Undrained == Batches[batch] \ (done \cup blocked)
\* Mutant of Ready: dependencies on earlier batches are taken for granted.
ReadyInBatch == {n \in Undrained : Deps[n] \cap Batches[batch] \subseteq done}
Ready     == {n \in Undrained : Deps[n] \subseteq done}

\* Mutant of IsGreedy: everything that is ready is dispatched.
IsEverything(S) == S = Ready

\* select_concurrent_set goes through the candidates in order and keeps one
\* when it clashes with none kept before it.
IsGreedy(S) ==
  /\ S \subseteq Ready
  /\ \A n \in Ready :
       n \in S <=> \A m \in S : Rank[m] < Rank[n] => <<m, n>> \notin Clash

AtRound == pc = "round" /\ batch <= Len(Batches)

BatchDrained ==
  /\ AtRound
  /\ Undrained = {}
  /\ batch' = batch + 1
  /\ UNCHANGED <<ledgerVars, dirVars, pc, done, blocked, flight, nodeVars>>

\* Nothing is ready: what is left of the batch is blocked.
Deadlocked ==
  /\ AtRound
  /\ Undrained # {} /\ Ready = {}
  /\ wave' = [n \in Node |-> IF n \in Undrained THEN "blocked" ELSE wave[n]]
  /\ blocked' = blocked \cup Undrained
  /\ batch' = batch + 1
  /\ UNCHANGED <<runState, attempts, overBudget, dirVars, pc, done, flight,
                 nodeVars>>

\* The exits are scanned in the order 6 (pause), 8 (external), 4 (deadline).
PauseExit ==
  /\ AtRound /\ Ready # {}
  /\ pauseMarker
  /\ runState' = "paused"
  /\ EndSession
  /\ UNCHANGED <<wave, attempts, overBudget, dirVars>>

\* The pull request or the issue was closed: failed, but left in processing/.
ExternalExit ==
  /\ AtRound /\ Ready # {}
  /\ ~pauseMarker /\ "external" \in Env
  /\ runState' = "failed"
  /\ EndSession
  /\ UNCHANGED <<wave, attempts, overBudget, dirVars>>

DeadlineExit ==
  /\ AtRound /\ Ready # {}
  /\ ~pauseMarker /\ "deadline" \in Env
  /\ runState' = "paused"
  /\ EndSession
  /\ UNCHANGED <<wave, attempts, overBudget, dirVars>>

\* asyncio.gather starts one coroutine per selected wave; each reads its
\* attempt count from the ledger.
Dispatch ==
  /\ AtRound /\ Ready # {}
  /\ ~pauseMarker
  /\ \E S \in SUBSET Ready :
       /\ IsGreedy(S)
       /\ flight' = S
       /\ at' = [n \in Node |-> IF n \in S THEN "loop" ELSE "idle"]
       /\ used' = [n \in Node |-> IF n \in S THEN attempts[n] ELSE 0]
  /\ pc' = "gather"
  /\ UNCHANGED <<ledgerVars, dirVars, batch, done, blocked, infra, stuck>>

Ended(S) == {n \in flight : at[n] \in S}

\* Every coroutine of the round has ended: integrate the results.
AllEnded == pc = "gather" /\ Ended(Finished) = flight

RoundOver ==
  /\ AllEnded
  /\ Ended({"quota", "cost"}) = {}
  /\ done' = done \cup Ended({"done"})
  /\ blocked' = blocked \cup Ended({"blocked", "quality"})
  /\ pc' = "round"
  /\ NoCoroutines
  /\ UNCHANGED <<ledgerVars, dirVars, batch>>

\* A quota or cost pause wins over whatever the siblings did.
RoundPaused ==
  /\ AllEnded
  /\ Ended({"quota", "cost"}) # {}
  /\ runState' = "paused"
  /\ EndSession
  /\ UNCHANGED <<wave, attempts, overBudget, dirVars>>

\* Mutant of Conclude: the verdict is read off the ledger's rows.
ConcludeByLedger ==
  /\ pc = "round" /\ batch > Len(Batches)
  /\ runState' = IF InState({"blocked"}) = {} THEN "done" ELSE "failed"
  /\ pc' = "file"
  /\ UNCHANGED <<wave, attempts, overBudget, dirVars, batch, done, blocked,
                 flight, nodeVars>>

\* drive_wave_batches: the verdict is committed, then the directory is moved.
Conclude ==
  /\ pc = "round" /\ batch > Len(Batches)
  /\ runState' = IF blocked = {} THEN "done" ELSE "failed"
  /\ pc' = "file"
  /\ UNCHANGED <<wave, attempts, overBudget, dirVars, batch, done, blocked,
                 flight, nodeVars>>

\* Mutant of FileRun: every run is archived.
FileAnyRun ==
  /\ pc = "file"
  /\ loc' = "processed"
  /\ EndSession
  /\ UNCHANGED <<ledgerVars, approved, pauseMarker>>

FileRun ==
  /\ pc = "file"
  /\ loc' = IF blocked = {} THEN "processed" ELSE "failed"
  /\ EndSession
  /\ UNCHANGED <<ledgerVars, approved, pauseMarker>>
-----------------------------------------------------------------------------
(* _execute_node_body: the attempt loop of one dispatched wave.  The only  *)
(* ledger row a coroutine writes is its own wave's.                        *)

InLoop(n)    == pc = "gather" /\ n \in flight /\ at[n] = "loop"
HasReturned(n) == pc = "gather" /\ n \in flight /\ at[n] = "running"

nodeFrame == <<runState, dirVars, driverVars>>

\* The coroutine returns with result h, leaving its wave in state w.
Return(n, h, w) ==
  /\ at' = [at EXCEPT ![n] = h]
  /\ wave' = [wave EXCEPT ![n] = w]
  /\ used' = [used EXCEPT ![n] = 0]
  /\ infra' = [infra EXCEPT ![n] = 0]
  /\ stuck' = [stuck EXCEPT ![n] = FALSE]

\* end_attempt records the attempt's cost; with it the budget may be reached.
EndAttempt ==
  overBudget' \in IF "budget" \in Env THEN {overBudget, TRUE} ELSE {overBudget}

\* The attempt failed and is spent: requeue the wave if another is left.
Retry(n) ==
  /\ at' = [at EXCEPT ![n] = "loop"]
  /\ wave' = [wave EXCEPT ![n] = IF used[n] < MaxAttempts THEN "queued" ELSE @]

\* Did the dispatch leave the owned paths untouched?
NoteProgress(n) ==
  stuck' \in IF "noprogress" \in Env
             THEN {stuck, [stuck EXCEPT ![n] = TRUE]}
             ELSE {stuck}

\* The budget check at the top of the loop.
StopForCost(n) ==
  /\ InLoop(n)
  /\ used[n] < MaxAttempts /\ overBudget
  /\ Return(n, "cost", wave[n])
  /\ UNCHANGED <<attempts, overBudget, nodeFrame>>

\* One dispatch without progress is enough to escalate (exit 5).
EscalateStuck(n) ==
  /\ InLoop(n)
  /\ used[n] < MaxAttempts /\ ~overBudget /\ stuck[n]
  /\ Return(n, "blocked", "blocked")
  /\ UNCHANGED <<attempts, overBudget, nodeFrame>>

\* The loop is left with every attempt spent (exit 7).
Exhaust(n) ==
  /\ InLoop(n)
  /\ used[n] >= MaxAttempts
  /\ Return(n, "blocked", "blocked")
  /\ UNCHANGED <<attempts, overBudget, nodeFrame>>

\* insert_attempt counts the attempt in the ledger, then the wave is
\* dispatched and running.
BeginAttempt(n) ==
  /\ InLoop(n)
  /\ used[n] < MaxAttempts /\ ~overBudget /\ ~stuck[n]
  /\ attempts' = [attempts EXCEPT ![n] = @ + 1]
  /\ used' = [used EXCEPT ![n] = @ + 1]
  /\ wave' = [wave EXCEPT ![n] = "running"]
  /\ at' = [at EXCEPT ![n] = "running"]
  /\ UNCHANGED <<overBudget, infra, stuck, nodeFrame>>

\* adapter.dispatch raised.
DispatchRaised(n) ==
  /\ HasReturned(n)
  /\ "raise" \in Env
  /\ EndAttempt
  /\ Return(n, "blocked", "blocked")
  /\ UNCHANGED <<attempts, nodeFrame>>

\* Mutants of InfraFailure: attempts_used is not given back; the streak is not
\* counted.
InfraKeepsUsed(n) ==
  /\ HasReturned(n)
  /\ "infra" \in Env
  /\ infra[n] + 1 < MaxInfra
  /\ infra' = [infra EXCEPT ![n] = @ + 1]
  /\ attempts' = [attempts EXCEPT ![n] = IF @ > 0 THEN @ - 1 ELSE 0]
  /\ EndAttempt
  /\ wave' = [wave EXCEPT ![n] = "queued"]
  /\ at' = [at EXCEPT ![n] = "cooldown"]
  /\ UNCHANGED <<used, stuck, nodeFrame>>

InfraUncounted(n) ==
  /\ HasReturned(n)
  /\ "infra" \in Env
  /\ infra[n] + 1 < MaxInfra
  /\ attempts' = [attempts EXCEPT ![n] = IF @ > 0 THEN @ - 1 ELSE 0]
  /\ used' = [used EXCEPT ![n] = @ - 1]
  /\ EndAttempt
  /\ wave' = [wave EXCEPT ![n] = "queued"]
  /\ at' = [at EXCEPT ![n] = "cooldown"]
  /\ UNCHANGED <<infra, stuck, nodeFrame>>

\* An infrastructure failure below the streak cap: the attempt is given back
\* and the coroutine sleeps through the provider's cooldown.
InfraFailure(n) ==
  /\ HasReturned(n)
  /\ "infra" \in Env
  /\ infra[n] + 1 < MaxInfra
  /\ infra' = [infra EXCEPT ![n] = @ + 1]
  /\ attempts' = [attempts EXCEPT ![n] = IF @ > 0 THEN @ - 1 ELSE 0]
  /\ used' = [used EXCEPT ![n] = @ - 1]
  /\ EndAttempt
  /\ wave' = [wave EXCEPT ![n] = "queued"]
  /\ at' = [at EXCEPT ![n] = "cooldown"]
  /\ UNCHANGED <<stuck, nodeFrame>>

CooldownOver(n) ==
  /\ pc = "gather" /\ n \in flight /\ at[n] = "cooldown"
  /\ at' = [at EXCEPT ![n] = "loop"]
  /\ UNCHANGED <<ledgerVars, nodeFrame, used, infra, stuck>>

\* At the cap the attempt stays spent.  The streak is not reset; it is only
\* compared with the cap, so it is kept there.
InfraCap(n) ==
  /\ HasReturned(n)
  /\ "infra" \in Env
  /\ infra[n] + 1 >= MaxInfra
  /\ infra' = [infra EXCEPT ![n] = MaxInfra]
  /\ EndAttempt
  /\ Retry(n)
  /\ UNCHANGED <<attempts, used, stuck, nodeFrame>>

\* Mutant of CostAfterDispatch: the finalizer does not run.
CostLeavesRunning(n) ==
  /\ HasReturned(n)
  /\ overBudget
  /\ EndAttempt
  /\ Return(n, "cost", wave[n])
  /\ UNCHANGED <<attempts, nodeFrame>>

\* The budget was reached meanwhile (by a sibling: this attempt's own cost is
\* not recorded yet).  The attempt is spent and the finalizer requeues.
CostAfterDispatch(n) ==
  /\ HasReturned(n)
  /\ overBudget
  /\ EndAttempt
  /\ Return(n, "cost", "queued")
  /\ UNCHANGED <<attempts, nodeFrame>>

\* Failed, timed out, or done with a scope breach that was reverted.
AttemptFailed(n) ==
  /\ HasReturned(n)
  /\ ~overBudget
  /\ infra' = [infra EXCEPT ![n] = 0]
  /\ NoteProgress(n)
  /\ EndAttempt
  /\ Retry(n)
  /\ UNCHANGED <<attempts, used, nodeFrame>>

QuotaExhausted(n) ==
  /\ HasReturned(n)
  /\ "quota" \in Env
  /\ ~overBudget
  /\ EndAttempt
  /\ Return(n, "quota", "queued")
  /\ UNCHANGED <<attempts, nodeFrame>>

\* Done within scope: on to the gauntlet if the wave has one, else to verify.
WorkDelivered(n) ==
  /\ HasReturned(n)
  /\ ~overBudget
  /\ infra' = [infra EXCEPT ![n] = 0]
  /\ NoteProgress(n)
  /\ LET next == IF n \in Gauntlet THEN <<"gauntlet", "quality_loop">>
                                   ELSE <<"verify", "verifying">>
     IN /\ at' = [at EXCEPT ![n] = next[1]]
        /\ wave' = [wave EXCEPT ![n] = next[2]]
  /\ UNCHANGED <<attempts, overBudget, used, nodeFrame>>

InGauntlet(n) == pc = "gather" /\ n \in flight /\ at[n] = "gauntlet"
InVerify(n)   == pc = "gather" /\ n \in flight /\ at[n] = "verify"

GauntletPassed(n) ==
  /\ InGauntlet(n)
  /\ at' = [at EXCEPT ![n] = "verify"]
  /\ wave' = [wave EXCEPT ![n] = "verifying"]
  /\ UNCHANGED <<attempts, overBudget, used, infra, stuck, nodeFrame>>

\* A failed gauntlet ends the wave without a retry.
GauntletFailed(n) ==
  /\ InGauntlet(n)
  /\ EndAttempt
  /\ \E w \in {"unverified", "failed"} : Return(n, "quality", w)
  /\ UNCHANGED <<attempts, nodeFrame>>

VerifyPassed(n) ==
  /\ InVerify(n)
  /\ EndAttempt
  /\ Return(n, "done", "done")
  /\ UNCHANGED <<attempts, nodeFrame>>

VerifyFailed(n) ==
  /\ InVerify(n)
  /\ EndAttempt
  /\ Retry(n)
  /\ UNCHANGED <<attempts, used, infra, stuck, nodeFrame>>

\* Anything else raised in the coroutine: the finalizer requeues a stale wave
\* (a wave in the gauntlet is not stale to it), gather turns the exception
\* into a blocked result.
CoroutineRaised(n) ==
  /\ pc = "gather" /\ n \in flight /\ at[n] \in {"loop", "running", "gauntlet", "verify"}
  /\ "raise" \in Env
  /\ Return(n, "blocked", IF wave[n] \in StaleStates THEN "queued" ELSE wave[n])
  /\ UNCHANGED <<attempts, overBudget, nodeFrame>>

NodeStep(n) ==
  \/ StopForCost(n)       \/ EscalateStuck(n)  \/ Exhaust(n)
  \/ BeginAttempt(n)      \/ DispatchRaised(n) \/ InfraFailure(n)
  \/ CooldownOver(n)      \/ InfraCap(n)       \/ CostAfterDispatch(n)
  \/ AttemptFailed(n)     \/ QuotaExhausted(n) \/ WorkDelivered(n)
  \/ GauntletPassed(n)    \/ GauntletFailed(n) \/ VerifyPassed(n)
  \/ VerifyFailed(n)      \/ CoroutineRaised(n)

-----------------------------------------------------------------------------
(* Crashes, and the operator's commands.                                   *)

Crash ==
  /\ pc # "down" /\ "crash" \in Env
  /\ EndSession
  /\ UNCHANGED <<ledgerVars, dirVars>>

\* Ctrl-C cancels the coroutines; each one's finalizer requeues its wave.
Interrupt ==
  /\ pc = "gather" /\ "crash" \in Env
  /\ wave' = Requeue(flight \cap InState(StaleStates))
  /\ EndSession
  /\ UNCHANGED <<runState, attempts, overBudget, dirVars>>

RequestPause ==
  /\ "pause" \in Env /\ ~pauseMarker
  /\ loc = "processing"
  /\ pauseMarker' = TRUE
  /\ UNCHANGED <<ledgerVars, loc, approved, driverVars, nodeVars>>

\* Mutant of Approve: only a run that an engine is driving is approved.
ApproveDriven ==
  /\ Pre0 /\ ~approved
  /\ loc = "processing" /\ pc # "down"
  /\ approved' = TRUE
  /\ UNCHANGED <<ledgerVars, loc, pauseMarker, driverVars, nodeVars>>

Approve ==
  /\ Pre0 /\ ~approved
  /\ loc = "processing"
  /\ approved' = TRUE
  /\ UNCHANGED <<ledgerVars, loc, pauseMarker, driverVars, nodeVars>>

\* tripll resume of a run under failed/: first the directory moves back ...
Reactivate ==
  /\ pc = "down" /\ loc = "failed"
  /\ loc' = "processing"
  /\ pc' = "recover"
  /\ UNCHANGED <<ledgerVars, approved, pauseMarker, batch, done, blocked,
                 flight, nodeVars>>

\* Blocked waves start over with a clean attempt history; the operator may
\* have raised the budget.
RestartWaves(S) ==
  /\ wave' = Requeue(S)
  /\ attempts' = [n \in Node |-> IF n \in S THEN 0 ELSE attempts[n]]
  /\ overBudget' \in {overBudget, FALSE}

\* ... then the ledger is recovered and the engine started.
Recover ==
  /\ pc = "recover"
  /\ CanMoveRun(runState, "paused")
  /\ runState' = "paused"
  /\ RestartWaves(InState({"blocked"}))
  /\ pc' = "gate"
  /\ UNCHANGED <<dirVars, batch, done, blocked, flight, nodeVars>>

\* tripll resume of a run under processing/.
Resume ==
  /\ pc = "down" /\ loc = "processing"
  /\ RestartWaves(InState(StaleStates \cup {"blocked"}))
  /\ pc' = "gate"
  /\ UNCHANGED <<runState, dirVars, batch, done, blocked, flight, nodeVars>>
-----------------------------------------------------------------------------
GateStep == GateOpen \/ GateAutoAccept \/ GatePark \/ GateFail

DriverStep ==
  \/ Recover     \/ GateStep     \/ PrepareRefused \/ Prepare
  \/ BatchDrained \/ Deadlocked  \/ PauseExit      \/ ExternalExit
  \/ DeadlineExit \/ Dispatch    \/ RoundOver      \/ RoundPaused
  \/ Conclude    \/ FileRun

OperatorStep == RequestPause \/ Approve \/ Reactivate \/ Resume

\* A run under processed/ is finished: resume refuses it.
Completed == pc = "down" /\ loc = "processed" /\ UNCHANGED vars

Next ==
  \/ DriverStep
  \/ \E n \in Node : NodeStep(n)
  \/ OperatorStep
  \/ Crash \/ Interrupt
  \/ Completed

Spec == Init /\ [][Next]_vars

\* The event loop runs every coroutine that can go on: a dispatch ends at the
\* latest by its wall-clock limit, a cooldown is a finite sleep.
EngineFairness ==
  /\ WF_vars(DriverStep)
  /\ \A n \in Node : WF_vars(NodeStep(n))

\* An operator who does what the runbook says: approve, and resume a run that
\* has stopped.
OperatorFairness == WF_vars(Approve) /\ WF_vars(Reactivate \/ Resume)

FairSpec     == Spec /\ EngineFairness
OperatedSpec == FairSpec /\ OperatorFairness

-----------------------------------------------------------------------------
(* What must always hold.                                                  *)

\* A wave is worked on only when the ledger says that all it depends on is
\* done: the driver's own set of done waves never runs ahead of the ledger,
\* across rounds, crashes, resumes and gate completions.
WorkAfterDeps ==
  \A n \in flight : \A d \in Deps[n] : wave[d] = "done"

\* Two waves that claim overlapping paths are never in flight together.
NoClashInFlight ==
  \A m, n \in flight : m # n => <<m, n>> \notin Clash

\* The coroutine's attempts_used, which guards the retry budget, is the
\* ledger's attempt_count, which survives a crash, through retries and
\* attempts that were given back.
RetryBudgetAgrees ==
  \A n \in flight : at[n] \in Working => used[n] = attempts[n]

\* No sham green: a run the ledger calls done, and a run filed under
\* processed/, has every wave of every batch done.
DoneRunIsComplete ==
  runState = "done" \/ loc = "processed" =>
    \A i \in 1 .. Len(Batches) : \A n \in Batches[i] : wave[n] = "done"

\* A run that is not active has no wave whose ledger row claims a live
\* dispatch: what an operator (or an inject) sees of a stopped run is true.
StoppedRunIsQuiet ==
  runState # "active" => InState(StaleStates) = {}

\* Folder and verdict go together once the run has been filed.
FiledByVerdict ==
  /\ loc = "processed" => runState = "done"
  /\ loc = "failed" => runState = "failed"

\* A done wave is never dispatched again and spends no further attempt.
DoneIsFinal ==
  [][\A n \in Node : wave[n] = "done" =>
       wave'[n] = "done" /\ attempts'[n] = attempts[n]]_vars

\* The engine never asks the ledger for a move the ledger would refuse.  (A
\* blocked gate wave is queued before it is done, in one step of Prepare.)
LedgerGuardsRespected ==
  [][/\ CanMoveRun(runState, runState')
     /\ \A n \in Node \ HumanGate : CanMoveWave(wave[n], wave'[n])]_vars

\* Every engine session comes to an end: retries, infra failures that give
\* the attempt back, cooldowns and gates cannot keep it going for ever.
SessionEnds == (pc # "down") ~> (pc = "down")

\* With an operator who approves and resumes, the run leaves processing/.  The
\* ways to miss it: a pause marker, which nothing removes; a verdict whose
\* filing was cut off, which every resume trips over; and being stopped again
\* and again by crashes, quotas, the budget or the deadline.
RunIsFiled ==
  \/ <>(loc # "processing" \/ pauseMarker)
  \/ <>[](runState \in TerminalRunStates)
  \/ []<><<Crash \/ Interrupt \/ RoundPaused \/ DeadlineExit>>_vars

-----------------------------------------------------------------------------
(* The run as its operator sees it, and the contract it implements.        *)

BatchNodes == UNION {Batches[i] : i \in 1 .. Len(Batches)}

Contract == INSTANCE RunContract WITH
  Required <- BatchNodes,
  Gate     <- HumanGate,
  outcome  <- IF runState \in TerminalRunStates THEN runState ELSE "open",
  finished <- InState({"done"}),
  working  <- {n \in flight : at[n] \in Working}

\* The driver, its coroutines, crashes and resumes implement RunContract.
ImplementsContract == Contract!CSpec
=============================================================================
