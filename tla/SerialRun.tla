----------------------------- MODULE SerialRun -----------------------------
(***************************************************************************)
(* Orchestrator mode: one wave at a time on one feature branch             *)
(* (engine_orchestrator), a commit and a push per wave, a human review     *)
(* after the waves that ask for one (hitl), and the operator's answers,    *)
(* approvals and resumes, from the terminal, the dashboard or a command    *)
(* that waits for them (cli/_shared).                                      *)
(*                                                                         *)
(* The attempt loop of a wave is WaveRun's subject: here a dispatch ends   *)
(* in one of its outcomes.  What this module adds is the serial drive,     *)
(* which has its own treatment of every outcome, and the gate protocol     *)
(* over marker files that both sides read and write without a lock.        *)
(***************************************************************************)
EXTENDS RunLedger, Naturals, Sequences, FiniteSets

CONSTANTS
  Node,          \* the waves of the run's graph
  Listed,        \* orchestrator.serial_waves
  Topo,          \* the graph's waves in topological order; waves on a cycle of
                 \* dependencies are not among them
  GateWave,      \* waves with a review gate
  HumanGate,     \* waves of human-gate batches
  Pre0,          \* does the graph have Pre-0 gates?
  Gauntlet,      \* waves whose outcome contract enables the quality gauntlet
  CommitPerWave, \* orchestrator.commit_per_wave
  Waits,         \* was the command given --wait-for-hitl?
  None,          \* no gate, form or answers
  PreZero,       \* the Pre-0 gate, as a form and as a pending gate
  Env            \* what the environment may do in this instance

EnvEvents ==
  {"quota", "raise", "pushfail", "commitfail", "canary", "autogate",
   "failgate", "agent", "pause", "crash", "eager"}

SeqSet(s) == {s[i] : i \in DOMAIN s}

ASSUME ConstantsAssumption ==
  /\ Listed \in Seq(Node)
  /\ Topo \in Seq(Node)
  /\ \A i, j \in DOMAIN Topo : Topo[i] = Topo[j] => i = j
  /\ GateWave \subseteq Node
  /\ HumanGate \subseteq Node
  /\ Pre0 \in BOOLEAN
  /\ Gauntlet \subseteq Node
  /\ CommitPerWave \in BOOLEAN
  /\ Waits \in BOOLEAN
  /\ None \notin Node \cup {PreZero}
  /\ PreZero \notin Node
  /\ Env \subseteq EnvEvents

VARIABLES
  \* the ledger and the feature branch
  runState,     \* runs.state
  wave,         \* waves.state
  pushed,       \* waves whose work has reached the remote branch
  \* the run directory
  loc,          \* the folder that holds it
  approved,     \* pre0-approved exists
  pauseMarker,  \* pause-requested.md exists
  gatePending,  \* the wave named in review-gate-pending.md
  gateApproved, \* the wave named in review-gate-approved
  form,         \* the gate hitl-form.json asks about
  answers,      \* the form that hitl-responses.json answers completely
  \* the command and its engine
  pc,           \* where it stands; "down" when there is none
  pos,          \* index of the serial loop
  done,         \* the driver's set of completed waves
  blocked,      \* the driver's list of blocked waves
  \* history
  reviewed      \* gates that the operator or the gate agent has passed

ledgerVars == <<runState, wave, pushed>>
gateVars   == <<gatePending, gateApproved, form, answers, reviewed>>
dirVars    == <<loc, approved, pauseMarker>>
driverVars == <<pc, pos, done, blocked>>
vars == <<ledgerVars, gateVars, dirVars, driverVars>>

\* The waves the prompt lists, then those of _topological_sort_nodes that it
\* does not.
Unlisted == {i \in DOMAIN Topo : Topo[i] \notin SeqSet(Listed)}
NthUnlisted(k) == CHOOSE i \in Unlisted : Cardinality({j \in Unlisted : j <= i}) = k
Order == Listed \o [k \in 1 .. Cardinality(Unlisted) |-> Topo[NthUnlisted(k)]]

Current == Order[pos]

Executing == {"work", "gauntlet", "verify", "push", "record"}
GateSteps == {"mark", "form", "verdict"}

TypeOK ==
  /\ runState \in RunStates
  /\ wave \in [Node -> WaveStates]
  /\ pushed \subseteq Node
  /\ loc \in {"processing", "processed", "failed"}
  /\ approved \in BOOLEAN
  /\ pauseMarker \in BOOLEAN
  /\ gatePending \in GateWave \cup {None}
  /\ gateApproved \in GateWave \cup {None}
  /\ form \in GateWave \cup {PreZero, None}
  /\ answers \in GateWave \cup {PreZero, None}
  /\ pc \in {"down", "recover", "gate", "prepare", "pick", "file", "await"}
              \cup Executing \cup GateSteps
  /\ pos \in 1 .. Len(Order) + 1
  /\ done \subseteq Node
  /\ blocked \subseteq Node
  /\ reviewed \subseteq GateWave

\* Engine.start has written the ledger and enters _drive.
Init ==
  /\ runState = "active"
  /\ wave = [n \in Node |-> "queued"]
  /\ pushed = {}
  /\ loc = "processing"
  /\ approved = FALSE
  /\ pauseMarker = FALSE
  /\ gatePending = None
  /\ gateApproved = None
  /\ form = None
  /\ answers = None
  /\ pc = "gate"
  /\ pos = 1
  /\ done = {}
  /\ blocked = {}
  /\ reviewed = {}

-----------------------------------------------------------------------------
(* detect_pending_gate, and the ways a session ends.                       *)

\* A review gate is pending while its marker exists and no approval marker
\* does; the approval marker of an earlier gate counts as well.
Pending ==
  IF gatePending # None /\ gateApproved = None THEN gatePending
  ELSE IF Pre0 /\ ~approved THEN PreZero ELSE None

\* The engine is gone, and its variables with it.
EngineGone ==
  /\ pos' = 1
  /\ done' = {}
  /\ blocked' = {}

CommandEnds ==
  /\ EngineGone
  /\ pc' = "down"

\* The engine returns a paused result.  hitl_pending makes a waiting command
\* wait.  (Its loop would also wait for a gate that is pending under another
\* pause; none can be, once a gate of the run has been approved.)
Return(asks) ==
  /\ EngineGone
  /\ pc' = IF Waits /\ asks THEN "await" ELSE "down"

InState(S) == {n \in Node : wave[n] \in S}
Requeue(S) == [n \in Node |-> IF n \in S THEN "queued" ELSE wave[n]]
TryRun(to) == runState' = IF CanMoveRun(runState, to) THEN to ELSE runState

-----------------------------------------------------------------------------
(* _drive: the Pre-0 gate, then startup reconciliation.                    *)

AtGate == pc = "gate" /\ Pre0 /\ ~approved

GateOpen ==
  /\ pc = "gate"
  /\ Pre0 => approved
  /\ pc' = "prepare"
  /\ UNCHANGED <<ledgerVars, gateVars, dirVars, pos, done, blocked>>

GateAutoAccept ==
  /\ AtGate /\ "autogate" \in Env
  /\ approved' = TRUE
  /\ pc' = "prepare"
  /\ UNCHANGED <<ledgerVars, gateVars, loc, pauseMarker, pos, done, blocked>>

\* The decision sheet and the form are written and the run is paused.
GatePark ==
  /\ AtGate
  /\ form' = PreZero
  /\ TryRun("paused")
  /\ Return(TRUE)
  /\ UNCHANGED <<wave, pushed, gatePending, gateApproved, answers, reviewed,
                 dirVars>>

\* auto_accept with a red canary: the result is "parked", nobody waits for it.
GateCanary ==
  /\ AtGate /\ "canary" \in Env
  /\ TryRun("paused")
  /\ CommandEnds
  /\ UNCHANGED <<wave, pushed, gateVars, dirVars>>

GateFail ==
  /\ AtGate /\ "failgate" \in Env
  /\ TryRun("failed")
  /\ CommandEnds
  /\ UNCHANGED <<wave, pushed, gateVars, dirVars>>

Cleared == IF approved THEN HumanGate ELSE {}

PrepareRefused ==
  /\ pc = "prepare"
  /\ ~CanMoveRun(runState, "active")
  /\ wave' = Requeue(InState(StaleStates))
  /\ CommandEnds
  /\ UNCHANGED <<runState, pushed, gateVars, dirVars>>

Prepare ==
  /\ pc = "prepare"
  /\ CanMoveRun(runState, "active")
  /\ runState' = "active"
  /\ wave' = [n \in Node |-> IF n \in Cleared THEN "done"
                             ELSE Requeue(InState(StaleStates))[n]]
  /\ done' = InState({"done"}) \cup Cleared
  /\ blocked' = InState({"blocked"}) \ Cleared
  /\ pc' = "pick"
  /\ pos' = 1
  /\ UNCHANGED <<pushed, gateVars, dirVars>>
-----------------------------------------------------------------------------
(* _drive_orchestrator_serial: the loop over the serial order.             *)

AtWave == pc = "pick" /\ pos <= Len(Order)

Advance == pc' = "pick" /\ pos' = pos + 1

SkipSettled ==
  /\ AtWave
  /\ Current \in done \cup blocked
  /\ Advance
  /\ UNCHANGED <<ledgerVars, gateVars, dirVars, done, blocked>>

PauseExit ==
  /\ AtWave
  /\ Current \notin done \cup blocked
  /\ pauseMarker
  /\ runState' = "paused"
  /\ Return(FALSE)
  /\ UNCHANGED <<wave, pushed, gateVars, dirVars>>

\* Nothing but the pause marker is looked at: not what became of the waves
\* this one depends on.
Dispatch ==
  /\ AtWave
  /\ Current \notin done \cup blocked
  /\ ~pauseMarker
  /\ wave' = [wave EXCEPT ![Current] = "running"]
  /\ pc' = "work"
  /\ UNCHANGED <<runState, pushed, gateVars, dirVars, pos, done, blocked>>

SetWave(w) == wave' = [wave EXCEPT ![Current] = w]

\* A dispatch that returned done within scope.
WorkDelivered ==
  /\ pc = "work"
  /\ SetWave(IF Current \in Gauntlet THEN "quality_loop" ELSE "verifying")
  /\ pc' = IF Current \in Gauntlet THEN "gauntlet" ELSE "verify"
  /\ UNCHANGED <<runState, pushed, gateVars, dirVars, pos, done, blocked>>

GauntletPassed ==
  /\ pc = "gauntlet"
  /\ SetWave("verifying")
  /\ pc' = "verify"
  /\ UNCHANGED <<runState, pushed, gateVars, dirVars, pos, done, blocked>>

\* The result is "unverified" or "failed": no branch of the loop takes it, the
\* wave joins neither done nor blocked.
GauntletFailed ==
  /\ pc = "gauntlet"
  /\ \E w \in {"unverified", "failed"} : SetWave(w)
  /\ Advance
  /\ UNCHANGED <<runState, pushed, gateVars, dirVars, done, blocked>>

\* Mutants of WaveBlocked: the wave is taken up again at once; the driver does
\* not keep it.
BlockedRetried ==
  /\ pc \in {"work", "verify"}
  /\ SetWave("blocked")
  /\ pc' = "pick"
  /\ UNCHANGED <<runState, pushed, gateVars, dirVars, pos, done, blocked>>

BlockedDropped ==
  /\ pc \in {"work", "verify"}
  /\ SetWave("blocked")
  /\ Advance
  /\ UNCHANGED <<runState, pushed, gateVars, dirVars, done, blocked>>

\* The attempts are spent, no progress was made or the dispatch raised: the
\* loop goes on with the next wave, which may depend on this one.
WaveBlocked ==
  /\ pc \in {"work", "verify"}
  /\ SetWave("blocked")
  /\ blocked' = blocked \cup {Current}
  /\ Advance
  /\ UNCHANGED <<runState, pushed, gateVars, dirVars, done>>

\* Quota or cost: the run is reported paused, its row stays active.
QuotaOrCostPause ==
  /\ pc = "work" /\ "quota" \in Env
  /\ SetWave("queued")
  /\ Return(FALSE)
  /\ UNCHANGED <<runState, pushed, gateVars, dirVars>>

\* An exception leaves _execute_node: its finalizer requeues a stale wave and
\* the command dies with the run's row as it was.
Raised ==
  /\ pc \in Executing /\ "raise" \in Env
  /\ wave' = Requeue({Current} \cap InState(StaleStates))
  /\ CommandEnds
  /\ UNCHANGED <<runState, pushed, gateVars, dirVars>>

VerifyPassed ==
  /\ pc = "verify"
  /\ pc' = IF CommitPerWave THEN "push" ELSE "record"
  /\ UNCHANGED <<ledgerVars, gateVars, dirVars, pos, done, blocked>>

\* commit_and_push_wave
Push ==
  /\ pc = "push"
  /\ pushed' = pushed \cup {Current}
  /\ pc' = "record"
  /\ UNCHANGED <<runState, wave, gateVars, dirVars, pos, done, blocked>>

\* Mutant of PushFailed: the failure is reported and the wave goes on.
PushIgnored ==
  /\ pc = "push" /\ "pushfail" \in Env
  /\ pc' = "record"
  /\ UNCHANGED <<ledgerVars, gateVars, dirVars, pos, done, blocked>>

\* The wave is blocked and the run paused; a failed push stops the drive.
PushFailed ==
  /\ pc = "push" /\ "pushfail" \in Env
  /\ SetWave("blocked")
  /\ runState' = "paused"
  /\ Return(FALSE)
  /\ UNCHANGED <<pushed, gateVars, dirVars>>

\* Any other failure to commit pauses the run's row too, but the message does
\* not say "push": the drive goes on.
CommitFailed ==
  /\ pc = "push" /\ "commitfail" \in Env
  /\ SetWave("blocked")
  /\ runState' = "paused"
  /\ blocked' = blocked \cup {Current}
  /\ Advance
  /\ UNCHANGED <<pushed, gateVars, dirVars, done>>

RecordDone ==
  /\ pc = "record"
  /\ SetWave("done")
  /\ done' = done \cup {Current}
  /\ IF Current \in GateWave
     THEN pc' = "mark" /\ UNCHANGED <<pos>>
     ELSE Advance
  /\ UNCHANGED <<runState, pushed, gateVars, dirVars, blocked>>
-----------------------------------------------------------------------------
(* _handle_review_gate                                                     *)

\* The pause marker is written ...
MarkGate ==
  /\ pc = "mark"
  /\ gatePending' = Current
  /\ pc' = "form"
  /\ UNCHANGED <<ledgerVars, gateApproved, form, answers, reviewed, dirVars,
                 pos, done, blocked>>

\* ... then the form is built from the run directory and written.
WriteGateForm ==
  /\ pc = "form"
  /\ form' = Current
  /\ pc' = "verdict"
  /\ UNCHANGED <<ledgerVars, gatePending, gateApproved, answers, reviewed,
                 dirVars, pos, done, blocked>>

\* The headless gate agent answers "proceed".
AgentPasses ==
  /\ pc = "verdict" /\ "agent" \in Env
  /\ gateApproved' = Current
  /\ gatePending' = None
  /\ reviewed' = reviewed \cup {Current}
  /\ Advance
  /\ UNCHANGED <<ledgerVars, form, answers, dirVars, done, blocked>>

\* Mutant of GateStops: the run is paused and the loop goes on.
GateRunsOn ==
  /\ pc = "verdict"
  /\ runState' = "paused"
  /\ Advance
  /\ UNCHANGED <<wave, pushed, gateVars, dirVars, done, blocked>>

GateStops ==
  /\ pc = "verdict"
  /\ runState' = "paused"
  /\ Return(TRUE)
  /\ UNCHANGED <<wave, pushed, gateVars, dirVars>>

-----------------------------------------------------------------------------
(* The verdict.                                                            *)

Conclude ==
  /\ pc = "pick" /\ pos > Len(Order)
  /\ runState' = IF blocked = {} THEN "done" ELSE "failed"
  /\ pc' = "file"
  /\ UNCHANGED <<wave, pushed, gateVars, dirVars, pos, done, blocked>>

\* Mutant of FileRun: every run is archived.
FileAnyRun ==
  /\ pc = "file"
  /\ loc' = "processed"
  /\ CommandEnds
  /\ UNCHANGED <<ledgerVars, gateVars, approved, pauseMarker>>

FileRun ==
  /\ pc = "file"
  /\ loc' = IF blocked = {} THEN "processed" ELSE "failed"
  /\ CommandEnds
  /\ UNCHANGED <<ledgerVars, gateVars, approved, pauseMarker>>

-----------------------------------------------------------------------------
(* The operator, and the command that waits for the operator.              *)

\* The interview or the dashboard saves complete answers to the current form.
Answer ==
  /\ form # None /\ answers # form
  /\ loc = "processing"
  /\ answers' = form
  /\ UNCHANGED <<ledgerVars, gatePending, gateApproved, form, reviewed, dirVars,
                 driverVars>>

PassPending ==
  IF Pending = PreZero
  THEN /\ approved' = TRUE
       /\ UNCHANGED <<gatePending, gateApproved, reviewed>>
  ELSE /\ gateApproved' = gatePending
       /\ gatePending' = None
       /\ reviewed' = reviewed \cup {gatePending}
       /\ UNCHANGED approved

\* Mutant of CanApprove: the answers are not looked at.
CanApproveUnread == Pending # None /\ form # None

\* approve_gate: a pending gate, a form, and complete answers to that form.
CanApprove == Pending # None /\ form # None /\ answers = form

\* tripll approve and POST .../hitl/approve
Approve ==
  /\ CanApprove
  /\ loc = "processing"
  /\ PassPending
  /\ UNCHANGED <<ledgerVars, form, answers, loc, pauseMarker, driverVars>>

\* Engine.approve when no form has been written yet.
ApproveLegacy ==
  /\ form = None
  /\ loc = "processing"
  /\ IF Pending \in GateWave
     THEN PassPending
     ELSE ~approved /\ approved' = TRUE
          /\ UNCHANGED <<gatePending, gateApproved, reviewed>>
  /\ UNCHANGED <<ledgerVars, form, answers, loc, pauseMarker, driverVars>>

\* _wait_for_hitl_loop sees complete answers, approves and drives on.
WaiterApproves ==
  /\ pc = "await"
  /\ CanApprove
  /\ PassPending
  /\ pc' = "gate"
  /\ UNCHANGED <<ledgerVars, form, answers, loc, pauseMarker, pos, done, blocked>>

\* The operator interrupts a waiting command.
AbandonWait ==
  /\ pc = "await"
  /\ CommandEnds
  /\ UNCHANGED <<ledgerVars, gateVars, dirVars>>

RequestPause ==
  /\ "pause" \in Env /\ ~pauseMarker
  /\ loc = "processing"
  /\ pauseMarker' = TRUE
  /\ UNCHANGED <<ledgerVars, gateVars, loc, approved, driverVars>>

\* The operator approves a review before resuming, unless "eager": the resume
\* itself looks at no review marker.
MayResume == "eager" \in Env \/ Pending \notin GateWave

Reactivate ==
  /\ pc = "down" /\ loc = "failed" /\ MayResume
  /\ loc' = "processing"
  /\ pc' = "recover"
  /\ UNCHANGED <<ledgerVars, gateVars, approved, pauseMarker, pos, done, blocked>>

Recover ==
  /\ pc = "recover"
  /\ CanMoveRun(runState, "paused")
  /\ runState' = "paused"
  /\ wave' = Requeue(InState({"blocked"}))
  /\ pc' = "gate"
  /\ UNCHANGED <<pushed, gateVars, dirVars, pos, done, blocked>>

\* Waves left failed, unverified or in quality_loop are not requeued: the loop
\* takes them up as they are.
Resume ==
  /\ pc = "down" /\ loc = "processing" /\ MayResume
  /\ wave' = Requeue(InState(StaleStates \cup {"blocked"}))
  /\ pc' = "gate"
  /\ UNCHANGED <<runState, pushed, gateVars, dirVars, pos, done, blocked>>

\* The command is killed, or its host dies.
Crash ==
  /\ pc # "down" /\ "crash" \in Env
  /\ CommandEnds
  /\ UNCHANGED <<ledgerVars, gateVars, dirVars>>
-----------------------------------------------------------------------------
DriveStep ==
  \/ GateOpen \/ GateAutoAccept \/ GatePark \/ GateCanary \/ GateFail
  \/ PrepareRefused \/ Prepare
  \/ SkipSettled \/ PauseExit \/ Dispatch
  \/ WorkDelivered \/ GauntletPassed \/ GauntletFailed \/ WaveBlocked
  \/ QuotaOrCostPause \/ Raised \/ VerifyPassed
  \/ Push \/ PushFailed \/ CommitFailed \/ RecordDone
  \/ MarkGate \/ WriteGateForm \/ AgentPasses \/ GateStops
  \/ Conclude \/ FileRun \/ Recover

OperatorStep ==
  \/ Answer \/ Approve \/ ApproveLegacy \/ RequestPause \/ Reactivate \/ Resume
  \/ AbandonWait

Completed == pc = "down" /\ loc = "processed" /\ UNCHANGED vars

\* A poll that finds nothing to do.
Poll == pc = "await" /\ UNCHANGED vars

Next == DriveStep \/ WaiterApproves \/ OperatorStep \/ Crash \/ Completed \/ Poll

Spec == Init /\ [][Next]_vars

\* The engine and the polling loop run on; a dispatch ends by its wall-clock
\* limit.
FairSpec == Spec /\ WF_vars(DriveStep) /\ WF_vars(WaiterApproves)

\* An operator who answers, approves and resumes, as the runbook says.
OperatedSpec ==
  /\ FairSpec
  /\ WF_vars(Answer)
  /\ WF_vars(Approve \/ ApproveLegacy)
  /\ WF_vars(Reactivate \/ Resume)

-----------------------------------------------------------------------------
(* What must always hold.                                                  *)

\* With a commit per wave, the ledger calls a wave done only when its work is
\* on the remote branch, whatever fails or dies in between.
DoneIsPushed ==
  CommitPerWave => InState({"done"}) \subseteq pushed \cup HumanGate

\* A run called done or filed as done has every wave done, except those whose
\* gauntlet failed: the verdict has no branch for them.
DoneRunIsComplete ==
  runState = "done" \/ loc = "processed" =>
    \A n \in Node : wave[n] = "done" \/ (n \in Gauntlet /\ wave[n] \in {"failed", "unverified"})

\* Folder and verdict go together once the run has been filed.
FiledByVerdict ==
  /\ loc = "processed" => runState = "done"
  /\ loc = "failed" => runState = "failed"

\* While the run shows the operator a pending review, no wave is worked on,
\* however the session that wrote the marker ended.
NoWorkUnderPendingGate ==
  pc \in Executing => Pending \notin GateWave

\* The pause marker of a gate is there and its form is not (yet).
BetweenWrites == gatePending # None /\ form # gatePending

\* A done wave stays done: it is not dispatched again.
DoneIsFinal == [][\A n \in Node : wave[n] = "done" => wave'[n] = "done"]_vars

\* A review gate whose form has been written is approved, once the engine has
\* stopped at it, only by an operator who has answered that very form.  (After
\* a crash between the two writes of a gate, the answers to an earlier form or
\* none at all are enough.)
ApprovalIsInformed ==
  [][(pc \in {"down", "await"} /\ gateApproved' # gateApproved /\ ~BetweenWrites)
        => gateApproved' = answers]_vars

\* Every engine session ends, or hands over to the wait loop.
SessionEnds == pc \notin {"down", "await"} ~> pc \in {"down", "await"}

\* With an operator who answers, approves and resumes, the run is filed.  The
\* ways to miss it: a pause marker, which nothing removes; a verdict whose
\* filing was cut off; a waiting command that is left alone after its gate was
\* passed elsewhere; and being stopped again and again.
RunIsFiled ==
  \/ <>(loc # "processing" \/ pauseMarker)
  \/ <>[](runState \in TerminalRunStates)
  \/ <>[](pc = "await" /\ Pending = None)
  \/ []<><<PushFailed \/ QuotaOrCostPause \/ Raised \/ Crash>>_vars
=============================================================================
