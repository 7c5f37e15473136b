------------------------------ MODULE OuterRun ------------------------------
(***************************************************************************)
(* The L1 outer loop: the nodes validate, waves, verify, commit, review    *)
(* and generate that _drive_via_outer_loop runs around one drive of the    *)
(* wave batches, the verdict it draws from what they leave in the graph's  *)
(* channels, and the resume of a run that it has stopped.                  *)
(*                                                                         *)
(* The edges are unconditional: after a pause or a failure every node      *)
(* still runs, and skips its work by looking at the channels.  A drive     *)
(* starts at START with a seed; the other channels keep, in a SQLite       *)
(* checkpoint, what the last drive left in them.  How waves are scheduled  *)
(* is WaveRun's subject: here a wave settles somehow, in any order.        *)
(***************************************************************************)
EXTENDS RunLedger, Naturals

CONSTANTS
  Node,        \* the waves of the run's batches
  MaxRetries,  \* how often the RetryPolicy repeats a node that raised
  Env          \* what may go wrong in this instance

\* "red": the final gates fail; "block", "pause", "external": ways for the
\* batches to end; "locked": the ledger is locked by another reader when a
\* node writes its snapshot; "crash": the process dies.
EnvEvents == {"red", "block", "pause", "external", "locked", "crash"}

ASSUME ConstantsAssumption ==
  /\ Node # {}
  /\ MaxRetries \in Nat
  /\ Env \subseteq EnvEvents

VARIABLES
  \* the ledger and the run directory
  runState,  \* runs.state
  wave,      \* waves.state
  loc,       \* the folder that holds the run directory
  manifest,  \* the done waves that outer-commit.json lists, if there is one
  \* the graph's channels, in checkpoints.db
  outcome,   \* wave_dispatch: how the drive of the batches ended
  green,     \* ci_green
  clean,     \* review_clean
  \* the engine process
  pc,        \* the node it is at; "down" when no engine runs
  tries,     \* how often the waves node has been repeated
  \* history
  gated      \* the waves that were done when the gates last passed

ledgerVars  == <<runState, wave>>
dirVars     == <<loc, manifest>>
channelVars == <<outcome, green, clean>>
vars == <<ledgerVars, dirVars, channelVars, pc, tries, gated>>

Outcomes == {"none", "done", "failed", "paused"}
Nodes == {"validate", "waves", "batches", "sync", "verify", "commit", "review",
          "generate", "conclude"}

InState(S) == {n \in Node : wave[n] \in S}
Done == InState({"done"})

\* Engine.start has written the run and its waves, and enters _drive.
Init ==
  /\ runState = "active"
  /\ wave = [n \in Node |-> "queued"]
  /\ loc = "processing"
  /\ manifest = {}
  /\ outcome = "none" /\ green = FALSE /\ clean = FALSE
  /\ pc = "validate"
  /\ tries = 0
  /\ gated = {}

Go(node) == pc' = node /\ UNCHANGED tries
Die      == pc' = "down" /\ tries' = 0

-----------------------------------------------------------------------------
(* The nodes.                                                              *)

\* validate only writes a snapshot.
Validate ==
  /\ pc = "validate" /\ Go("waves")
  /\ UNCHANGED <<ledgerVars, dirVars, channelVars, gated>>

\* drive_wave_batches: stale waves are requeued, then the run is activated.
WavesBegin ==
  /\ pc = "waves"
  /\ wave' = [n \in Node |-> IF wave[n] \in StaleStates THEN "queued" ELSE wave[n]]
  /\ IF CanMoveRun(runState, "active")
       THEN runState' = "active" /\ Go("batches")
       ELSE UNCHANGED runState /\ Die
  /\ UNCHANGED <<dirVars, channelVars, gated>>

Dispatch(n) ==
  /\ pc = "batches" /\ wave[n] = "queued"
  /\ wave' = [wave EXCEPT ![n] = "running"]
  /\ UNCHANGED <<runState, dirVars, channelVars, pc, tries, gated>>

\* A wave is done, or it is given up ("blocked" stands for the quality gates'
\* failed and unverified too), or its attempt is put off.
Settle(n) ==
  /\ pc = "batches" /\ wave[n] = "running"
  /\ \E s \in {"done"} \cup (IF "block" \in Env THEN {"blocked"} ELSE {})
                       \cup (IF "pause" \in Env THEN {"queued"} ELSE {}) :
       wave' = [wave EXCEPT ![n] = s]
  /\ UNCHANGED <<runState, dirVars, channelVars, pc, tries, gated>>

\* The batches are drained, or an exit stops the drive between two rounds; the
\* verdict is in the ledger before the node returns, and finalize_run = False
\* leaves the directory where it is.
WavesEnd ==
  /\ pc = "batches" /\ InState({"running"}) = {}
  /\ \/ InState({"queued"}) = {} /\ runState' = (IF Done = Node THEN "done" ELSE "failed")
     \/ InState({"queued"}) # {} /\ "pause" \in Env /\ runState' = "paused"
     \/ InState({"queued"}) # {} /\ "external" \in Env /\ runState' = "failed"
  /\ Go("sync")
  /\ UNCHANGED <<wave, dirVars, channelVars, gated>>

\* The node's last act is a snapshot in the ledger; its update reaches the
\* channels only when that has succeeded.
WavesReturn ==
  /\ pc = "sync"
  /\ outcome' = runState
  /\ Go("verify")
  /\ UNCHANGED <<ledgerVars, dirVars, green, clean, gated>>

\* The ledger is locked: the RetryPolicy starts the node again, a few times.
WavesRetried ==
  /\ pc = "sync" /\ "locked" \in Env
  /\ IF tries < MaxRetries THEN pc' = "waves" /\ tries' = tries + 1 ELSE Die
  /\ UNCHANGED <<ledgerVars, dirVars, channelVars, gated>>

\* invoke_outer_verify: the gates of the last batches, in the main checkout;
\* they are skipped, as not green, unless the drive ended as done.
Verify ==
  /\ pc = "verify"
  /\ \E ok \in {TRUE} \cup (IF "red" \in Env THEN {FALSE} ELSE {}) :
       /\ green' = (outcome = "done" /\ ok)
       /\ gated' = IF green' THEN Done ELSE gated
  /\ Go("commit")
  /\ UNCHANGED <<ledgerVars, dirVars, outcome, clean>>

\* invoke_outer_commit: no git commit, a manifest of the ledger's rows.
Commit ==
  /\ pc = "commit"
  /\ manifest' = IF green THEN Done ELSE manifest
  /\ Go("review")
  /\ UNCHANGED <<ledgerVars, loc, channelVars, gated>>

\* invoke_outer_review: some wave is done, and none has been given up.
Review ==
  /\ pc = "review"
  /\ clean' = (Done # {} /\ InState({"blocked"}) = {})
  /\ Go("generate")
  /\ UNCHANGED <<ledgerVars, dirVars, outcome, green, gated>>

\* invoke_outer_generate: review_generate_cycle is never set, so nothing is
\* generated and the node's result is always ok.
Generate ==
  /\ pc = "generate" /\ Go("conclude")
  /\ UNCHANGED <<ledgerVars, dirVars, channelVars, gated>>

\* Mutant: the verdict of the waves decides.
ConcludeByWaves ==
  /\ pc = "conclude"
  /\ loc' = CASE outcome = "done"   -> "processed"
              [] outcome = "failed" -> "failed"
              [] OTHER              -> loc
  /\ Die
  /\ UNCHANGED <<ledgerVars, manifest, channelVars, gated>>

\* The run is filed by what the channels say; the ledger keeps the verdict of
\* the waves.
Conclude ==
  /\ pc = "conclude"
  /\ loc' = CASE outcome = "paused"                     -> loc
              [] outcome = "done" /\ green /\ clean     -> "processed"
              [] OTHER                                  -> "failed"
  /\ Die
  /\ UNCHANGED <<ledgerVars, manifest, channelVars, gated>>

-----------------------------------------------------------------------------
(* Crashes and the operator.                                               *)

Crash ==
  /\ "crash" \in Env /\ pc # "down"
  /\ Die
  /\ UNCHANGED <<ledgerVars, dirVars, channelVars, gated>>

Requeue(S) == wave' = [n \in Node |-> IF wave[n] \in S THEN "queued" ELSE wave[n]]

\* _prepare_resume of a run under failed/: the directory moves back first; then
\* the ledger is asked to recover the run, which it refuses to a done one.
ResumeFailed ==
  /\ pc = "down" /\ loc = "failed"
  /\ loc' = "processing"
  /\ \/ /\ CanMoveRun(runState, "paused")
        /\ runState' = "paused" /\ Requeue({"blocked"}) /\ Go("validate")
     \/ /\ ~CanMoveRun(runState, "paused") \/ "crash" \in Env
        /\ UNCHANGED <<ledgerVars, pc, tries>>
  /\ UNCHANGED <<manifest, channelVars, gated>>

ResumeStopped ==
  /\ pc = "down" /\ loc = "processing"
  /\ Requeue(StaleStates \cup {"blocked"})
  /\ Go("validate")
  /\ UNCHANGED <<runState, dirVars, channelVars, gated>>

-----------------------------------------------------------------------------
EngineStep ==
  \/ Validate \/ WavesBegin \/ (\E n \in Node : Dispatch(n) \/ Settle(n))
  \/ WavesEnd \/ WavesReturn \/ WavesRetried
  \/ Verify \/ Commit \/ Review \/ Generate \/ Conclude

Next == EngineStep \/ Crash \/ ResumeFailed \/ ResumeStopped

Spec == Init /\ [][Next]_vars

TypeOK ==
  /\ runState \in RunStates
  /\ wave \in [Node -> {"queued", "running", "done", "blocked"}]
  /\ loc \in {"processing", "processed", "failed"}
  /\ manifest \in SUBSET Node
  /\ outcome \in Outcomes
  /\ green \in BOOLEAN /\ clean \in BOOLEAN
  /\ pc \in Nodes \cup {"down"}
  /\ tries \in 0 .. MaxRetries
  /\ gated \in SUBSET Node

\* A run under processed/ is done in the ledger, the gates have passed with all
\* its waves done, and the manifest lists them all: across pauses, crashes,
\* repeated nodes and channels that an earlier drive has left behind.
ProcessedIsVerified ==
  loc = "processed" =>
    /\ runState = "done"
    /\ Done = Node /\ gated = Node /\ manifest = Node

=============================================================================
