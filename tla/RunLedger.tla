----------------------------- MODULE RunLedger -----------------------------
(***************************************************************************)
(* The vocabulary of tripll's SQLite ledger: the states of a run and of a  *)
(* wave, which of them are terminal, and which moves transition_run and    *)
(* transition_wave accept.  A refused move raises ValueError in the code.  *)
(* The components that write the ledger extend this module.                *)
(***************************************************************************)

\* ledger_schema.RunState
RunStates == {"active", "done", "failed", "paused"}

\* ledger_schema.WaveState
WaveStates ==
  {"queued", "gate_pending", "dispatched", "running", "quality_loop",
   "verifying", "unverified", "done", "failed", "blocked", "deferred"}

TerminalRunStates == {"done", "failed"}
TerminalWaveStates == {"done", "blocked", "deferred"}

\* transition_run: a terminal state is final, except that a failed run may be
\* recovered to paused.
CanMoveRun(from, to) ==
  \/ from \notin TerminalRunStates
  \/ from = to
  \/ from = "failed" /\ to = "paused"

\* transition_wave: a terminal state is final, except that a blocked wave may
\* be put back in the queue.
CanMoveWave(from, to) ==
  \/ from \notin TerminalWaveStates
  \/ from = to
  \/ from = "blocked" /\ to = "queued"

\* The states that startup reconciliation and the finalizer treat as "a
\* dispatch was live": quality_loop is not among them.
StaleStates == {"running", "dispatched", "verifying"}

=============================================================================
