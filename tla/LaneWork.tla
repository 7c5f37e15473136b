------------------------------ MODULE LaneWork ------------------------------
(***************************************************************************)
(* What happens to an agent's work: the git worktree and branch of a wave, *)
(* checkpoint commits, recovery commits, the scope check, and the commit   *)
(* that isolated verification runs on (worktrees, engine_worktrees,        *)
(* engine_verify, harness/boundary, and their use by _execute_node_body).  *)
(*                                                                         *)
(* Work is a set of edits, numbered by the attempt that made them; edit 0  *)
(* is one outside the wave's own paths.  A commit is a wave and the set of *)
(* edits its tree holds over the base.  Which waves are driven and how a   *)
(* run ends is WaveRun's subject: here any queued wave may be driven,      *)
(* Parallel of them at a time.                                             *)
(***************************************************************************)
EXTENDS RunLedger, Naturals, FiniteSets

CONSTANTS
  Node,        \* waves, each with a worktree and a branch of its own
  MaxAttempts, \* Engine.max_attempts
  Parallel,    \* how many waves the driver runs at a time
  Gauntlet,    \* waves with a quality gauntlet
  None,        \* no commit
  Env          \* what may go wrong in this instance

\* "idle": an agent reports done without an edit; "own": it commits by itself;
\* "smooth": a smoothing pass edits after the gauntlet; "git": a commit fails;
\* "add": a verify worktree cannot be created; "dir": a forbidden edit makes a
\* new directory.
EnvEvents ==
  {"idle", "own", "smooth", "git", "add", "dir", "infra", "quota", "crash"}

ASSUME ConstantsAssumption ==
  /\ MaxAttempts \in Nat \ {0}
  /\ Parallel \in Nat \ {0}
  /\ Gauntlet \subseteq Node
  /\ Env \subseteq EnvEvents
  /\ None \notin [of : Node, has : SUBSET (0 .. MaxAttempts)]

VARIABLES
  \* the ledger
  row,      \* waves.state
  attempts, \* waves.attempt_count
  \* git
  tree,     \* waves whose worktree exists
  dirty,    \* edits in the worktree that no commit holds
  branch,   \* edits on the wave's branch
  \* the engine process
  up,       \* does it run?
  at,       \* where each wave's coroutine stands
  sha,      \* engine._last_checkpoint_sha, one field for all coroutines
  \* history
  made,     \* the commit the attempt's own checkpoint made
  seen      \* the tree that the wave's passing verification ran on

ledgerVars == <<row, attempts>>
gitVars    == <<tree, dirty, branch>>
engineVars == <<up, at, sha>>
history    == <<made, seen>>
vars       == <<ledgerVars, gitVars, engineVars, history>>

Forbidden == 0
Edits  == 0 .. MaxAttempts
Commit == [of : Node, has : SUBSET Edits]

Steps == {"out", "ready", "agent", "gauntlet", "verify", "leaving"}

Init ==
  /\ row = [n \in Node |-> "queued"]
  /\ attempts = [n \in Node |-> 0]
  /\ tree = {}
  /\ dirty = [n \in Node |-> {}]
  /\ branch = [n \in Node |-> {}]
  /\ up = TRUE
  /\ at = [n \in Node |-> "out"]
  /\ sha = None
  /\ made = [n \in Node |-> None]
  /\ seen = [n \in Node |-> None]

Go(n, step) == at' = [at EXCEPT ![n] = step]
Row(n, s)   == row' = [row EXCEPT ![n] = s]

-----------------------------------------------------------------------------
(* Commits.                                                                *)

\* checkpoint_worktree: nothing to do in a clean tree, else commit it all.
CommitAll(n) ==
  /\ branch' = [branch EXCEPT ![n] = @ \cup dirty[n]]
  /\ dirty' = [dirty EXCEPT ![n] = {}]

\* A failed commit leaves the edits where they are.
CommitFails(n) ==
  /\ "git" \in Env /\ dirty[n] # {}
  /\ UNCHANGED <<dirty, branch>>

\* What a checkpoint that commits the edits S remembers.  Mutant: a SHA that
\* is remembered already is kept.
RememberFirst(n, S) ==
  LET c == [of |-> n, has |-> branch[n] \cup S] IN
  IF S = {} THEN UNCHANGED <<sha, made>>
  ELSE sha' = (IF sha = None THEN c ELSE sha) /\ made' = [made EXCEPT ![n] = c]

\* The SHA of a new commit goes into the engine's one field; without a commit
\* the field keeps what it held.
Remember(n, S) ==
  LET c == [of |-> n, has |-> branch[n] \cup S] IN
  IF S = {} THEN UNCHANGED <<sha, made>>
  ELSE sha' = c /\ made' = [made EXCEPT ![n] = c]

\* _checkpoint_attempt: git's failure is logged, and the edits stay.
Checkpoint(n) ==
  \/ CommitAll(n) /\ Remember(n, dirty[n])
  \/ CommitFails(n) /\ UNCHANGED <<sha, made>>

-----------------------------------------------------------------------------
(* One coroutine of _execute_node_body.                                    *)

Busy == {n \in Node : at[n] # "out"}

\* allocate: a new worktree, or the one that is there; then what an earlier
\* session left in it is committed, outside the try: a failure ends the call.
Enter(n) ==
  /\ up /\ at[n] = "out" /\ row[n] = "queued"
  /\ Cardinality(Busy) < Parallel
  /\ tree' = tree \cup {n}
  /\ \/ CommitAll(n) /\ Go(n, "ready")
     \/ CommitFails(n) /\ UNCHANGED at
  /\ UNCHANGED <<ledgerVars, up, sha, history>>

\* The retries are used up: blocked, with the worktree left in place.
GiveUp(n) ==
  /\ up /\ at[n] = "ready" /\ attempts[n] = MaxAttempts
  /\ Row(n, "blocked") /\ Go(n, "leaving")
  /\ UNCHANGED <<attempts, gitVars, up, sha, history>>

Dispatch(n) ==
  /\ up /\ at[n] = "ready" /\ attempts[n] < MaxAttempts
  /\ attempts' = [attempts EXCEPT ![n] = @ + 1]
  /\ made' = [made EXCEPT ![n] = None]
  /\ Row(n, "running") /\ Go(n, "agent")
  /\ UNCHANGED <<gitVars, up, sha, seen>>

\* The agent writes files, in its own paths or not.
Edit(n) ==
  /\ up /\ at[n] = "agent"
  /\ \E e \in {attempts[n], Forbidden} : dirty' = [dirty EXCEPT ![n] = @ \cup {e}]
  /\ UNCHANGED <<ledgerVars, tree, branch, engineVars, history>>

AgentCommits(n) ==
  /\ "own" \in Env /\ up /\ at[n] = "agent" /\ dirty[n] # {}
  /\ CommitAll(n)
  /\ UNCHANGED <<ledgerVars, tree, engineVars, history>>

\* Did this attempt leave an edit, committed or not?
Worked(n) == attempts[n] \in dirty[n] \cup branch[n]

\* After an attempt that did not settle the wave: back to the queue, except
\* when it was the last one.
Retry(n) ==
  /\ IF attempts[n] < MaxAttempts THEN Row(n, "queued") ELSE UNCHANGED row
  /\ Go(n, "ready")

\* A finished dispatch whose worktree shows forbidden edits: they are put back
\* and the attempt has failed, yet what remains is committed.
Breach(n) ==
  /\ up /\ at[n] = "agent" /\ Forbidden \in dirty[n]
  /\ LET kept == dirty[n] \ {Forbidden} IN
     \/ /\ branch' = [branch EXCEPT ![n] = @ \cup kept]
        /\ dirty' = [dirty EXCEPT ![n] = {}]
        /\ Remember(n, kept)
     \/ /\ "git" \in Env /\ kept # {}
        /\ dirty' = [dirty EXCEPT ![n] = kept]
        /\ UNCHANGED <<branch, sha, made>>
  /\ Retry(n)
  /\ UNCHANGED <<attempts, tree, up, seen>>

\* revert_breach unlinks what it cannot check out; on a directory that raises,
\* and the exception leaves the attempt with the forbidden edits in place.
BreachRaises(n) ==
  /\ "dir" \in Env /\ up /\ at[n] = "agent" /\ Forbidden \in dirty[n]
  /\ Go(n, "leaving")
  /\ UNCHANGED <<ledgerVars, gitVars, up, sha, history>>

\* A finished dispatch within its scope: checkpoint, then the gauntlet or,
\* after the ledger lock, the verification.
Finish(n) ==
  /\ up /\ at[n] = "agent" /\ Forbidden \notin dirty[n]
  /\ "idle" \in Env \/ Worked(n)
  /\ Checkpoint(n)
  /\ IF n \in Gauntlet
       THEN Row(n, "quality_loop") /\ Go(n, "gauntlet")
       ELSE Row(n, "verifying") /\ Go(n, "verify")
  /\ UNCHANGED <<attempts, tree, up, seen>>

\* A failed or timed-out dispatch is checkpointed as it is, scope unchecked.
Fail(n) ==
  /\ up /\ at[n] = "agent"
  /\ Checkpoint(n)
  /\ Retry(n)
  /\ UNCHANGED <<attempts, tree, up, seen>>

\* A quota pause checkpoints too; the wave is back in the queue.
Quota(n) ==
  /\ "quota" \in Env /\ up /\ at[n] = "agent"
  /\ Checkpoint(n)
  /\ Row(n, "queued") /\ Go(n, "leaving")
  /\ UNCHANGED <<attempts, tree, up, seen>>

\* The cost budget is found spent after the dispatch: nothing is committed and
\* the row stays live, for the finally block to settle.
CostPause(n) ==
  /\ "quota" \in Env /\ up /\ at[n] = "agent"
  /\ Go(n, "leaving")
  /\ UNCHANGED <<ledgerVars, gitVars, up, sha, history>>

\* An infrastructure failure gives the attempt back and commits nothing.
Infra(n) ==
  /\ "infra" \in Env /\ up /\ at[n] = "agent"
  /\ attempts' = [attempts EXCEPT ![n] = @ - 1]
  /\ Row(n, "queued") /\ Go(n, "ready")
  /\ UNCHANGED <<gitVars, up, sha, history>>

\* dispatch raised: blocked at once.
Raise(n) ==
  /\ up /\ at[n] = "agent"
  /\ Row(n, "blocked") /\ Go(n, "leaving")
  /\ UNCHANGED <<attempts, gitVars, up, sha, history>>

\* The gauntlet passes, perhaps after a smoothing pass that edits the worktree.
Gauntleted(n) ==
  /\ up /\ at[n] = "gauntlet"
  /\ \/ UNCHANGED dirty
     \/ /\ "smooth" \in Env
        /\ dirty' = [dirty EXCEPT ![n] = @ \cup {attempts[n]}]
  /\ Row(n, "verifying") /\ Go(n, "verify")
  /\ UNCHANGED <<attempts, tree, branch, up, sha, history>>

GauntletFails(n) ==
  /\ up /\ at[n] = "gauntlet"
  /\ \E s \in {"failed", "unverified"} : Row(n, s)
  /\ Go(n, "leaving")
  /\ UNCHANGED <<attempts, gitVars, up, sha, history>>

InPlace(n) == [of |-> n, has |-> branch[n] \cup dirty[n]]

\* run_isolated_verify: a detached worktree at the remembered commit; the
\* implementer's own one when nothing is remembered.
VerifyTree(n) ==
  IF sha = None THEN InPlace(n) ELSE sha

\* The same, when git cannot create the detached worktree.
VerifiedTrees(n) ==
  {VerifyTree(n)} \cup (IF "add" \in Env THEN {InPlace(n)} ELSE {})

VerifyPasses(n) ==
  /\ up /\ at[n] = "verify"
  /\ \E t \in VerifiedTrees(n) : seen' = [seen EXCEPT ![n] = t]
  /\ Row(n, "done") /\ Go(n, "leaving")
  /\ UNCHANGED <<attempts, gitVars, up, sha, made>>

VerifyFails(n) ==
  /\ up /\ at[n] = "verify"
  /\ Retry(n)
  /\ UNCHANGED <<attempts, gitVars, up, sha, history>>

\* _shielded_finalize_wave_ledger: a live row goes back to the queue.
Finalize(n) ==
  IF row[n] \in StaleStates THEN Row(n, "queued") ELSE UNCHANGED row

\* cleanup_worktree: removed by force, whatever is still in it.
RemoveTree(n) ==
  IF row[n] = "done" THEN tree' = tree \ {n} ELSE UNCHANGED tree

\* The finally block.  Mutant: a failed recovery commit is logged, and what
\* follows it is done all the same.
LeaveAnyway(n) ==
  /\ up /\ at[n] = "leaving"
  /\ \/ CommitAll(n)
     \/ /\ "git" \in Env /\ dirty[n] # {}
        /\ dirty' = IF row[n] = "done" THEN [dirty EXCEPT ![n] = {}] ELSE dirty
        /\ UNCHANGED branch
  /\ Finalize(n) /\ RemoveTree(n)
  /\ Go(n, "out")
  /\ UNCHANGED <<attempts, up, sha, history>>

\* The finally block: what is left in the worktree is committed, then the
\* worktree of a done wave is removed.  When the commit fails the exception
\* skips everything after it.
Leave(n) ==
  /\ up /\ at[n] = "leaving"
  /\ \/ CommitAll(n) /\ Finalize(n) /\ RemoveTree(n)
     \/ CommitFails(n) /\ UNCHANGED <<row, tree>>
  /\ Go(n, "out")
  /\ UNCHANGED <<attempts, up, sha, history>>

-----------------------------------------------------------------------------
(* The process.                                                            *)

\* The session is over, or the process dies: its memory is gone, the ledger
\* and git are not.
Stop ==
  /\ up
  /\ Busy = {} \/ "crash" \in Env
  /\ up' = FALSE
  /\ at' = [n \in Node |-> "out"]
  /\ sha' = None
  /\ UNCHANGED <<ledgerVars, gitVars, history>>

\* resume: waves that were live or blocked are queued with a fresh budget.
Resume ==
  /\ ~up
  /\ up' = TRUE
  /\ LET again == {n \in Node : row[n] \in StaleStates \cup {"blocked"}} IN
     /\ row' = [n \in Node |-> IF n \in again THEN "queued" ELSE row[n]]
     /\ attempts' = [n \in Node |-> IF n \in again THEN 0 ELSE attempts[n]]
  /\ UNCHANGED <<gitVars, at, sha, history>>

Coroutine(n) ==
  \/ Enter(n) \/ GiveUp(n) \/ Dispatch(n) \/ Edit(n) \/ AgentCommits(n)
  \/ Breach(n) \/ BreachRaises(n) \/ Finish(n) \/ Fail(n) \/ Quota(n) \/ CostPause(n)
  \/ Infra(n) \/ Raise(n)
  \/ Gauntleted(n) \/ GauntletFails(n) \/ VerifyPasses(n) \/ VerifyFails(n)
  \/ Leave(n)

Next == (\E n \in Node : Coroutine(n)) \/ Stop \/ Resume

Spec == Init /\ [][Next]_vars

-----------------------------------------------------------------------------
(* What must always hold.                                                  *)

TypeOK ==
  /\ row \in [Node -> WaveStates]
  /\ attempts \in [Node -> 0 .. MaxAttempts]
  /\ tree \subseteq Node
  /\ dirty \in [Node -> SUBSET Edits]
  /\ branch \in [Node -> SUBSET Edits]
  /\ up \in BOOLEAN
  /\ at \in [Node -> Steps]
  /\ sha \in Commit \cup {None}
  /\ made \in [Node -> Commit \cup {None}]
  /\ seen \in [Node -> Commit \cup {None}]

\* No edit inside a wave's own paths is ever lost once it is in the worktree:
\* not by a scope revert, a failed commit, a crash, a resume, or the forced
\* removal of the worktree of a done wave.
WorkIsKept ==
  [][\A n \in Node : \A e \in dirty[n] \cup branch[n] :
       e = Forbidden \/ e \in dirty'[n] \cup branch'[n]]_vars

\* A wave whose passing attempt was checkpointed is called done only when the
\* verification ran on a tree that holds that checkpoint.
CheckpointIsVerified ==
  \A n \in Node : row[n] = "done" /\ made[n] # None =>
    seen[n].of = n /\ made[n].has \subseteq seen[n].has
=============================================================================
