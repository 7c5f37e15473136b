--------------------------- MODULE LaneWork_proofs ---------------------------
(***************************************************************************)
(* Proofs about what happens to an agent's work, for any waves, attempts,  *)
(* gauntlets and trouble: no edit of a wave's own is lost, and when waves  *)
(* are driven one at a time the tree that is verified holds the attempt's  *)
(* checkpoint.                                                             *)
(***************************************************************************)
EXTENDS LaneWork, FiniteSetTheorems, TLAPS

-----------------------------------------------------------------------------
(* One step of one coroutine: what it does to git and to the memory of     *)
(* checkpoints.                                                            *)

GitTypes ==
  /\ dirty \in [Node -> SUBSET Edits]
  /\ branch \in [Node -> SUBSET Edits]
  /\ sha \in Commit \cup {None}
  /\ made \in [Node -> Commit \cup {None}]

\* A checkpoint of n that is remembered.
Remembered(n) ==
  sha' = made'[n] /\ made'[n] # None /\ made'[n].of = n /\ made'[n].has = branch'[n]

\* Only n's own worktree, branch and checkpoint change; its branch grows, and
\* what leaves its worktree is on the branch or outside its paths.
Effect(n) ==
  /\ \A m \in Node \ {n} : dirty'[m] = dirty[m] /\ branch'[m] = branch[m] /\ made'[m] = made[m]
  /\ branch[n] \subseteq branch'[n]
  /\ dirty[n] \subseteq dirty'[n] \cup branch'[n] \cup {Forbidden}
  /\ \/ UNCHANGED <<sha, made>>
     \/ Remembered(n)

LEMMA CommitIsNotNone == None \notin Commit
BY ConstantsAssumption DEF Commit, Edits

LEMMA RememberFacts ==
  ASSUME GitTypes, NEW n \in Node, NEW S \in SUBSET Edits, Remember(n, S),
         branch' = [branch EXCEPT ![n] = @ \cup S]
  PROVE  /\ sha' \in Commit \cup {None} /\ made' \in [Node -> Commit \cup {None}]
         /\ \A m \in Node \ {n} : made'[m] = made[m]
         /\ UNCHANGED <<sha, made>> \/ Remembered(n)
<1> DEFINE c == [of |-> n, has |-> branch[n] \cup S]
<1>1. c \in Commit /\ c # None /\ branch'[n] = c.has
  BY CommitIsNotNone DEF Commit, GitTypes
<1>2. CASE S = {}
  BY <1>2 DEF Remember, GitTypes
<1>3. CASE S # {}
  <2>1. sha' = c /\ made' = [made EXCEPT ![n] = c]
    BY <1>3 DEF Remember
  <2> QED
    BY <1>1, <2>1 DEF GitTypes, Remembered
<1> QED
  BY <1>2, <1>3

LEMMA CheckpointFacts ==
  ASSUME GitTypes, NEW n \in Node, Checkpoint(n)
  PROVE  GitTypes' /\ Effect(n) /\ dirty'[n] \subseteq dirty[n]
<1>1. CASE CommitAll(n) /\ Remember(n, dirty[n])
  <2>1. /\ branch' = [branch EXCEPT ![n] = @ \cup dirty[n]]
        /\ dirty' = [dirty EXCEPT ![n] = {}]
    BY <1>1 DEF CommitAll
  <2>2. /\ sha' \in Commit \cup {None} /\ made' \in [Node -> Commit \cup {None}]
        /\ \A m \in Node \ {n} : made'[m] = made[m]
        /\ UNCHANGED <<sha, made>> \/ Remembered(n)
    BY <1>1, <2>1, RememberFacts DEF GitTypes
  <2> QED
    BY <2>1, <2>2 DEF GitTypes, Effect
<1>2. CASE CommitFails(n) /\ UNCHANGED <<sha, made>>
  BY <1>2 DEF CommitFails, GitTypes, Effect
<1> QED
  BY <1>1, <1>2 DEF Checkpoint

LEMMA BreachFacts ==
  ASSUME GitTypes, NEW n \in Node, Breach(n)
  PROVE  GitTypes' /\ Effect(n)
<1> DEFINE kept == dirty[n] \ {Forbidden}
<1>1. kept \in SUBSET Edits
  BY DEF GitTypes
<1>2. CASE /\ branch' = [branch EXCEPT ![n] = @ \cup kept]
           /\ dirty' = [dirty EXCEPT ![n] = {}]
           /\ Remember(n, kept)
  <2>1. /\ sha' \in Commit \cup {None} /\ made' \in [Node -> Commit \cup {None}]
        /\ \A m \in Node \ {n} : made'[m] = made[m]
        /\ UNCHANGED <<sha, made>> \/ Remembered(n)
    BY <1>1, <1>2, RememberFacts
  <2> QED
    BY <1>1, <1>2, <2>1 DEF GitTypes, Effect
<1>3. CASE dirty' = [dirty EXCEPT ![n] = kept] /\ UNCHANGED <<branch, sha, made>>
  BY <1>1, <1>3 DEF GitTypes, Effect
<1> QED
  BY <1>2, <1>3 DEF Breach

\* Every other step of a coroutine but Dispatch commits all of the worktree,
\* adds to it, or leaves git alone.
LEMMA OtherFacts ==
  ASSUME GitTypes, NEW n \in Node, attempts \in [Node -> 0 .. MaxAttempts],
         \/ CommitAll(n)
         \/ \E e \in {attempts[n], Forbidden} : dirty' = [dirty EXCEPT ![n] = @ \cup {e}] /\ branch' = branch
         \/ UNCHANGED <<dirty, branch>>,
         UNCHANGED <<sha, made>>
  PROVE  GitTypes' /\ Effect(n)
<1>1. CASE CommitAll(n)
  BY <1>1 DEF CommitAll, GitTypes, Effect
<1>2. ASSUME NEW e \in {attempts[n], Forbidden}, dirty' = [dirty EXCEPT ![n] = @ \cup {e}],
             branch' = branch
      PROVE  GitTypes' /\ Effect(n)
  <2>1. e \in Edits
    BY ConstantsAssumption DEF Edits, Forbidden
  <2> QED
    BY <1>2, <2>1 DEF GitTypes, Effect
<1>3. CASE UNCHANGED <<dirty, branch>>
  BY <1>3 DEF GitTypes, Effect
<1> QED
  BY <1>1, <1>2, <1>3

LEMMA StepFacts ==
  ASSUME GitTypes, attempts \in [Node -> 0 .. MaxAttempts], NEW n \in Node,
         Coroutine(n), ~Dispatch(n)
  PROVE  GitTypes' /\ Effect(n)
<1>1. CASE Finish(n) \/ Fail(n) \/ Quota(n)
  BY <1>1, CheckpointFacts DEF Finish, Fail, Quota
<1>2. CASE Breach(n)
  BY <1>2, BreachFacts
<1>3. CASE Enter(n) \/ AgentCommits(n) \/ Leave(n)
  BY <1>3, OtherFacts
     DEF Enter, AgentCommits, Leave, CommitFails, engineVars, history
<1>4. CASE Edit(n) \/ Gauntleted(n)
  BY <1>4, OtherFacts DEF Edit, Gauntleted, engineVars, history
<1>5. CASE \/ GiveUp(n) \/ BreachRaises(n) \/ CostPause(n) \/ Infra(n) \/ Raise(n)
           \/ GauntletFails(n) \/ VerifyPasses(n) \/ VerifyFails(n)
  <2>1. UNCHANGED <<dirty, branch, sha, made>>
    BY <1>5 DEF GiveUp, BreachRaises, CostPause, Infra, Raise, GauntletFails, VerifyPasses,
       VerifyFails, gitVars, history
  <2> QED
    BY <2>1, OtherFacts
<1> QED
  BY <1>1, <1>2, <1>3, <1>4, <1>5 DEF Coroutine

LEMMA DispatchFacts ==
  ASSUME GitTypes, NEW n \in Node, Dispatch(n)
  PROVE  GitTypes' /\ UNCHANGED <<dirty, branch, sha>> /\ made' = [made EXCEPT ![n] = None]
BY DEF Dispatch, gitVars, GitTypes

-----------------------------------------------------------------------------
(* The inductive invariant.                                                *)

InAttempt == {"ready", "agent", "gauntlet", "verify"}

\* What holds of one wave whatever the others do.
OneWave(n) ==
  /\ n \notin tree => dirty[n] = {} /\ at[n] = "out"
  /\ at[n] = "agent" => attempts[n] > 0
  /\ at[n] \in InAttempt => row[n] # "done"
  /\ made[n] # None => made[n].of = n /\ made[n].has \subseteq branch[n]

LaneInv ==
  /\ TypeOK
  /\ \A n \in Node : OneWave(n)
  /\ ~up => Busy = {}

LEMMA LaneInvInit == Init => LaneInv
<1> SUFFICES ASSUME Init PROVE LaneInv
  OBVIOUS
<1>1. TypeOK
  BY ConstantsAssumption DEF Init, TypeOK, WaveStates, Edits, Steps
<1>2. \A n \in Node : OneWave(n)
  BY DEF Init, OneWave, InAttempt
<1> QED
  BY <1>1, <1>2 DEF LaneInv, Init

\* What a step of n's coroutine does to its row, its place and its worktree.
Control(n) ==
  /\ row' \in [Node -> WaveStates] /\ at' \in [Node -> Steps]
  /\ attempts' \in [Node -> 0 .. MaxAttempts]
  /\ tree' \subseteq Node /\ seen' \in [Node -> Commit \cup {None}]
  /\ up /\ up' = up
  /\ \A m \in Node \ {n} :
       /\ row'[m] = row[m] /\ at'[m] = at[m] /\ attempts'[m] = attempts[m]
       /\ seen'[m] = seen[m] /\ (m \in tree' <=> m \in tree)
  /\ n \notin tree' => dirty'[n] = {} /\ at'[n] = "out"
  /\ at'[n] = "agent" => attempts'[n] > 0
  /\ at'[n] \in InAttempt => row'[n] # "done"

\* The retry of an attempt that is over.
LEMMA RetryFacts ==
  ASSUME TypeOK, NEW n \in Node, Retry(n), row[n] # "done"
  PROVE  /\ row' \in [Node -> WaveStates] /\ at' \in [Node -> Steps]
         /\ \A m \in Node \ {n} : row'[m] = row[m] /\ at'[m] = at[m]
         /\ at'[n] = "ready" /\ row'[n] # "done"
<1>1. at' = [at EXCEPT ![n] = "ready"] /\ (row' = row \/ row' = [row EXCEPT ![n] = "queued"])
  BY DEF Retry, Row, Go
<1> QED
  BY <1>1 DEF TypeOK, WaveStates, Steps

LEMMA ControlFacts ==
  ASSUME LaneInv, NEW n \in Node, Coroutine(n)
  PROVE  Control(n)
<1> USE DEF LaneInv, OneWave
<1>1. CASE Enter(n)
  <2>1. /\ up /\ up' = up /\ at[n] = "out" /\ row[n] = "queued" /\ tree' = tree \cup {n}
        /\ UNCHANGED <<row, attempts, seen>>
        /\ at' = [at EXCEPT ![n] = "ready"] \/ at' = at
    BY <1>1 DEF Enter, Go, ledgerVars, history
  <2> QED
    BY <2>1 DEF Control, TypeOK, Steps, InAttempt
<1>2. CASE Dispatch(n)
  <2>1. /\ up /\ up' = up /\ at[n] = "ready" /\ attempts[n] < MaxAttempts
        /\ UNCHANGED <<tree, dirty, seen>>
        /\ attempts' = [attempts EXCEPT ![n] = @ + 1]
        /\ row' = [row EXCEPT ![n] = "running"] /\ at' = [at EXCEPT ![n] = "agent"]
    BY <1>2 DEF Dispatch, Go, Row, gitVars
  <2>2. attempts[n] \in 0 .. MaxAttempts /\ MaxAttempts \in Nat
    BY ConstantsAssumption DEF TypeOK
  <2>3. attempts[n] + 1 \in 0 .. MaxAttempts /\ attempts[n] + 1 > 0
    BY <2>1, <2>2
  <2>4. attempts' \in [Node -> 0 .. MaxAttempts] /\ attempts'[n] > 0
    BY <2>1, <2>3 DEF TypeOK
  <2> QED
    BY <2>1, <2>4 DEF Control, TypeOK, Steps, WaveStates, InAttempt
<1>3. CASE Infra(n)
  <2>1. /\ up /\ up' = up /\ at[n] = "agent" /\ UNCHANGED <<tree, dirty, seen>>
        /\ attempts' = [attempts EXCEPT ![n] = @ - 1]
        /\ row' = [row EXCEPT ![n] = "queued"] /\ at' = [at EXCEPT ![n] = "ready"]
    BY <1>3 DEF Infra, Go, Row, gitVars, history
  <2>2. attempts[n] \in 0 .. MaxAttempts /\ MaxAttempts \in Nat /\ attempts[n] > 0
    BY <2>1, ConstantsAssumption DEF TypeOK
  <2>3. attempts[n] - 1 \in 0 .. MaxAttempts
    BY <2>2
  <2>4. attempts' \in [Node -> 0 .. MaxAttempts]
    BY <2>1, <2>3 DEF TypeOK
  <2> QED
    BY <2>1, <2>4 DEF Control, TypeOK, Steps, WaveStates, InAttempt
<1>4. CASE Edit(n) \/ AgentCommits(n)
  <2>1. up /\ at[n] = "agent" /\ UNCHANGED <<row, attempts, tree, up, at, seen>>
    BY <1>4 DEF Edit, AgentCommits, ledgerVars, engineVars, history
  <2> QED
    BY <2>1 DEF Control, TypeOK, InAttempt
<1>5. CASE Breach(n) \/ Fail(n) \/ VerifyFails(n)
  <2>1. /\ up /\ up' = up /\ at[n] \in InAttempt /\ Retry(n) /\ UNCHANGED <<attempts, tree, seen>>
    BY <1>5 DEF Breach, Fail, VerifyFails, InAttempt, gitVars, history
  <2>2. n \in tree
    BY <2>1 DEF InAttempt
  <2> QED
    BY <2>1, <2>2, RetryFacts DEF Control, TypeOK
<1>6. CASE Finish(n) \/ Gauntleted(n)
  <2>1. /\ up /\ up' = up /\ at[n] \in InAttempt /\ UNCHANGED <<attempts, tree, seen>>
        /\ \/ row' = [row EXCEPT ![n] = "quality_loop"] /\ at' = [at EXCEPT ![n] = "gauntlet"]
           \/ row' = [row EXCEPT ![n] = "verifying"] /\ at' = [at EXCEPT ![n] = "verify"]
    BY <1>6 DEF Finish, Gauntleted, Row, Go, InAttempt, history
  <2>2. n \in tree
    BY <2>1 DEF InAttempt
  <2> QED
    BY <2>1, <2>2 DEF Control, TypeOK, Steps, WaveStates
<1>7. CASE \/ GiveUp(n) \/ BreachRaises(n) \/ Quota(n) \/ CostPause(n) \/ Raise(n)
           \/ GauntletFails(n) \/ VerifyPasses(n)
  <2>1. /\ up /\ up' = up /\ at[n] \in InAttempt /\ UNCHANGED <<attempts, tree>>
        /\ at' = [at EXCEPT ![n] = "leaving"]
        /\ \/ row' = row
           \/ \E s \in {"blocked", "queued", "failed", "unverified", "done"} :
                row' = [row EXCEPT ![n] = s]
    BY <1>7 DEF GiveUp, BreachRaises, Quota, CostPause, Raise, GauntletFails, VerifyPasses, Row,
       Go, InAttempt, ledgerVars, gitVars, history
  <2>2. \/ seen' = seen
        \/ \E t \in VerifiedTrees(n) : seen' = [seen EXCEPT ![n] = t]
    BY <1>7 DEF GiveUp, BreachRaises, Quota, CostPause, Raise, GauntletFails, VerifyPasses, history
  <2>3. VerifiedTrees(n) \subseteq Commit
    <3>1. InPlace(n) \in Commit
      BY DEF InPlace, Commit, TypeOK
    <3> QED
      BY <3>1 DEF VerifiedTrees, VerifyTree, TypeOK
  <2>4. n \in tree
    BY <2>1 DEF InAttempt
  <2>5. row' \in [Node -> WaveStates] /\ \A m \in Node \ {n} : row'[m] = row[m]
    BY <2>1 DEF TypeOK, WaveStates
  <2>6. seen' \in [Node -> Commit \cup {None}] /\ \A m \in Node \ {n} : seen'[m] = seen[m]
    BY <2>2, <2>3 DEF TypeOK
  <2>7. at' \in [Node -> Steps] /\ at'[n] = "leaving" /\ \A m \in Node \ {n} : at'[m] = at[m]
    BY <2>1 DEF TypeOK, Steps
  <2> QED
    BY <2>1, <2>4, <2>5, <2>6, <2>7 DEF Control, TypeOK, InAttempt
<1>8. CASE Leave(n)
  <2>1. /\ up /\ up' = up /\ at[n] = "leaving" /\ UNCHANGED <<attempts, seen>>
        /\ at' = [at EXCEPT ![n] = "out"]
        /\ row' = row \/ row' = [row EXCEPT ![n] = "queued"]
        /\ tree' = tree \/ (tree' = tree \ {n} /\ CommitAll(n))
    BY <1>8 DEF Leave, Go, Row, Finalize, RemoveTree, history
  <2>2. n \in tree
    BY <2>1
  <2>3. CommitAll(n) => dirty'[n] = {}
    BY DEF CommitAll, TypeOK
  <2> QED
    BY <2>1, <2>2, <2>3 DEF Control, TypeOK, Steps, WaveStates, InAttempt
<1> QED
  BY <1>1, <1>2, <1>3, <1>4, <1>5, <1>6, <1>7, <1>8 DEF Coroutine

LEMMA LaneInvNext == LaneInv /\ [Next]_vars => LaneInv'
<1> SUFFICES ASSUME LaneInv, [Next]_vars PROVE LaneInv'
  OBVIOUS
<1>1. TypeOK /\ GitTypes
  BY DEF LaneInv, TypeOK, GitTypes
<1>2. ASSUME NEW n \in Node, Coroutine(n) PROVE LaneInv'
  <2>1. Control(n)
    BY <1>2, ControlFacts
  <2>2. /\ GitTypes'
        /\ \/ Effect(n)
           \/ UNCHANGED <<dirty, branch, sha>> /\ made' = [made EXCEPT ![n] = None]
    BY <1>1, <1>2, StepFacts, DispatchFacts DEF TypeOK
  <2>3. \A m \in Node \ {n} : dirty'[m] = dirty[m] /\ branch'[m] = branch[m] /\ made'[m] = made[m]
    BY <1>1, <2>2 DEF Effect, TypeOK
  <2>4. TypeOK'
    BY <1>1, <2>1, <2>2 DEF Control, GitTypes, TypeOK
  <2>5. \A m \in Node \ {n} : OneWave(m)'
    BY <2>1, <2>3 DEF LaneInv, OneWave, Control
  <2>6. made'[n] # None => made'[n].of = n /\ made'[n].has \subseteq branch'[n]
    BY <1>1, <2>2 DEF LaneInv, OneWave, Effect, Remembered, TypeOK
  <2>7. OneWave(n)'
    BY <2>1, <2>6 DEF OneWave, Control
  <2> QED
    BY <2>1, <2>4, <2>5, <2>7 DEF LaneInv, Control
<1>3. CASE Stop
  <2>1. TypeOK'
    BY <1>1, <1>3 DEF Stop, TypeOK, Steps, ledgerVars, gitVars, history
  <2>2. ~up' /\ Busy' = {}
    BY <1>3 DEF Stop, Busy
  <2>3. \A n \in Node : OneWave(n)'
    BY <1>3 DEF Stop, LaneInv, OneWave, InAttempt, ledgerVars, gitVars, history
  <2> QED
    BY <2>1, <2>2, <2>3 DEF LaneInv
<1>4. CASE Resume
  <2>1. \A n \in Node : at[n] = "out"
    BY <1>4 DEF Resume, LaneInv, Busy
  <2>2. TypeOK'
    BY <1>1, <1>4, ConstantsAssumption DEF Resume, TypeOK, WaveStates, gitVars, history
  <2>3. \A n \in Node : OneWave(n)'
    BY <1>4, <2>1 DEF Resume, LaneInv, OneWave, InAttempt, gitVars, history
  <2> QED
    BY <1>4, <2>2, <2>3 DEF LaneInv, Resume
<1>5. CASE UNCHANGED vars
  BY <1>5 DEF vars, ledgerVars, gitVars, engineVars, history, LaneInv, TypeOK, OneWave, Busy
<1> QED
  BY <1>2, <1>3, <1>4, <1>5 DEF Next

-----------------------------------------------------------------------------
(* What holds of the work.                                                 *)

\* The types of all variables.
THEOREM TypeCorrect == Spec => []TypeOK
<1>1. LaneInv => TypeOK
  BY DEF LaneInv
<1> QED
  BY <1>1, LaneInvInit, LaneInvNext, PTL DEF Spec

\* A worktree is removed only when nothing in it is uncommitted, and no agent
\* works where there is none (cleanup_worktree, the finally block).
THEOREM RemovalIsClean == Spec => [](\A n \in Node \ tree : dirty[n] = {} /\ at[n] = "out")
<1>1. LaneInv => \A n \in Node \ tree : dirty[n] = {} /\ at[n] = "out"
  BY DEF LaneInv, OneWave
<1> QED
  BY <1>1, LaneInvInit, LaneInvNext, PTL DEF Spec

\* No step loses an edit that a wave made inside its own paths: not a scope
\* revert, a failed commit, a crash, a resume or a forced removal
\* (revert_breach, checkpoint_worktree, the finally block).
THEOREM WorkKept == Spec => WorkIsKept
<1>1. LaneInv /\ [Next]_vars =>
        [\A n \in Node : \A e \in dirty[n] \cup branch[n] :
           e = Forbidden \/ e \in dirty'[n] \cup branch'[n]]_vars
  <2> SUFFICES ASSUME LaneInv, Next
               PROVE  \A m \in Node : \A e \in dirty[m] \cup branch[m] :
                        e = Forbidden \/ e \in dirty'[m] \cup branch'[m]
    OBVIOUS
  <2>1. GitTypes /\ TypeOK
    BY DEF LaneInv, TypeOK, GitTypes
  <2>2. ASSUME NEW n \in Node, Coroutine(n)
        PROVE  \A m \in Node : \A e \in dirty[m] \cup branch[m] :
                 e = Forbidden \/ e \in dirty'[m] \cup branch'[m]
    <3>1. Effect(n) \/ UNCHANGED <<dirty, branch>>
      BY <2>1, <2>2, StepFacts, DispatchFacts DEF TypeOK
    <3> QED
      BY <3>1 DEF Effect
  <2>3. CASE Stop \/ Resume
    BY <2>3 DEF Stop, Resume, gitVars
  <2> QED
    BY <2>2, <2>3 DEF Next
<1>2. Spec => []LaneInv
  BY LaneInvInit, LaneInvNext, PTL DEF Spec
<1> QED
  BY <1>1, <1>2, PTL DEF Spec, WorkIsKept

-----------------------------------------------------------------------------
(* Waves driven one at a time.                                             *)

\* From the checkpoint to the verification the engine's one field holds the
\* attempt's own checkpoint, because nobody else is at work.
AloneInv ==
  /\ IsFiniteSet(Busy)
  /\ \A n, m \in Busy : n = m
  /\ \A n \in Node : at[n] = "agent" => made[n] = None
  /\ \A n \in Node : at[n] \in {"gauntlet", "verify"} /\ made[n] # None => sha = made[n]
  /\ CheckpointIsVerified

\* Where a coroutine was before it is at the agent, or at the gauntlet or the
\* verification.
LEMMA CameFrom ==
  ASSUME LaneInv, NEW n \in Node, Coroutine(n)
  PROVE  /\ at'[n] = "agent" => Dispatch(n) \/ (at[n] = "agent" /\ UNCHANGED made)
         /\ at'[n] \in {"gauntlet", "verify"} => at[n] \in {"agent", "gauntlet"}
<1>1. at \in [Node -> Steps]
  BY DEF LaneInv, TypeOK
<1>2. CASE Dispatch(n)
  BY <1>1, <1>2 DEF Dispatch, Go
<1>3. CASE Edit(n) \/ AgentCommits(n)
  BY <1>3 DEF Edit, AgentCommits, engineVars, history
<1>4. CASE Finish(n) \/ Gauntleted(n)
  BY <1>1, <1>4 DEF Finish, Gauntleted, Go
<1>5. CASE Breach(n) \/ Fail(n) \/ VerifyFails(n) \/ Enter(n) \/ Infra(n)
  <2>1. at' = [at EXCEPT ![n] = "ready"] \/ (at[n] = "out" /\ at' = at)
    BY <1>5 DEF Breach, Fail, VerifyFails, Enter, Infra, Retry, Go
  <2> QED
    BY <1>1, <2>1
<1>6. CASE \/ GiveUp(n) \/ BreachRaises(n) \/ Quota(n) \/ CostPause(n) \/ Raise(n)
           \/ GauntletFails(n) \/ VerifyPasses(n) \/ Leave(n)
  <2>1. at'[n] \in {"leaving", "out"}
    BY <1>1, <1>6 DEF GiveUp, BreachRaises, Quota, CostPause, Raise, GauntletFails, VerifyPasses,
       Leave, Go
  <2> QED
    BY <2>1
<1> QED
  BY <1>2, <1>3, <1>4, <1>5, <1>6 DEF Coroutine

\* How a row comes to be done: by a verification that passes; after that the
\* coroutine only leaves.
LEMMA BecomesDone ==
  ASSUME LaneInv, NEW n \in Node, Coroutine(n), row'[n] = "done"
  PROVE  VerifyPasses(n) \/ (row[n] = "done" /\ UNCHANGED <<made, seen>>)
<1>1. row \in [Node -> WaveStates]
  BY DEF LaneInv, TypeOK
<1>2. CASE at[n] \in InAttempt
  <2>1. row[n] # "done"
    BY <1>2 DEF LaneInv, OneWave
  <2>2. CASE VerifyPasses(n)
    BY <2>2
  <2>3. CASE ~VerifyPasses(n)
    <3>1. \/ row' = row
          \/ \E s \in WaveStates \ {"done"} : row' = [row EXCEPT ![n] = s]
      BY <1>2, <2>3 DEF Coroutine, Enter, GiveUp, Dispatch, Edit, AgentCommits, Breach,
         BreachRaises, Finish, Fail, Quota, CostPause, Infra, Raise, Gauntleted, GauntletFails,
         VerifyFails, Leave, Retry, Row, ledgerVars, InAttempt, WaveStates
    <3> QED
      BY <1>1, <2>1, <3>1
  <2> QED
    BY <2>2, <2>3
<1>3. CASE at[n] \notin InAttempt
  <2>1. Enter(n) \/ Leave(n)
    BY <1>3 DEF Coroutine, GiveUp, Dispatch, Edit, AgentCommits, Breach, BreachRaises,
       Finish, Fail, Quota, CostPause, Infra, Raise, Gauntleted, GauntletFails,
       VerifyPasses, VerifyFails, InAttempt
  <2>2. UNCHANGED <<made, seen>> /\ (row' = row \/ row' = [row EXCEPT ![n] = "queued"])
    BY <2>1 DEF Enter, Leave, Finalize, Row, ledgerVars, history
  <2> QED
    BY <1>1, <2>2
<1> QED
  BY <1>2, <1>3

LEMMA AloneInvNext ==
  ASSUME Parallel = 1, LaneInv, AloneInv, [Next]_vars
  PROVE  AloneInv'
<1>1. TypeOK /\ GitTypes
  BY DEF LaneInv, TypeOK, GitTypes
<1>2. ASSUME NEW n \in Node, Coroutine(n) PROVE AloneInv'
  <2>1. Control(n)
    BY <1>2, ControlFacts
  <2>2. \/ ~Dispatch(n) /\ Effect(n)
        \/ UNCHANGED <<dirty, branch, sha>> /\ made' = [made EXCEPT ![n] = None]
    BY <1>1, <1>2, StepFacts, DispatchFacts DEF TypeOK
  <2>3. \A m \in Busy : m = n
    <3>1. CASE Enter(n)
      <4>1. Cardinality(Busy) < 1
        BY <3>1 DEF Enter
      <4>2. Cardinality(Busy) = 0
        BY <4>1, FS_CardinalityType DEF AloneInv
      <4> QED
        BY <4>2, FS_EmptySet DEF AloneInv
    <3>2. CASE ~Enter(n)
      <4>1. at[n] # "out"
        BY <1>2, <3>2 DEF Coroutine, GiveUp, Dispatch, Edit, AgentCommits, Breach, BreachRaises,
           Finish, Fail, Quota, CostPause, Infra, Raise, Gauntleted, GauntletFails,
           VerifyPasses, VerifyFails, Leave
      <4> QED
        BY <4>1 DEF Busy, AloneInv
    <3> QED
      BY <3>1, <3>2
  <2>4. \A m \in Busy' : m = n
    BY <2>1, <2>3 DEF Busy, Control
  <2>5. IsFiniteSet(Busy')
    <3>1. IsFiniteSet({n})
      BY FS_Singleton
    <3>2. Busy' \subseteq {n}
      BY <2>4
    <3> QED
      BY <3>1, <3>2, FS_Subset
  <2>6. at'[n] \in {"gauntlet", "verify"} /\ made'[n] # None => sha' = made'[n]
    <3> SUFFICES ASSUME at'[n] \in {"gauntlet", "verify"}, made'[n] # None
                 PROVE  sha' = made'[n]
      OBVIOUS
    <3>1. CASE UNCHANGED <<sha, made>>
      BY <1>2, <3>1, CameFrom DEF AloneInv
    <3>2. CASE Remembered(n)
      BY <3>2 DEF Remembered
    <3>3. CASE made' = [made EXCEPT ![n] = None]
      BY <1>1, <3>3 DEF GitTypes
    <3> QED
      BY <2>2, <3>1, <3>2, <3>3 DEF Effect
  <2>7. at'[n] = "agent" => made'[n] = None
    BY <1>1, <1>2, CameFrom, DispatchFacts DEF AloneInv, GitTypes
  <2>8. \A m \in Node \ {n} : at'[m] = "out" /\ row'[m] = row[m] /\ made'[m] = made[m] /\ seen'[m] = seen[m]
    <3>1. \A m \in Node \ {n} : at'[m] = "out"
      BY <2>4 DEF Busy
    <3>2. \A m \in Node \ {n} : made'[m] = made[m]
      BY <1>1, <2>2 DEF Effect, GitTypes
    <3> QED
      BY <2>1, <3>1, <3>2 DEF Control
  <2>9. row'[n] = "done" /\ made'[n] # None =>
          seen'[n].of = n /\ made'[n].has \subseteq seen'[n].has
    <3> SUFFICES ASSUME row'[n] = "done", made'[n] # None
                 PROVE  seen'[n].of = n /\ made'[n].has \subseteq seen'[n].has
      OBVIOUS
    <3>1. CASE row[n] = "done" /\ UNCHANGED <<made, seen>>
      BY <3>1 DEF AloneInv, CheckpointIsVerified
    <3>2. CASE VerifyPasses(n)
      <4>1. made' = made /\ at[n] = "verify"
        BY <3>2 DEF VerifyPasses
      <4>2. sha = made[n] /\ made[n].of = n /\ made[n].has \subseteq branch[n]
        BY <4>1 DEF AloneInv, LaneInv, OneWave
      <4>3. PICK t \in {sha, InPlace(n)} : seen' = [seen EXCEPT ![n] = t]
        BY <3>2, <4>1, <4>2 DEF VerifyPasses, VerifiedTrees, VerifyTree
      <4>4. seen'[n] = t
        BY <1>1, <4>3 DEF TypeOK
      <4> QED
        BY <4>1, <4>2, <4>4 DEF InPlace
    <3> QED
      BY <1>2, <3>1, <3>2, BecomesDone
  <2> QED
    BY <2>4, <2>5, <2>6, <2>7, <2>8, <2>9 DEF AloneInv, CheckpointIsVerified
<1>3. CASE Stop
  <2>1. Busy' = {} /\ \A n \in Node : at'[n] = "out"
    BY <1>3 DEF Stop, Busy
  <2>2. IsFiniteSet(Busy')
    BY <2>1, FS_EmptySet
  <2> QED
    BY <1>3, <2>1, <2>2 DEF Stop, AloneInv, CheckpointIsVerified, ledgerVars, history
<1>4. CASE Resume
  <2>1. Busy' = Busy /\ UNCHANGED <<at, sha, made, seen>>
    BY <1>4 DEF Resume, Busy, history
  <2>2. \A n \in Node : row'[n] = "done" => row[n] = "done"
    BY <1>4 DEF Resume
  <2> QED
    BY <2>1, <2>2 DEF AloneInv, CheckpointIsVerified
<1>5. CASE UNCHANGED vars
  BY <1>5 DEF vars, ledgerVars, engineVars, history, AloneInv, CheckpointIsVerified, Busy
<1> QED
  BY <1>2, <1>3, <1>4, <1>5 DEF Next

\* When the driver runs one wave at a time, a wave whose passing attempt was
\* checkpointed is done only if what was verified holds that checkpoint: across
\* crashes, failed commits, verify worktrees that cannot be made and edits
\* after the gauntlet (_checkpoint_attempt, run_isolated_verify).  With more at
\* a time they share the engine's field, and it does not hold.
THEOREM CheckpointVerified ==
  ASSUME Parallel = 1
  PROVE  Spec => []CheckpointIsVerified
<1>1. Init => AloneInv
  <2> SUFFICES ASSUME Init PROVE AloneInv
    OBVIOUS
  <2>1. Busy = {} /\ \A n \in Node : at[n] = "out" /\ row[n] = "queued"
    BY DEF Init, Busy
  <2> QED
    BY <2>1, FS_EmptySet DEF AloneInv, CheckpointIsVerified
<1>2. LaneInv /\ AloneInv /\ [Next]_vars => AloneInv'
  BY AloneInvNext
<1>3. AloneInv => CheckpointIsVerified
  BY DEF AloneInv
<1> QED
  BY <1>1, <1>2, <1>3, LaneInvInit, LaneInvNext, PTL DEF Spec
=============================================================================
