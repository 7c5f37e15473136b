---------------------------- MODULE SkwPipeline ----------------------------
(***************************************************************************)
(* The spec-kit-wave pipeline, `skw run`: one process drives a plan turn   *)
(* by turn.  A turn validates the plan, notes which plans exist, takes the *)
(* waves in topological order through agent, verify, commit and push, and  *)
(* gate, has the branch reviewed, and compares the verdict with the plans  *)
(* that have appeared.  A verdict that asks for changes has an agent write *)
(* the next plan.  Every command starts a process of its own, one at a     *)
(* time; the trees, the plans and the verdict files outlive it.            *)
(***************************************************************************)
EXTENDS Naturals, Sequences

CONSTANTS
  Plan,      \* plan files, numbered in the order of their names
  Length,    \* Length[p]: how many waves the plan has
  Gated,     \* Gated[p]: the positions, in topological order, with a gate
  MaxTurns,  \* MaxTurns[p]: its pipeline.max_turns
  Settings,  \* the checkouts and skw.toml files considered
  Verdict    \* the words a reviewer may write for its verdict

ASSUME SkwAssumption ==
  /\ Plan \subseteq Nat
  /\ Length \in [Plan -> Nat \ {0}]
  /\ Gated \in [Plan -> SUBSET Nat]
  /\ \A p \in Plan : Gated[p] \subseteq 1 .. Length[p]
  /\ MaxTurns \in [Plan -> Nat \ {0}]

Tree == {"root", "worktree"}

\* home: the tree the plan's branch is checked out in; desk: the tree the
\* agents edit (SKW_WORKSPACE); commit, push: commit_per_wave, push_per_wave.
Setting == [home : Tree \cup {"nowhere"}, desk : Tree,
            commit : BOOLEAN, push : BOOLEAN]

ASSUME SettingsAssumption ==
  Settings \subseteq Setting /\ {"pass", "changes_required"} \subseteq Verdict

Wave == UNION {{p} \X (1 .. Length[p]) : p \in Plan}
Papers == <<0, 0>>      \* plans and verdict files, which lie in the root tree
Item == Wave \cup {Papers}

Stages == {"validate", "wave", "verify", "commit", "gate", "review", "cross",
           "generate"}
Ended == {"none", "stopped", "failed", "done"}

VARIABLES
  env,      \* the setting; nobody changes it in between
  proc,     \* the node the process is at, or how the last one ended
  approved, \* SKW_AUTO_APPROVE=1 in its environment
  trail,    \* the plans of its turns, the current one last
  pos,      \* the wave it is at
  before,   \* the plans that existed when the turn opened
  plans,    \* the plan files under waves/
  reviews,  \* reviews[p]: the verdict in the review-result file of p
  verdict,  \* the verdict the review node has loaded
  loose,    \* loose[t]: what is changed in tree t and not committed
  ahead     \* what is committed on the plan's branch and not pushed

vars == <<env, proc, approved, trail, pos, before, plans, reviews, verdict,
          loose, ahead>>
turnVars == <<approved, trail, before>>
repo == <<loose, ahead>>
disk == <<plans, reviews>>

plan == trail[Len(trail)]
running == proc \in Stages

\* resolve_worktree: the tree the branch is checked out in, else the root.
CommitTree == IF env.home = "nowhere" THEN "root" ELSE env.home

Init ==
  /\ env \in Settings
  /\ proc = "none" /\ approved = FALSE /\ trail = <<>> /\ pos = 0
  /\ before = {}
  /\ plans \in SUBSET Plan
  /\ reviews = [p \in Plan |-> "missing"] /\ verdict = "missing"
  /\ loose = [t \in Tree |-> {}] /\ ahead = {}

Fail == proc' = "failed"

-----------------------------------------------------------------------------
(* A turn *)

Start(p, ok) ==
  /\ proc' = "validate" /\ approved' = ok /\ trail' = <<p>> /\ pos' = 0
  /\ before' = {} /\ verdict' = "missing"
  /\ UNCHANGED <<env, plans, reviews, loose, ahead>>

\* A run of a plan that has stopped at its gate takes itself for the approval.
RunResumes(p, ok) ==
  /\ proc \in Ended /\ p \in plans
  /\ \/ /\ proc = "stopped" /\ p = plan /\ pos < Length[p]
        /\ proc' = "wave" /\ pos' = pos + 1 /\ approved' = ok
        /\ UNCHANGED <<env, trail, before, plans, reviews, verdict, loose,
                       ahead>>
     \/ (proc = "stopped" => p # plan) /\ Start(p, ok)

\* Invoked with a fresh input the graph starts over, whatever its checkpoint.
Run(p, ok) ==
  /\ proc \in Ended /\ p \in plans
  /\ Start(p, ok)

\* What diff_new_waves finds against the snapshot of the turn.
Fresh(now) == now \ (before \cup {plan})

\* The snapshot is taken once, by the first turn.
ValidateOnce ==
  /\ proc = "validate"
  /\ \/ /\ proc' = "wave" /\ pos' = 1
        /\ before' = IF Len(trail) = 1 THEN plans ELSE before
     \/ Fail /\ UNCHANGED <<pos, before>>
  /\ UNCHANGED <<env, approved, trail, verdict, plans, reviews, loose, ahead>>

Validate ==
  /\ proc = "validate"
  /\ \/ proc' = "wave" /\ pos' = 1 /\ before' = plans
     \/ Fail /\ UNCHANGED <<pos, before>>
  /\ UNCHANGED <<env, approved, trail, verdict, plans, reviews, loose, ahead>>

\* A wave's agent, where it is told to work; it may also change nothing.
With(w) == [loose EXCEPT ![env.desk] = @ \cup {w}]
Edits(w) == loose' \in {loose, With(w)}

WaveAgent ==
  /\ proc = "wave"
  /\ Edits(<<plan, pos>>)
  /\ proc' = "verify" \/ Fail
  /\ UNCHANGED <<env, turnVars, pos, verdict, disk, ahead>>

Verify ==
  /\ proc = "verify"
  /\ proc' = "commit" \/ Fail
  /\ UNCHANGED <<env, turnVars, pos, verdict, disk, repo>>

\* The edge out of a wave's last node.
Onward ==
  IF pos < Length[plan] THEN proc' = "wave" /\ pos' = pos + 1
                        ELSE proc' = "review" /\ UNCHANGED pos

AfterCommit ==
  IF pos \in Gated[plan] THEN proc' = "gate" /\ UNCHANGED pos ELSE Onward

\* git add -A, git commit and git push in the tree t, whose changes were e:
\* the commit of a foreign branch is not on the plan's, and the push may fail.
Recorded(e, t) ==
  /\ e[t] # {} /\ loose' = [e EXCEPT ![t] = {}]
  /\ ahead' = IF env.home = "nowhere" THEN ahead ELSE ahead \cup e[t]

Pushed(e, t) ==
  /\ env.push /\ e[t] # {}
  /\ loose' = [e EXCEPT ![t] = {}] /\ ahead' = {}

\* As git.py describes itself: an empty diff is skipped, the push with it.
CommitOrSkip ==
  /\ proc = "commit"
  /\ \/ /\ ~env.commit \/ loose[CommitTree] = {}
        /\ AfterCommit /\ UNCHANGED repo
     \/ /\ env.commit /\ AfterCommit
        /\ \/ ~env.push /\ Recorded(loose, CommitTree)
           \/ Pushed(loose, CommitTree)
     \/ /\ env.commit /\ Fail /\ UNCHANGED pos
        /\ UNCHANGED repo \/ (env.push /\ Recorded(loose, CommitTree))
  /\ UNCHANGED <<env, turnVars, verdict, disk>>

\* git says "nothing to commit" on stdout, where the code does not look: an
\* empty diff fails the run, as a refused commit or push does.
Commit ==
  /\ proc = "commit"
  /\ \/ ~env.commit /\ AfterCommit /\ UNCHANGED repo
     \/ /\ env.commit /\ AfterCommit
        /\ \/ ~env.push /\ Recorded(loose, CommitTree)
           \/ Pushed(loose, CommitTree)
     \/ /\ env.commit /\ Fail /\ UNCHANGED pos
        /\ UNCHANGED repo \/ (env.push /\ Recorded(loose, CommitTree))
  /\ UNCHANGED <<env, turnVars, verdict, disk>>

\* Nothing ever answers the interrupt: an approval is a new process that
\* starts over with SKW_AUTO_APPROVE=1.
Gate ==
  /\ proc = "gate"
  /\ IF approved THEN Onward ELSE proc' = "stopped" /\ UNCHANGED pos
  /\ UNCHANGED <<env, turnVars, verdict, disk, repo>>

PapersLoose == [loose EXCEPT !["root"] = @ \cup {Papers}]

\* The reviewer writes a verdict, or exits 0 without: the file of an earlier
\* review of the plan then counts.
Review ==
  /\ proc = "review"
  /\ \/ reviews' = reviews /\ loose' = loose
     \/ /\ \E v \in Verdict : reviews' = [reviews EXCEPT ![plan] = v]
        /\ loose' = PapersLoose
  /\ \/ Fail /\ UNCHANGED verdict
     \/ /\ reviews'[plan] # "missing"
        /\ proc' = "cross" /\ verdict' = reviews'[plan]
  /\ UNCHANGED <<env, turnVars, pos, plans, ahead>>

\* cross_check_outcome, and the turn limit of the first plan.
CrossCheck ==
  /\ proc = "cross"
  /\ proc' = CASE verdict = "pass" /\ Fresh(plans) = {} -> "done"
               [] /\ verdict = "changes_required"
                  /\ Len(trail) < MaxTurns[trail[1]] -> "generate"
               [] OTHER -> "failed"
  /\ UNCHANGED <<env, turnVars, pos, verdict, disk, repo>>

\* The generator writes plans; the first new one by name is the next turn's,
\* the others are in that turn's snapshot and nobody comes back to them.
Generate ==
  /\ proc = "generate"
  /\ \E made \in SUBSET (Plan \ plans) :
       /\ plans' = plans \cup made
       /\ loose' = IF made = {} THEN loose ELSE PapersLoose
       /\ \/ \E p \in Fresh(plans') :
               /\ \A q \in Fresh(plans') : p <= q
               /\ trail' = Append(trail, p) /\ proc' = "validate" /\ pos' = 0
          \/ Fail /\ UNCHANGED <<trail, pos>>
  /\ UNCHANGED <<env, approved, before, verdict, reviews, ahead>>

Die == running /\ Fail
       /\ UNCHANGED <<env, turnVars, pos, verdict, disk, repo>>

-----------------------------------------------------------------------------
(* The operator *)

\* Somebody writes a plan by hand, or a wave's agent does.
Author(p) ==
  /\ p \notin plans
  /\ plans' = plans \cup {p} /\ loose' = PapersLoose
  /\ UNCHANGED <<env, proc, turnVars, pos, reviews, verdict, ahead>>

\* skw agent-run for one wave: no verify, no gate, and a commit only where
\* the branch is checked out.
AgentRun(w) ==
  /\ proc \in Ended /\ w[1] \in plans
  /\ \/ Edits(w) /\ UNCHANGED ahead
     \/ /\ env.commit /\ env.home # "nowhere"
        /\ \E edited \in {loose, With(w)} :
             Recorded(edited, env.home) \/ Pushed(edited, env.home)
  /\ proc' = "none"
  /\ UNCHANGED <<env, turnVars, pos, verdict, disk>>

Next ==
  \/ \E p \in Plan, ok \in BOOLEAN : Run(p, ok)
  \/ Validate \/ WaveAgent \/ Verify \/ Commit \/ Gate \/ Review
  \/ CrossCheck \/ Generate \/ Die
  \/ \E p \in Plan : Author(p)
  \/ \E w \in Wave : AgentRun(w)

Spec == Init /\ [][Next]_vars

-----------------------------------------------------------------------------
(* Properties *)

TypeOK ==
  /\ env \in Setting
  /\ proc \in Stages \cup Ended /\ approved \in BOOLEAN
  /\ trail \in Seq(Plan) /\ pos \in Nat
  /\ before \subseteq Plan /\ plans \subseteq Plan
  /\ reviews \in [Plan -> Verdict \cup {"missing"}]
  /\ verdict \in Verdict \cup {"missing"}
  /\ loose \in [Tree -> SUBSET Item] /\ ahead \subseteq Item
  /\ proc # "none" => trail # <<>>

\* A run that ends well leaves no wave's edits in the tree the branch is
\* checked out in, and no commit of the plan's branch, its own or one that an
\* earlier run or an agent-run made and failed to push, off the remote.
FinishIsPushed ==
  proc = "done" /\ env.commit =>
    /\ loose[CommitTree] \subseteq {Papers}
    /\ env.push => ahead = {}

\* A process that was started without approval works on no wave behind a
\* gate of the plan of any turn, nor does it review or finish such a plan,
\* however often it was started before (the review_gate nodes).
GatesHold ==
  ~approved /\ (running \/ proc = "done") =>
    /\ \A k \in Gated[plan] : pos <= k
    /\ proc \in {"review", "cross", "generate", "done"} =>
         Gated[plan] = {}

\* A run takes each of its turns on a plan of its own, and no more turns
\* than the plan it was given allows, whatever later plans say.
TurnsEnd ==
  running \/ proc = "done" =>
    /\ \A i, j \in 1 .. Len(trail) : trail[i] = trail[j] => i = j
    /\ Len(trail) <= MaxTurns[trail[1]]

=============================================================================
