----------------------------- MODULE RunFolders -----------------------------
(***************************************************************************)
(* The folders of the runs root: an input set is claimed into              *)
(* processing/<run-id>/, the engine files the run under processed/ or      *)
(* failed/, resume takes a failed run back, delete-run removes it and      *)
(* reset-run puts its plan files back into input/.  Each of these is a     *)
(* process of its own, started from a terminal or detached by the          *)
(* dashboard; nothing locks a run or a set, and any process may be killed  *)
(* between two steps.                                                      *)
(***************************************************************************)
EXTENDS RunLedger, FiniteSets

CONSTANTS
  Set,      \* names of input sets
  File,     \* plan files
  Contents, \* Contents[s]: the files the operator drops as set s
  SlugSet,  \* SlugSet[s]: the set name that the slug of s denotes
  Id,       \* run ids, each used once: it carries the second of the claim
  Proc,     \* the processes that may be alive at a time
  Nobody    \* the id of a process that has none

ASSUME FoldersAssumption ==
  /\ Set # {}
  /\ Contents \in [Set -> (SUBSET File) \ {{}}]
  /\ \A s, t \in Set : s # t => Contents[s] \cap Contents[t] = {}
  /\ SlugSet \in [Set -> Set] /\ \A s \in Set : SlugSet[SlugSet[s]] = SlugSet[s]
  /\ Nobody \notin Id

\* "none" before the claim, "nested" inside another directory, "gone" after the
\* removal.
Places == {"none", "processing", "processed", "failed", "nested", "gone"}

VARIABLES
  input,    \* the sets that have a directory in input/
  holds,    \* holds[s]: the plan files in it
  place,    \* place[i]: where the directory of run i is
  kept,     \* kept[i]: the plan files in it
  led,      \* led[i]: its ledger's run state; "none" before the run is inserted
  ghost,    \* ghost[i]: where a directory of that name is that has no plan
  slug,     \* slug[i]: the set that reset-run restores i to
  proc,     \* what each process does: a step, the set and the id it is about,
            \* the folder it found the run in, the files it has copied
  crossed,  \* history: plan files of runs that two processes were at work on, or
            \* that a reset which was cut short had copied
  dropped   \* history: files removed by a process that had not copied them

vars == <<input, holds, place, kept, led, ghost, slug, proc, crossed, dropped>>

inputVars == <<input, holds>>
runVars   == <<place, kept, led, ghost, slug>>
histVars  == <<crossed, dropped>>

Idle == [step |-> "idle", set |-> SlugSet[CHOOSE s \in Set : TRUE], id |-> Nobody,
         dir |-> "none", copied |-> {}]
Steps == {"idle", "launch", "claim", "seed", "drive", "file", "check", "copy", "clean", "remove"}
Engine == {"seed", "drive", "file"}

Init ==
  /\ input = Set /\ holds = Contents
  /\ place = [i \in Id |-> "none"] /\ kept = [i \in Id |-> {}]
  /\ led = [i \in Id |-> "none"] /\ ghost = [i \in Id |-> "none"]
  /\ slug = [i \in Id |-> Idle.set]
  /\ proc = [p \in Proc |-> Idle]
  /\ crossed = {} /\ dropped = {}

At(p, s) == proc[p].step = s
Become(p, s) == proc' = [proc EXCEPT ![p].step = s]
Exit(p) == proc' = [proc EXCEPT ![p] = Idle]
OthersOn(p, i) == \E q \in Proc \ {p} : proc[q].id = i

\* find_run_dir: the first of the three folders that has the name.
Has(i, folder) == folder \in {place[i], ghost[i]}
Find(i) ==
  IF Has(i, "processing") THEN "processing"
  ELSE IF Has(i, "processed") THEN "processed"
  ELSE IF Has(i, "failed") THEN "failed" ELSE "none"
\* ... and whether what it finds is the run, not a directory made afresh.
Own(i) == Find(i) # "none" /\ place[i] = Find(i)

-----------------------------------------------------------------------------
(* Launching: tripll run, POST /api/runs, the dashboard's form.            *)

\* The launcher looks whether the path exists and starts the engine.
Launch(p, s) ==
  /\ At(p, "idle") /\ s \in input
  /\ proc' = [proc EXCEPT ![p] = [Idle EXCEPT !.step = "launch", !.set = s]]
  /\ UNCHANGED <<inputVars, runVars, histVars>>

\* claim_input looks again, validates the plans and names the run.
Claim(p, i) ==
  /\ At(p, "launch") /\ proc[p].set \in input
  /\ place[i] = "none" /\ ~OthersOn(p, i)
  /\ proc' = [proc EXCEPT ![p].step = "claim", ![p].id = i]
  /\ UNCHANGED <<inputVars, runVars, histVars>>

\* The set is gone, or a plan has dead references.
ClaimFails(p) == At(p, "launch") /\ Exit(p) /\ UNCHANGED <<inputVars, runVars, histVars>>

\* Mutant: a move across file systems that leaves the source behind.
MoveCopying(p) ==
  /\ At(p, "claim")
  /\ IF proc[p].set \in input
     THEN /\ place' = [place EXCEPT ![proc[p].id] = "processing"]
          /\ kept' = [kept EXCEPT ![proc[p].id] = holds[proc[p].set]]
          /\ slug' = [slug EXCEPT ![proc[p].id] = SlugSet[proc[p].set]]
          /\ proc' = [proc EXCEPT ![p].step = "seed", ![p].set = Idle.set]
          /\ UNCHANGED inputVars
     ELSE Exit(p) /\ UNCHANGED <<inputVars, place, kept, slug>>
  /\ UNCHANGED <<led, ghost, histVars>>

Move(p) ==
  /\ At(p, "claim")
  /\ IF proc[p].set \in input
     THEN /\ place' = [place EXCEPT ![proc[p].id] = "processing"]
          /\ kept' = [kept EXCEPT ![proc[p].id] = holds[proc[p].set]]
          /\ slug' = [slug EXCEPT ![proc[p].id] = SlugSet[proc[p].set]]
          /\ input' = input \ {proc[p].set}
          /\ holds' = [holds EXCEPT ![proc[p].set] = {}]
          /\ proc' = [proc EXCEPT ![p].step = "seed", ![p].set = Idle.set]
     ELSE Exit(p) /\ UNCHANGED <<inputVars, place, kept, slug>>
  /\ UNCHANGED <<led, ghost, histVars>>

\* The graph is built and the ledger seeded, or the plan does not parse: then
\* the run stays in processing/ without a ledger row.
Seed(p) ==
  /\ At(p, "seed") /\ place[proc[p].id] = "processing"
  /\ \/ led' = [led EXCEPT ![proc[p].id] = "active"] /\ Become(p, "drive")
     \/ Exit(p) /\ UNCHANGED led
  /\ UNCHANGED <<inputVars, place, kept, ghost, slug, histVars>>

-----------------------------------------------------------------------------
(* The engine's session.                                                   *)

\* Logs and worktrees are made with their parents: an engine whose directory
\* has left processing/ makes a new one, or fails over it.
Recreate(p) ==
  /\ proc[p].step \in {"seed", "drive"} /\ place[proc[p].id] # "processing"
  /\ ghost[proc[p].id] = "none"
  /\ ghost' = [ghost EXCEPT ![proc[p].id] = "processing"]
  /\ UNCHANGED <<inputVars, place, kept, led, slug, proc, histVars>>

\* The session has one connection to the ledger, which follows the file.
MoveLedger(i, state) ==
  led' = IF led[i] = "none" THEN led ELSE [led EXCEPT ![i] = state]
Asks(p, state) == At(p, "drive") /\ (led[proc[p].id] = "none" \/ CanMoveRun(led[proc[p].id], state))

\* The ledger says paused then, which takes the same moves as active.
Pause(p) == Asks(p, "paused") /\ Exit(p) /\ UNCHANGED <<inputVars, runVars, histVars>>

Conclude(p) ==
  /\ \E v \in TerminalRunStates : Asks(p, v) /\ MoveLedger(proc[p].id, v)
  /\ Become(p, "file")
  /\ UNCHANGED <<inputVars, place, kept, ghost, slug, histVars>>

\* complete_run, fail_run: whatever processing/<id> is by now moves; onto a
\* directory of that name it moves inside.
Target(i) == IF led[i] = "done" THEN "processed" ELSE "failed"
FileRun(p) ==
  LET i == proc[p].id IN
  /\ At(p, "file")
  /\ CASE place[i] = "processing" ->
            place' = [place EXCEPT ![i] = IF Has(i, Target(i)) THEN "nested" ELSE Target(i)] /\ UNCHANGED ghost
       [] place[i] # "processing" /\ ghost[i] = "processing" ->
            ghost' = [ghost EXCEPT ![i] = IF Has(i, Target(i)) THEN "none" ELSE Target(i)] /\ UNCHANGED place
       [] OTHER -> UNCHANGED <<place, ghost>>      \* FileNotFoundError
  /\ Exit(p)
  /\ UNCHANGED <<inputVars, kept, led, slug, histVars>>

-----------------------------------------------------------------------------
(* Commands for a run.                                                     *)

Cross(p, i) == crossed' = IF OthersOn(p, i) THEN crossed \cup kept[i] ELSE crossed

\* _prepare_resume and the session's first move: a run without a ledger row, or
\* that the ledger has concluded, raises; a failed one goes to paused first.
Starts(i) ==
  /\ led[i] # "none"
  /\ CanMoveRun(led[i], IF Find(i) = "failed" THEN "paused" ELSE "active")

\* resume: a run under failed/ moves back to processing/ in any case.
Resume(p, i) ==
  /\ At(p, "idle") /\ Own(i) /\ Find(i) # "processed"
  /\ place' = [place EXCEPT ![i] = "processing"]
  /\ IF Starts(i)
     THEN /\ led' = [led EXCEPT ![i] = "active"]
          /\ proc' = [proc EXCEPT ![p] = [Idle EXCEPT !.step = "drive", !.id = i]]
     ELSE UNCHANGED <<led, proc>>
  /\ Cross(p, i)
  /\ UNCHANGED <<inputVars, kept, ghost, slug, dropped>>

\* delete-run: worktrees and ledger files first, then the directory.
Delete(p, i) ==
  /\ At(p, "idle") /\ Own(i)
  /\ proc' = [proc EXCEPT ![p] = [Idle EXCEPT !.step = "clean", !.id = i, !.dir = Find(i)]]
  /\ Cross(p, i)
  /\ UNCHANGED <<inputVars, runVars, dropped>>

\* Either command may find a directory that an engine made afresh.
DeleteGhost(p, i) ==
  /\ At(p, "idle") /\ Find(i) # "none" /\ ~Own(i)
  /\ ghost' = [ghost EXCEPT ![i] = "none"]
  /\ Cross(p, i)
  /\ UNCHANGED <<inputVars, place, kept, led, slug, proc, dropped>>

Reset(p, i) ==
  /\ At(p, "idle") /\ Own(i)
  /\ proc' = [proc EXCEPT ![p] =
                 [Idle EXCEPT !.step = "check", !.set = slug[i], !.id = i, !.dir = Find(i)]]
  /\ Cross(p, i)
  /\ UNCHANGED <<inputVars, runVars, dropped>>

\* The run may have left the folder it was found in: then there is nothing to
\* copy or to remove there, unless an engine made the directory afresh.
Here(p) == place[proc[p].id] = proc[p].dir
Visible(p) == IF Here(p) THEN kept[proc[p].id] ELSE {}

\* Mutant: a set that is there is taken for the restored one, and counts so.
TargetTrusted(p) ==
  /\ At(p, "check")
  /\ input' = input \cup {proc[p].set}
  /\ proc' = [proc EXCEPT ![p].step = "clean", ![p].copied = Visible(p)]
  /\ UNCHANGED <<holds, runVars, histVars>>

\* An existing input/<slug> counts as the retry of a reset that had copied
\* everything (partial_retry), as long as the run's directory exists too.
TargetFound(p) ==
  LET s == proc[p].set IN
  /\ At(p, "check")
  /\ \/ s \notin input /\ Become(p, "copy") /\ input' = input \cup {s}
     \/ /\ s \in input /\ UNCHANGED input
        /\ IF Here(p) \/ ghost[proc[p].id] = proc[p].dir THEN Become(p, "clean") ELSE Exit(p)
  /\ UNCHANGED <<holds, runVars, histVars>>

\* What a reset that stops here leaves in two places.
CutShort(p) == crossed' = crossed \cup {f \in proc[p].copied : f \in kept[proc[p].id]}

\* copy2, file by file; the target or the source may have been taken away.
Copy(p) ==
  /\ At(p, "copy") /\ proc[p].set \in input
  /\ \E f \in Visible(p) \ proc[p].copied :
       /\ holds' = [holds EXCEPT ![proc[p].set] = @ \cup {f}]
       /\ proc' = [proc EXCEPT ![p].copied = @ \cup {f}]
  /\ UNCHANGED <<input, runVars, histVars>>
CopyFails(p) ==
  /\ At(p, "copy") /\ proc[p].set \notin input /\ Visible(p) \ proc[p].copied # {}
  /\ Exit(p) /\ CutShort(p)
  /\ UNCHANGED <<inputVars, runVars, dropped>>

\* Nothing is left to copy.  Was there no plan file to restore, the target goes
\* again, with all that is in it.
Copied(p) ==
  LET s == proc[p].set IN
  /\ At(p, "copy") /\ Visible(p) \subseteq proc[p].copied
  /\ IF proc[p].copied = {}
     THEN /\ input' = input \ {s} /\ holds' = [holds EXCEPT ![s] = {}]
          /\ dropped' = dropped \cup holds[s] /\ Exit(p)
     ELSE Become(p, "clean") /\ UNCHANGED <<inputVars, dropped>>
  /\ UNCHANGED <<runVars, crossed>>

\* _remove_run_dir: the ledger and its sidecars, then the tree.
Clean(p) ==
  /\ At(p, "clean")
  /\ led' = IF Here(p) THEN [led EXCEPT ![proc[p].id] = "none"] ELSE led
  /\ Become(p, "remove")
  /\ UNCHANGED <<inputVars, place, kept, ghost, slug, histVars>>
Remove(p) ==
  LET i == proc[p].id IN
  /\ At(p, "remove")
  /\ IF Here(p)
     THEN /\ place' = [place EXCEPT ![i] = "gone"]
          /\ kept' = [kept EXCEPT ![i] = {}]
          /\ slug' = [slug EXCEPT ![i] = Idle.set]
          /\ dropped' = dropped \cup (kept[i] \ proc[p].copied)
          /\ UNCHANGED ghost
     ELSE /\ ghost' = [ghost EXCEPT ![i] = IF @ = proc[p].dir THEN "none" ELSE @]
          /\ UNCHANGED <<place, kept, slug, dropped>>
  /\ Exit(p)
  /\ UNCHANGED <<inputVars, led, crossed>>

\* A process is killed, or fails over what another did to its run.
Kill(p) ==
  /\ ~At(p, "idle") /\ Exit(p) /\ CutShort(p)
  /\ UNCHANGED <<inputVars, runVars, dropped>>

EngineStep(p) == Seed(p) \/ Recreate(p) \/ Pause(p) \/ Conclude(p) \/ FileRun(p)
ResetStep(p) == TargetFound(p) \/ Copy(p) \/ CopyFails(p) \/ Copied(p) \/ Clean(p) \/ Remove(p)
ProcStep(p) ==
  \/ \E s \in Set : Launch(p, s)
  \/ \E i \in Id : Claim(p, i) \/ Resume(p, i) \/ Delete(p, i) \/ DeleteGhost(p, i) \/ Reset(p, i)
  \/ ClaimFails(p) \/ Move(p) \/ EngineStep(p) \/ ResetStep(p) \/ Kill(p)

Next == \E p \in Proc : ProcStep(p)

Spec == Init /\ [][Next]_vars

-----------------------------------------------------------------------------
(* The plans the operator dropped: from input/ they are moved, from a run  *)
(* they are copied back.                                                   *)
Present == (UNION {holds[s] : s \in Set}) \cup (UNION {kept[i] : i \in Id})

\* Whatever is launched, killed, resumed and reset at the same time, a plan
\* file that was in input/ stays there or in a run's directory, unless
\* delete-run removed it or a reset did that had not copied it: because its
\* target name was in use, or because the run was gone already and it took its
\* target away again (claim_input, reset_run).
PlanKept == [][Present \subseteq Present' \cup dropped']_vars

\* Two engines never drive the same plan file, although launches check and
\* move in two steps and reset-run shows the target before the run is gone,
\* unless commands crossed for a run that had the file or a reset was cut short
\* that had copied it (claim_input, reset_run).
OnePlanOneRun ==
  \A p, q \in Proc :
    p # q /\ proc[p].step \in Engine /\ proc[q].step \in Engine
      => kept[proc[p].id] \cap kept[proc[q].id] \subseteq crossed
=============================================================================
