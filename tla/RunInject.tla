----------------------------- MODULE RunInject -----------------------------
(***************************************************************************)
(* Adding work to a run that is under way: hotfixes (tripll run inject),   *)
(* parallel lanes (tripll wave add), edits of the plan files, and the      *)
(* reconciliation of graph and ledger that the reconcile-graph command and *)
(* every resume perform (inject_dispatch, inject_apply, Engine.resume).    *)
(*                                                                         *)
(* Each command is a process of its own.  It validates against what it     *)
(* reads, and only then takes inject.lock and writes: first the artefact   *)
(* file, then the ledger row, then graph.json.  The graph of a run is      *)
(* never stored for the engine: it is rebuilt from the plan files and the  *)
(* artefacts at every resume, and the engine keeps that graph in memory.   *)
(*                                                                         *)
(* Left out: dry runs (they write a .plan.json nothing reads), the cost    *)
(* headroom (one more refusal), graph.json (a view), human-gate batches,   *)
(* several dependencies of one injected wave, lane additions that join a   *)
(* lane there is, the orchestrator's serial order.  The attempt loop of a  *)
(* wave is WaveRun's; here a wave starts, goes back to the queue, ends.    *)
(***************************************************************************)
EXTENDS Naturals, Sequences, FiniteSets

CONSTANTS
  PlanWave,     \* waves the plan files may define
  Deps,         \* Deps[n]: the plan waves n depends on
  PlanBatches,  \* the batches of the plan, in order: sets of plan waves
  Labelled,     \* do batches list their waves (wave_ids: v1 and v3 plans)?
  Hotfix,       \* calls of tripll run inject
  WaveAdd,      \* the calls of tripll wave add
  AddName,      \* the node id each of the latter asks for
  Clash,        \* pairs of calls whose lanes may not be in one graph
  None,         \* no value
  Settings      \* how runs are operated: [start, hotfixes, events]

\* A setting is what the plan files define when the run starts, the hotfixes
\* that are called, and what operators and machines do.
\* overlap: commands run beside each other and beside a live engine; crash: a
\* process is killed; force: --force-after-drain; reconcile: the reconcile-graph
\* command is used; edit: plan files change; next: --batch next may need a new
\* batch; chain: a hotfix may follow an injected lane.
EnvEvents == {"overlap", "crash", "force", "reconcile", "edit", "next", "chain"}

Task     == Hotfix \cup WaveAdd
\* hotfix:HF-n is represented by n.
HotfixId == 1 .. Cardinality(Hotfix)
Injected == HotfixId \cup {AddName[t] : t \in WaveAdd}
Node     == PlanWave \cup Injected
Batch    == 1 .. Len(PlanBatches)
NewBatch == Len(PlanBatches) + 1   \* an Inject-n batch, known to no plan file
Reconciler == {"cli", "resume"}

ASSUME InjectAssumption ==
  /\ Deps \in [PlanWave -> SUBSET PlanWave]
  /\ PlanBatches \in Seq(SUBSET PlanWave) /\ PlanBatches # << >>
  /\ Labelled \in BOOLEAN
  /\ Hotfix \cap WaveAdd = {} /\ IsFiniteSet(Hotfix)
  /\ PlanWave \cap Injected = {}
  /\ \A t \in WaveAdd : AddName[t] \notin HotfixId
  /\ Clash \subseteq Task \X Task /\ \A t \in Task : <<t, t>> \notin Clash
  /\ None \notin Node \cup Task
  /\ Settings \subseteq [start : SUBSET PlanWave, hotfixes : SUBSET Hotfix, events : SUBSET EnvEvents]

VARIABLES
  \* the run directory and the ledger
  plan,       \* the waves that the plan files now define
  artefacts,  \* the calls whose injects/<task>.json exists
  lock,       \* inject.lock exists
  marker,     \* pause-requested.md exists
  dir,        \* the folder of the run directory: processing, or filed
  ghost,      \* a second directory of this run was created in processing/
  runState,   \* runs.state
  row,        \* waves.state; running stands for every in-flight state
  \* the engine
  pc,         \* where it stands
  mem,        \* the graph it drives: plan waves and merged calls
  batch,      \* the batch it drains
  flight,     \* the waves of the round that have not ended
  \* the commands
  call,       \* how far each inject command is
  node, anchor, place, rank,  \* what it decided on: id, dependency, batch, task id
  rec,        \* the reconciliations: how far, the graph, the rows to insert
  setting     \* one of Settings, for good

disk   == <<plan, artefacts, lock, marker, dir, ghost, runState, row>>
engine == <<pc, mem, batch, flight>>
calls  == <<call, node, anchor, place, rank>>
vars   == <<disk, engine, calls, rec, setting>>

Env == setting.events

RowStates  == {"none", "queued", "running", "done", "blocked"}
CallStates == {"idle", "planned", "locked", "written", "inserted", "applied",
               "failed", "killed"}
NoGraph == [plan |-> {}, tasks |-> {}]
Graphs  == [plan : SUBSET PlanWave, tasks : SUBSET Task]
NoRec   == [at |-> "idle", graph |-> NoGraph, missing |-> {}]

TypeOK ==
  /\ plan \subseteq PlanWave
  /\ artefacts \subseteq Task
  /\ lock \in BOOLEAN /\ marker \in BOOLEAN /\ ghost \in BOOLEAN
  /\ dir \in {"processing", "filed"}
  /\ runState \in {"active", "paused", "done", "failed"}
  /\ row \in [Node -> RowStates]
  /\ pc \in {"down", "reconcile", "prepare", "round", "gather", "file"}
  /\ mem \in Graphs
  /\ batch \in 1 .. NewBatch
  /\ flight \subseteq Node
  /\ call \in [Task -> CallStates]
  /\ node \in [Task -> Injected \cup {None}]
  /\ anchor \in [Task -> Node \cup {None}]
  /\ place \in [Task -> 0 .. NewBatch]
  /\ rank \in [Task -> Nat]
  /\ rec \in [Reconciler -> [at : {"idle", "planned", "locked"},
                             graph : Graphs, missing : SUBSET Node]]

-----------------------------------------------------------------------------
(* Rebuilding the graph: merge_injected_artefacts.                         *)

\* Hotfixes are merged before lane additions, each kind in task-id order.
Before(t, u) ==
  \/ t \in Hotfix /\ u \in WaveAdd
  \/ (t \in Hotfix <=> u \in Hotfix) /\ rank[t] < rank[u]

\* Merging is idempotent per node id: the first artefact of a node counts.
Merged ==
  {t \in artefacts : \A u \in artefacts \ {t} : node[u] = node[t] => Before(t, u)}

\* Mutant of Rebuilt: only hotfixes are merged again (merge_injected_hotfixes).
RebuiltHotfixes == [plan |-> plan, tasks |-> Merged \cap Hotfix]

Rebuilt == [plan |-> plan, tasks |-> Merged]

\* Every merge validates the graph so far: nothing may depend on a wave that
\* is missing, and lanes may not overlap; a batch is looked up by its name.
Mergeable ==
  /\ \A n \in plan : Deps[n] \subseteq plan
  /\ \A t \in Merged :
       /\ anchor[t] \in plan \cup {node[u] : u \in {v \in Merged : Before(v, t)}}
       /\ t \in WaveAdd => place[t] # NewBatch
       /\ \A u \in Merged : <<t, u>> \notin Clash

Nodes(g) == g.plan \cup {node[t] : t \in g.tasks}

\* Mutant of DepsOf: the dependency of an injected wave is lost.
DepsOfPlanOnly(g, n) == IF n \in PlanWave THEN Deps[n] ELSE {}
DepsOf(g, n) ==
  IF n \in PlanWave THEN Deps[n] ELSE {anchor[t] : t \in {u \in g.tasks : node[u] = n}}

First(S) == CHOOSE b \in S : \A c \in S : b <= c

\* The hotfix lane is appended to the first batch of the anchor, or to the last
\* one; after a hotfix it is there.  All hotfixes are waves of that lane; a
\* batch that lists its waves does not list them.
HomeBatch(n) ==
  LET home == {b \in Batch : n \in PlanBatches[b]}
  IN  IF home = {} THEN Len(PlanBatches) ELSE First(home)
HotfixBatches(g) ==
  IF Labelled THEN {}
  ELSE {HomeBatch(anchor[t]) : t \in {u \in g.tasks \cap Hotfix : anchor[u] \in PlanWave}}

\* nodes_for_batch
InBatch(g, b) ==
  (g.plan \cap PlanBatches[b]) \cup
  {node[t] : t \in {u \in g.tasks : IF u \in Hotfix THEN b \in HotfixBatches(g)
                                                    ELSE place[u] = b}}

FullyDone(g, b) == InBatch(g, b) # {} /\ \A n \in InBatch(g, b) : row[n] = "done"

\* _resolve_wave_add_batch_index: --batch current, then --batch next.
CurrentBatch(g, a) ==
  LET home == {b \in Batch : a \in InBatch(g, b)}
  IN  IF home = {} \/ FullyDone(g, First(home)) THEN {} ELSE {First(home)}

FollowingBatch(g, a) ==
  LET home  == {b \in Batch : a \in InBatch(g, b)}
      later == {b \in Batch : b > First(home) /\ InBatch(g, b) # {} /\ ~FullyDone(g, b)}
  IN  IF home = {} THEN {} ELSE IF later = {} THEN {NewBatch} ELSE {First(later)}

-----------------------------------------------------------------------------
(* The start, and who may act.                                             *)

\* Engine.start: the ledger holds the waves of the plan, and these are driven.
Init ==
  /\ setting \in Settings
  /\ plan = setting.start /\ artefacts = {}
  /\ lock = FALSE /\ marker = FALSE
  /\ dir = "processing" /\ ghost = FALSE
  /\ runState = "active"
  /\ row = [n \in Node |-> IF n \in plan THEN "queued" ELSE "none"]
  /\ pc = "prepare" /\ mem = [plan |-> plan, tasks |-> {}]
  /\ batch = 1 /\ flight = {}
  /\ call = [t \in Task |-> "idle"]
  /\ node = [t \in Task |-> None] /\ anchor = [t \in Task |-> None]
  /\ place = [t \in Task |-> 0] /\ rank = [t \in Task |-> 0]
  /\ rec = [r \in Reconciler |-> NoRec]

\* Who is between taking inject.lock and giving it back.
Holders ==
  {t \in Task : call[t] \in {"locked", "written", "inserted"}} \cup
  {r \in Reconciler : rec[r].at = "locked"}

\* Without "overlap" a command starts only when nothing else is under way.
MayStart ==
  \/ "overlap" \in Env
  \/ /\ pc = "down"
     /\ Holders = {}
     /\ \A t \in Task : call[t] # "planned"
     /\ \A r \in Reconciler : rec[r].at = "idle"

\* _assert_run_paused; --force-after-drain drops the second conjunct.
RunPaused ==
  /\ marker
  /\ "force" \in Env \/ \A n \in Node : row[n] # "running"

-----------------------------------------------------------------------------
(* tripll run inject and tripll wave add.                                  *)

\* A task id starts with the second of the call and ends in random digits: the
\* new one sorts last, or before the latest when both fall in one second.
NewRank(t) ==
  LET known == Cardinality({u \in Task : rank[u] > 0})
  IN  \E p \in {known + 1} \cup (IF "overlap" \in Env /\ known > 0 THEN {known} ELSE {}) :
        rank' = [u \in Task |-> IF u = t THEN p
                                ELSE IF rank[u] >= p THEN rank[u] + 1 ELSE rank[u]]

\* Mutant of Plan: lanes are not compared.
PlanUnchecked(t, n, a, b) ==
  /\ call' = [call EXCEPT ![t] = "planned"]
  /\ node' = [node EXCEPT ![t] = n]
  /\ anchor' = [anchor EXCEPT ![t] = a]
  /\ place' = [place EXCEPT ![t] = b]
  /\ NewRank(t)
  /\ UNCHANGED <<disk, engine, rec>>

\* The call has passed its checks and has decided what to add, and where.
Plan(t, n, a, b) ==
  /\ \A u \in Merged : <<t, u>> \notin Clash /\ <<u, t>> \notin Clash
  /\ call' = [call EXCEPT ![t] = "planned"]
  /\ node' = [node EXCEPT ![t] = n]
  /\ anchor' = [anchor EXCEPT ![t] = a]
  /\ place' = [place EXCEPT ![t] = b]
  /\ NewRank(t)
  /\ UNCHANGED <<disk, engine, rec>>

\* _next_hotfix_wave_id: one more than the largest among the artefacts.
NextHotfixId(i) ==
  /\ \A t \in artefacts \cap Hotfix : node[t] < i
  /\ i = 1 \/ \E t \in artefacts \cap Hotfix : node[t] = i - 1

\* plan_hotfix_inject: the anchor must be done.
PlanHotfix(t) ==
  /\ call[t] = "idle" /\ t \in setting.hotfixes /\ MayStart
  /\ dir = "processing" /\ RunPaused /\ Mergeable
  /\ \E a \in Nodes(Rebuilt) :
       /\ row[a] = "done"
       /\ "chain" \in Env \/ \A u \in WaveAdd : a # AddName[u]
       /\ \E i \in HotfixId : NextHotfixId(i) /\ Plan(t, i, a, 0)

\* plan_wave_add: its dependencies need not be done (--depends-on).
PlanWaveAdd(t) ==
  /\ call[t] = "idle" /\ MayStart
  /\ dir = "processing" /\ marker /\ \A n \in Node : row[n] # "running"
  /\ Mergeable
  /\ AddName[t] \notin Nodes(Rebuilt)
  /\ \E a \in Nodes(Rebuilt) :
       \E b \in CurrentBatch(Rebuilt, a) \cup FollowingBatch(Rebuilt, a) :
         /\ "next" \in Env \/ b # NewBatch
         /\ Plan(t, AddName[t], a, b)

Advance(t, to) ==
  /\ call' = [call EXCEPT ![t] = to]
  /\ UNCHANGED <<node, anchor, place, rank, engine, rec>>

\* _acquire_inject_lock (the .plan.json written just before is for people).
Lock(t) ==
  /\ call[t] = "planned" /\ dir = "processing"
  /\ lock' = TRUE
  /\ Advance(t, IF lock THEN "failed" ELSE "locked")
  /\ UNCHANGED <<plan, artefacts, marker, dir, ghost, runState, row>>

\* Mutant of WriteArtefact: the ledger row is inserted first.
ArtefactLater(t) ==
  /\ call[t] = "locked" /\ dir = "processing"
  /\ Advance(t, "written")
  /\ UNCHANGED disk

WriteArtefact(t) ==
  /\ call[t] = "locked" /\ dir = "processing"
  /\ artefacts' = artefacts \cup {t}
  /\ Advance(t, "written")
  /\ UNCHANGED <<plan, lock, marker, dir, ghost, runState, row>>

\* insert_wave: the row exists already (IntegrityError), or is queued.
InsertRow(t) ==
  /\ call[t] = "written" /\ dir = "processing"
  /\ IF row[node[t]] = "none"
     THEN /\ row' = [row EXCEPT ![node[t]] = "queued"]
          /\ lock' = lock
          /\ Advance(t, "inserted")
     ELSE /\ lock' = FALSE
          /\ row' = row
          /\ Advance(t, "failed")
  /\ UNCHANGED <<plan, artefacts, marker, dir, ghost, runState>>

\* graph.json and the brief are written, the lock is given back.
Apply(t) ==
  /\ call[t] = "inserted" /\ dir = "processing"
  /\ lock' = FALSE
  /\ Advance(t, "applied")
  /\ UNCHANGED <<plan, artefacts, marker, dir, ghost, runState, row>>

\* The engine has filed the run since the checks: injects/ is created afresh
\* under processing/, with an empty ledger that refuses the row.
CreateGhost(t) ==
  /\ call[t] = "planned" /\ dir = "filed"
  /\ ghost' = TRUE
  /\ Advance(t, "failed")
  /\ UNCHANGED <<plan, artefacts, lock, marker, dir, runState, row>>

\* Filed while the lock was held: the next write fails, and the lock file has
\* gone with the directory.
LoseDirectory(t) ==
  /\ call[t] \in {"locked", "written", "inserted"} /\ dir = "filed"
  /\ Advance(t, "failed")
  /\ UNCHANGED disk

Kill(t) ==
  /\ "crash" \in Env
  /\ call[t] \in {"planned", "locked", "written", "inserted"}
  /\ Advance(t, "killed")
  /\ UNCHANGED disk

-----------------------------------------------------------------------------
(* reconcile_run_graph, for the reconcile-graph command and for a resume.   *)

\* An exception ends the resume command, and with it the engine.
Down ==
  /\ pc' = "down" /\ mem' = NoGraph /\ batch' = 1 /\ flight' = {}

Stop(r) ==
  /\ rec' = [rec EXCEPT ![r] = NoRec]
  /\ IF r = "resume" THEN Down ELSE UNCHANGED engine

Missing(g) == {n \in Nodes(g) : row[n] = "none"}

\* Mutant of KeepsSettled: plan edits are never refused.
KeepsAnything(g) == TRUE

\* _plan_reconcile_diff refuses a graph without a wave that is done or blocked.
KeepsSettled(g) == \A n \in Node : row[n] \in {"done", "blocked"} => n \in Nodes(g)

\* The gate, the validation and the diff, all before the lock is taken.
GatePasses ==
  /\ ~lock /\ dir = "processing"
  /\ Mergeable /\ KeepsSettled(Rebuilt)

\* The command needs a paused run (reconcile-graph), a resume does not.
MayReconcile(r) ==
  /\ rec[r].at = "idle"
  /\ IF r = "resume" THEN pc = "reconcile"
                     ELSE "reconcile" \in Env /\ MayStart /\ RunPaused

\* What the reconciliation goes on with.
PlanDiff(r, missing) ==
  /\ rec' = [rec EXCEPT ![r] =
               [at |-> "planned", graph |-> Rebuilt, missing |-> missing]]
  /\ UNCHANGED <<disk, engine, calls>>

\* Mutant of RecPlan: the rows are taken to be there.
RecPlanNoRows(r) ==
  /\ MayReconcile(r) /\ GatePasses
  /\ PlanDiff(r, {})

RecPlan(r) ==
  /\ MayReconcile(r) /\ GatePasses
  /\ PlanDiff(r, Missing(Rebuilt))

\* A refused reconcile-graph command changes nothing; a refused resume ends.
ResumeRefused ==
  /\ pc = "reconcile" /\ rec["resume"].at = "idle" /\ ~GatePasses
  /\ Stop("resume")
  /\ UNCHANGED <<disk, calls>>

RecLock(r) ==
  /\ rec[r].at = "planned"
  /\ IF lock \/ dir = "filed"
     THEN /\ Stop(r)
          /\ UNCHANGED <<disk, calls>>
     ELSE /\ lock' = TRUE
          /\ rec' = [rec EXCEPT ![r].at = "locked"]
          /\ UNCHANGED <<plan, artefacts, marker, dir, ghost, runState, row,
                         engine, calls>>

\* One row per commit, in the order of the ids (any order, here).
RecInsert(r) ==
  /\ rec[r].at = "locked" /\ dir = "processing"
  /\ \E n \in rec[r].missing :
       IF row[n] = "none"
       THEN /\ row' = [row EXCEPT ![n] = "queued"]
            /\ rec' = [rec EXCEPT ![r].missing = @ \ {n}]
            /\ UNCHANGED <<lock, engine>>
       ELSE /\ lock' = FALSE
            /\ row' = row
            /\ Stop(r)
  /\ UNCHANGED <<plan, artefacts, marker, dir, ghost, runState, calls>>

\* The lock is given back; a resume goes on to drive the graph it has built.
RecDone(r) ==
  /\ rec[r].at = "locked" /\ dir = "processing" /\ rec[r].missing = {}
  /\ lock' = FALSE
  /\ rec' = [rec EXCEPT ![r] = NoRec]
  /\ IF r = "resume"
     THEN mem' = rec[r].graph /\ pc' = "prepare" /\ UNCHANGED <<batch, flight>>
     ELSE UNCHANGED engine
  /\ UNCHANGED <<plan, artefacts, marker, dir, ghost, runState, row, calls>>

\* The run was filed, or the process was killed: the lock file stays.
RecEnds(r) ==
  /\ rec[r].at # "idle"
  /\ "crash" \in Env \/ (rec[r].at = "locked" /\ dir = "filed")
  /\ Stop(r)
  /\ UNCHANGED <<disk, calls>>

-----------------------------------------------------------------------------
(* The engine, as far as it matters here.                                  *)

Requeued(S) == [n \in Node |-> IF row[n] \in S THEN "queued" ELSE row[n]]

\* tripll resume, up to the reconciliation: _prepare_resume.
Resume ==
  /\ pc = "down" /\ MayStart /\ dir = "processing"
  /\ row' = Requeued({"running", "blocked"})
  /\ pc' = "reconcile"
  /\ UNCHANGED <<plan, artefacts, lock, marker, dir, ghost, runState,
                 mem, batch, flight, calls, rec>>

\* tripll resume of a failed run: it comes back to processing/ first.
Reactivate ==
  /\ pc = "down" /\ MayStart /\ dir = "filed" /\ runState = "failed" /\ ~ghost
  /\ dir' = "processing" /\ runState' = "paused"
  /\ row' = Requeued({"blocked"})
  /\ pc' = "reconcile"
  /\ UNCHANGED <<plan, artefacts, lock, marker, ghost, mem, batch, flight, calls, rec>>

\* _prepare_run_ledger: a run whose ledger is terminal cannot be activated.
Prepare ==
  /\ pc = "prepare"
  /\ row' = Requeued({"running"})
  /\ IF runState \in {"done", "failed"}
     THEN /\ runState' = runState
          /\ Down
     ELSE /\ runState' = "active"
          /\ pc' = "round" /\ batch' = 1
          /\ UNCHANGED <<mem, flight>>
  /\ UNCHANGED <<plan, artefacts, lock, marker, dir, ghost, calls, rec>>

Settled(n) == row[n] \in {"done", "blocked"}
Undrained  == {n \in InBatch(mem, batch) : ~Settled(n)}
Ready      == {n \in Undrained : \A m \in DepsOf(mem, n) : row[m] = "done"}

Drive == UNCHANGED <<plan, artefacts, lock, marker, dir, ghost, mem, calls, rec>>

NextBatch ==
  /\ pc = "round" /\ Undrained = {} /\ batch < Len(PlanBatches)
  /\ batch' = batch + 1
  /\ UNCHANGED <<runState, row, pc, flight>>
  /\ Drive

\* Nothing is ready: what is left of the batch is blocked.
Deadlocked ==
  /\ pc = "round" /\ Undrained # {} /\ Ready = {}
  /\ row' = [n \in Node |-> IF n \in Undrained THEN "blocked" ELSE row[n]]
  /\ UNCHANGED <<runState, pc, batch, flight>>
  /\ Drive

Dispatch ==
  /\ pc = "round" /\ Ready # {} /\ ~marker
  /\ flight' \in (SUBSET Ready) \ {{}}
  /\ pc' = "gather"
  /\ UNCHANGED <<runState, row, batch>>
  /\ Drive

\* A round pauses for the marker or a deadline; a gathered one for quota or
\* cost, with waves back in the queue.
Pause ==
  /\ \/ pc = "round" /\ Ready # {}
     \/ pc = "gather" /\ flight # {} /\ \A n \in flight : row[n] = "queued"
  /\ runState' = "paused"
  /\ Down
  /\ UNCHANGED <<plan, artefacts, lock, marker, dir, ghost, row, calls, rec>>

\* One attempt: queued to running, and back when it is to be retried.
Attempt(n) ==
  /\ pc = "gather" /\ n \in flight /\ ~Settled(n)
  /\ row' = [row EXCEPT ![n] = IF @ = "queued" THEN "running" ELSE "queued"]
  /\ UNCHANGED <<runState, pc, batch, flight>>
  /\ Drive

\* It is verified, or has no attempt left (which the loop finds at its top too).
Settle(n) ==
  /\ pc = "gather" /\ n \in flight
  /\ \/ row[n] = "running" /\ row' = [row EXCEPT ![n] = "done"]
     \/ row[n] \in {"queued", "running"} /\ row' = [row EXCEPT ![n] = "blocked"]
  /\ flight' = flight \ {n}
  /\ UNCHANGED <<runState, pc, batch>>
  /\ Drive

RoundOver ==
  /\ pc = "gather" /\ flight = {}
  /\ pc' = "round"
  /\ UNCHANGED <<runState, row, batch, flight>>
  /\ Drive

\* The verdict counts the blocked waves of the ledger and of this session.
Conclude ==
  /\ pc = "round" /\ Undrained = {} /\ batch = Len(PlanBatches)
  /\ runState' = IF \E n \in Node : row[n] = "blocked" THEN "failed" ELSE "done"
  /\ pc' = "file"
  /\ UNCHANGED <<row, batch, flight>>
  /\ Drive

FileRun ==
  /\ pc = "file"
  /\ dir' = "filed"
  /\ Down
  /\ UNCHANGED <<plan, artefacts, lock, marker, ghost, runState, row, calls, rec>>

EngineCrash ==
  /\ "crash" \in Env /\ pc \in {"prepare", "round", "gather", "file"}
  /\ Down
  /\ UNCHANGED <<disk, calls, rec>>

-----------------------------------------------------------------------------
(* People.                                                                 *)

Files == UNCHANGED <<dir, ghost, runState, row, engine, calls, rec>>

RequestPause ==
  /\ ~marker /\ dir = "processing"
  /\ marker' = TRUE
  /\ UNCHANGED <<plan, artefacts, lock>>
  /\ Files

\* Nothing in the program removes the marker: the operator does.
RemoveMarker ==
  /\ marker /\ dir = "processing"
  /\ marker' = FALSE
  /\ UNCHANGED <<plan, artefacts, lock>>
  /\ Files

\* Nor does anything remove the lock of a command that was killed.
RemoveLock ==
  /\ lock /\ Holders = {} /\ dir = "processing"
  /\ lock' = FALSE
  /\ UNCHANGED <<plan, artefacts, marker>>
  /\ Files

EditPlan ==
  /\ "edit" \in Env /\ MayStart /\ dir = "processing"
  /\ \E n \in PlanWave : plan' = IF n \in plan THEN plan \ {n} ELSE plan \cup {n}
  /\ UNCHANGED <<artefacts, lock, marker>>
  /\ Files

\* A run that has been filed may stay so.
Completed == pc = "down" /\ dir = "filed" /\ UNCHANGED vars

Inject(t) ==
  \/ Lock(t) \/ WriteArtefact(t) \/ InsertRow(t) \/ Apply(t)
  \/ CreateGhost(t) \/ LoseDirectory(t) \/ Kill(t)

Reconcile(r) == RecPlan(r) \/ RecLock(r) \/ RecInsert(r) \/ RecDone(r) \/ RecEnds(r)

Engine ==
  \/ Resume \/ Reactivate \/ ResumeRefused \/ Prepare
  \/ NextBatch \/ Deadlocked \/ Dispatch \/ Pause
  \/ \E n \in Node : Attempt(n) \/ Settle(n)
  \/ RoundOver \/ Conclude \/ FileRun \/ EngineCrash

Operator == RequestPause \/ RemoveMarker \/ RemoveLock \/ EditPlan

Next ==
  /\ \/ \E t \in Hotfix : PlanHotfix(t)
     \/ \E t \in WaveAdd : PlanWaveAdd(t)
     \/ \E t \in Task : Inject(t)
     \/ \E r \in Reconciler : Reconcile(r)
     \/ Engine \/ Operator \/ Completed
  /\ UNCHANGED setting

Spec == Init /\ [][Next]_vars

-----------------------------------------------------------------------------
(* What must hold, whatever overlaps.                                      *)

\* Every wave of the graph that the engine drives has a ledger row, although
\* reconciliation, injects and crashes interleave.
DrivenWavesHaveRows ==
  pc \in {"prepare", "round", "gather"} => \A n \in Nodes(mem) : row[n] # "none"

\* A session never drives a graph that has lost a wave already settled when it
\* began (plan edits that remove such a wave are refused).
SettledStaysInGraph ==
  pc \in {"prepare", "round", "gather"} =>
    \A n \in Node : row[n] \in {"done", "blocked"} => n \in Nodes(mem)

\* An injected wave is dispatched only after the wave it was anchored on.
InjectedAfterAnchor ==
  \A t \in mem.tasks :
    row[node[t]] = "running" => row[anchor[t]] = "done"

-----------------------------------------------------------------------------
(* What must hold when commands do not overlap with anything else.         *)

Alone == "overlap" \notin Env

\* A run is filed as done only when every inject that reported success, or that
\* was killed after leaving its artefact, has been run.
InjectedIsRun ==
  (Alone /\ dir = "filed" /\ runState = "done") =>
    \A t \in artefacts : call[t] \in {"applied", "killed"} => row[node[t]] = "done"

\* The artefact of an inject that reported success is the one that the rebuilt
\* graph takes its wave from.
AppliedIsUsed == Alone => \A t \in Task : call[t] = "applied" => t \in Merged

\* The graph can be rebuilt from the plan files and the artefacts, so that no
\* inject makes the run unresumable.
InjectsMerge == Alone => Mergeable
=============================================================================
