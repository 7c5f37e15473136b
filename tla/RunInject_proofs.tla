-------------------------- MODULE RunInject_proofs --------------------------
(***************************************************************************)
(* Proofs about injects, reconciliation and the drive, for any plan, any   *)
(* set of calls and any setting: commands may overlap with each other and  *)
(* with a live engine, plans may be edited, processes may be killed.       *)
(***************************************************************************)
EXTENDS RunInject, FiniteSetTheorems, WellFoundedInduction, TLAPS

Called == {t \in Task : call[t] # "idle"}

\* A call names its wave and its anchor once, before anything refers to it.
NamesInv ==
  /\ row \in [Node -> RowStates]
  /\ call \in [Task -> CallStates]
  /\ node \in [Task -> Injected \cup {None}]
  /\ anchor \in [Task -> Node \cup {None}]
  /\ \A t \in Called : node[t] \in Injected /\ anchor[t] \in Node
  /\ plan \subseteq PlanWave
  /\ artefacts \subseteq Called
  /\ mem \in Graphs /\ mem.tasks \subseteq Called
  /\ rec \in [Reconciler -> [at : {"idle", "planned", "locked"},
                             graph : Graphs, missing : SUBSET Node]]
  /\ rec["resume"].graph.tasks \subseteq Called

\* Which parts of the state a session has.
PhaseInv ==
  /\ rec["resume"].at # "idle" => pc = "reconcile"
  /\ pc # "down" => dir = "processing"
  /\ pc = "down" => mem = NoGraph

Driving == {"prepare", "round", "gather"}

\* The rows that a resume has yet to insert are the ones its graph lacks.
RowsInv ==
  /\ pc \in Driving => \A n \in Nodes(mem) : row[n] # "none"
  /\ rec["resume"].at # "idle" =>
       \A n \in Nodes(rec["resume"].graph) :
         row[n] # "none" \/ n \in rec["resume"].missing

\* Nothing settles between the check of a resume and its drive.
SettledInv ==
  /\ pc \in Driving => \A n \in Node : Settled(n) => n \in Nodes(mem)
  /\ rec["resume"].at # "idle" =>
       \A n \in Node : Settled(n) => n \in Nodes(rec["resume"].graph)
  /\ pc = "gather" => flight \subseteq Nodes(mem)

\* A wave runs in a round that gathers it, or is left over by a dead engine.
RunningInv ==
  \A n \in Node : row[n] = "running" =>
    /\ dir = "processing"
    /\ pc = "down" \/ (pc = "gather" /\ n \in flight)

AnchoredInv ==
  pc = "gather" => \A n \in flight : \A m \in DepsOf(mem, n) : row[m] = "done"

-----------------------------------------------------------------------------
(* Steps *)

\* A call decides what to add and to what, whatever its checks were.
Planning ==
  \E t \in Task, n \in Injected, a \in Nodes(Rebuilt) :
    /\ call[t] = "idle"
    /\ call' = [call EXCEPT ![t] = "planned"]
    /\ node' = [node EXCEPT ![t] = n]
    /\ anchor' = [anchor EXCEPT ![t] = a]
    /\ UNCHANGED <<disk, engine, rec>>

\* A step of a call that writes no ledger row.
Commanding(t) ==
  \/ Lock(t) \/ WriteArtefact(t) \/ Apply(t)
  \/ CreateGhost(t) \/ LoseDirectory(t) \/ Kill(t)

LEMMA PlanSteps ==
  ASSUME \/ \E t \in Hotfix : PlanHotfix(t)
         \/ \E t \in WaveAdd : PlanWaveAdd(t)
  PROVE  Planning
<1>1. CASE \E t \in Hotfix : PlanHotfix(t)
  BY <1>1 DEF PlanHotfix, Plan, Planning, Task, Injected
<1>2. CASE \E t \in WaveAdd : PlanWaveAdd(t)
  <2>1. \A t \in WaveAdd : AddName[t] \in Injected
    BY DEF Injected
  <2> QED
    BY <1>2, <2>1 DEF PlanWaveAdd, Plan, Planning, Task
<1> QED
  BY <1>1, <1>2

LEMMA StepCases ==
  ASSUME [Next]_vars
  PROVE  \/ Planning
         \/ \E t \in Task : Commanding(t) \/ InsertRow(t)
         \/ \E r \in Reconciler :
              RecPlan(r) \/ RecLock(r) \/ RecInsert(r) \/ RecDone(r) \/ RecEnds(r)
         \/ Resume \/ Reactivate \/ ResumeRefused \/ Prepare
         \/ NextBatch \/ Deadlocked \/ Dispatch \/ Pause
         \/ \E n \in Node : Attempt(n) \/ Settle(n)
         \/ RoundOver \/ Conclude \/ FileRun \/ EngineCrash
         \/ Operator
         \/ UNCHANGED vars
BY PlanSteps DEF Next, Inject, Commanding, Reconcile, Engine, Completed

\* The people's steps touch neither graph nor ledger.
LEMMA OperatorFrame ==
  Operator => /\ UNCHANGED <<artefacts, dir, row, pc, mem, batch, flight, call,
                             node, anchor, rec>>
              /\ plan' \in SUBSET (plan \cup PlanWave)
BY DEF Operator, RequestPause, RemoveMarker, RemoveLock, EditPlan, Files, engine, calls

LEMMA CommandFrame ==
  ASSUME NEW t \in Task, Commanding(t)
  PROVE  /\ UNCHANGED <<plan, dir, row, pc, mem, batch, flight, node, anchor, rec>>
         /\ call[t] # "idle"
         /\ \E to \in CallStates \ {"idle"} : call' = [call EXCEPT ![t] = to]
         /\ artefacts' \in {artefacts, artefacts \cup {t}}
BY DEF Commanding, Lock, WriteArtefact, Apply, CreateGhost, LoseDirectory, Kill,
       Advance, disk, engine, CallStates

LEMMA DriveFrame == Drive => UNCHANGED <<plan, artefacts, dir, mem, call, node, anchor, rec>>
BY DEF Drive, calls

-----------------------------------------------------------------------------
(* Names *)

LEMMA GraphNodes ==
  ASSUME NamesInv, NEW g \in Graphs, g.tasks \subseteq Called
  PROVE  Nodes(g) \subseteq Node
BY DEF NamesInv, Nodes, Graphs, Node, Called

LEMMA RebuiltGraph ==
  ASSUME NamesInv
  PROVE  Rebuilt \in Graphs /\ Rebuilt.tasks \subseteq Called
BY DEF NamesInv, Rebuilt, Merged, Graphs, Called

LEMMA NoGraphEmpty == NoGraph \in Graphs /\ NoGraph.tasks = {} /\ NoGraph.plan = {}
BY DEF NoGraph, Graphs

LEMMA NamesInit == Init => NamesInv
<1> SUFFICES ASSUME Init PROVE NamesInv
  OBVIOUS
<1>1. Called = {}
  BY DEF Init, Called
<1>2. setting.start \subseteq PlanWave
  BY InjectAssumption DEF Init
<1>3. mem \in Graphs /\ mem.tasks = {}
  BY <1>2 DEF Init, Graphs
<1>4. rec \in [Reconciler -> [at : {"idle", "planned", "locked"},
                              graph : Graphs, missing : SUBSET Node]]
  BY NoGraphEmpty DEF Init, NoRec
<1>5. rec["resume"].graph.tasks = {}
  BY NoGraphEmpty DEF Init, NoRec, Reconciler
<1> QED
  BY <1>1, <1>2, <1>3, <1>4, <1>5
     DEF Init, NamesInv, RowStates, CallStates

\* What a step does to rows and names, for the invariants below.
LEMMA NamesKept ==
  ASSUME NamesInv, [Next]_vars
  PROVE  /\ Called \subseteq Called'
         /\ \A t \in Called : node'[t] = node[t] /\ anchor'[t] = anchor[t]
<1> USE DEF NamesInv, Called
<1>1. CASE Planning
  BY <1>1 DEF Planning
<1>2. CASE \E t \in Task : Commanding(t)
  BY <1>2, CommandFrame
<1>3. CASE \E t \in Task : InsertRow(t)
  BY <1>3 DEF InsertRow, Advance
<1>4. CASE UNCHANGED <<call, node, anchor>>
  BY <1>4
<1>5. CASE \E r \in Reconciler :
             RecPlan(r) \/ RecLock(r) \/ RecInsert(r) \/ RecDone(r) \/ RecEnds(r)
  BY <1>4, <1>5 DEF RecPlan, PlanDiff, RecLock, RecInsert, RecDone, RecEnds, calls
<1>6. CASE Resume \/ Reactivate \/ ResumeRefused \/ Prepare \/ Pause \/ FileRun
           \/ EngineCrash \/ Operator \/ UNCHANGED vars
  BY <1>4, <1>6, OperatorFrame
     DEF Resume, Reactivate, ResumeRefused, Prepare, Pause, FileRun, EngineCrash,
         calls, vars
<1>7. CASE \/ NextBatch \/ Deadlocked \/ Dispatch \/ RoundOver \/ Conclude
           \/ \E n \in Node : Attempt(n) \/ Settle(n)
  BY <1>4, <1>7, DriveFrame
     DEF NextBatch, Deadlocked, Dispatch, RoundOver, Conclude, Attempt, Settle
<1> QED
  BY <1>1, <1>2, <1>3, <1>5, <1>6, <1>7, StepCases

\* A reconciliation keeps its type and the resume's refers to decided calls.
LEMMA ReconcilerSteps ==
  ASSUME NamesInv, NEW r \in Reconciler,
         RecPlan(r) \/ RecLock(r) \/ RecInsert(r) \/ RecDone(r) \/ RecEnds(r)
  PROVE  /\ UNCHANGED <<plan, artefacts, dir, calls>>
         /\ row' \in [Node -> RowStates]
         /\ rec' \in [Reconciler -> [at : {"idle", "planned", "locked"},
                                     graph : Graphs, missing : SUBSET Node]]
         /\ rec'["resume"].graph.tasks \subseteq Called
         /\ mem' \in {mem, NoGraph, rec["resume"].graph}
<1> USE DEF NamesInv
<1>0. NoRec \in [at : {"idle", "planned", "locked"}, graph : Graphs, missing : SUBSET Node]
  BY NoGraphEmpty DEF NoRec
<1>1. CASE RecPlan(r)
  <2>1. Missing(Rebuilt) \subseteq Node
    BY RebuiltGraph, GraphNodes DEF Missing
  <2>2. [at |-> "planned", graph |-> Rebuilt, missing |-> Missing(Rebuilt)]
          \in [at : {"idle", "planned", "locked"}, graph : Graphs, missing : SUBSET Node]
    BY <2>1, RebuiltGraph
  <2> QED
    BY <1>1, <2>2, RebuiltGraph DEF RecPlan, PlanDiff, disk, engine, Reconciler
<1>2. CASE RecLock(r)
  BY <1>0, <1>2, NoGraphEmpty DEF RecLock, Stop, Down, NoRec, disk, engine, Reconciler
<1>3. CASE RecInsert(r)
  BY <1>0, <1>3, NoGraphEmpty DEF RecInsert, Stop, Down, NoRec, engine, Reconciler, RowStates
<1>4. CASE RecDone(r)
  BY <1>0, <1>4, NoGraphEmpty DEF RecDone, NoRec, engine, Reconciler
<1>5. CASE RecEnds(r)
  BY <1>0, <1>5, NoGraphEmpty DEF RecEnds, Stop, Down, NoRec, disk, engine, Reconciler
<1> QED
  BY <1>1, <1>2, <1>3, <1>4, <1>5

LEMMA NamesNext == NamesInv /\ [Next]_vars => NamesInv'
<1> SUFFICES ASSUME NamesInv, [Next]_vars PROVE NamesInv'
  OBVIOUS
<1>0. Called \subseteq Called'
  BY NamesKept
<1> USE DEF NamesInv
<1>1. CASE Planning
  <2>1. PICK t \in Task, n \in Injected, a \in Nodes(Rebuilt) :
          /\ call[t] = "idle"
          /\ call' = [call EXCEPT ![t] = "planned"]
          /\ node' = [node EXCEPT ![t] = n]
          /\ anchor' = [anchor EXCEPT ![t] = a]
          /\ UNCHANGED <<disk, engine, rec>>
    BY <1>1 DEF Planning
  <2>2. a \in Node
    BY RebuiltGraph, GraphNodes
  <2>3. Called' = Called \cup {t}
    BY <2>1 DEF Called
  <2>4. call' \in [Task -> CallStates]
    BY <2>1 DEF CallStates
  <2> QED
    BY <1>0, <2>1, <2>2, <2>3, <2>4 DEF disk, engine
<1>2. CASE \E t \in Task : Commanding(t)
  <2>1. Called' = Called
    BY <1>2, CommandFrame DEF Called
  <2>2. artefacts' \subseteq Called
    BY <1>2, CommandFrame DEF Called
  <2>3. call' \in [Task -> CallStates]
    BY <1>2, CommandFrame
  <2>4. UNCHANGED <<plan, row, node, anchor, mem, rec>>
    BY <1>2, CommandFrame
  <2> QED
    BY <2>1, <2>2, <2>3, <2>4
<1>3. CASE \E t \in Task : InsertRow(t)
  <2>1. UNCHANGED <<plan, artefacts, node, anchor, mem, rec>>
    BY <1>3 DEF InsertRow, Advance, engine
  <2>2. row' \in [Node -> RowStates]
    BY <1>3 DEF InsertRow, RowStates
  <2>3. call' \in [Task -> CallStates] /\ Called' = Called
    BY <1>3 DEF InsertRow, Advance, CallStates, Called
  <2> QED
    BY <2>1, <2>2, <2>3
<1>4. CASE \E r \in Reconciler :
             RecPlan(r) \/ RecLock(r) \/ RecInsert(r) \/ RecDone(r) \/ RecEnds(r)
  <2>1. Called' = Called /\ UNCHANGED <<plan, artefacts, call, node, anchor>>
    BY <1>4, ReconcilerSteps DEF calls, Called
  <2>2. mem' \in Graphs /\ mem'.tasks \subseteq Called
    BY <1>4, ReconcilerSteps, NoGraphEmpty DEF Reconciler
  <2> QED
    BY <1>4, <2>1, <2>2, ReconcilerSteps
<1>5. ASSUME UNCHANGED <<plan, artefacts, call, node, anchor, rec>>,
             mem' = mem \/ mem' = NoGraph,
             row' \in [Node -> RowStates]
      PROVE  NamesInv'
  BY <1>5, NoGraphEmpty DEF Called
<1>6. CASE Resume \/ Reactivate \/ Prepare
  BY <1>5, <1>6 DEF Resume, Reactivate, Prepare, Down, Requeued, calls, RowStates
<1>7. CASE ResumeRefused
  <2>1. NoRec \in [at : {"idle", "planned", "locked"}, graph : Graphs, missing : SUBSET Node]
    BY NoGraphEmpty DEF NoRec
  <2> QED
    BY <1>7, <2>1, NoGraphEmpty
       DEF ResumeRefused, Stop, Down, NoRec, calls, disk, Called, Reconciler
<1>8. CASE Pause \/ FileRun \/ EngineCrash
  BY <1>5, <1>8 DEF Pause, FileRun, EngineCrash, Down, calls, disk
<1>9. CASE NextBatch \/ Dispatch \/ RoundOver \/ Conclude
  BY <1>5, <1>9, DriveFrame DEF NextBatch, Dispatch, RoundOver, Conclude
<1>10. CASE Deadlocked \/ \E n \in Node : Attempt(n) \/ Settle(n)
  BY <1>5, <1>10, DriveFrame DEF Deadlocked, Attempt, Settle, RowStates
<1>11. CASE Operator
  BY <1>0, <1>11, OperatorFrame DEF Called
<1>12. CASE UNCHANGED vars
  BY <1>5, <1>12 DEF vars, disk, engine, calls
<1> QED
  BY <1>1, <1>2, <1>3, <1>4, <1>6, <1>7, <1>8, <1>9, <1>10, <1>11, <1>12, StepCases

-----------------------------------------------------------------------------
(* Phases *)

LEMMA PhaseInit == Init => PhaseInv
BY DEF Init, PhaseInv, NoRec, Reconciler

LEMMA PhaseNext == NamesInv /\ PhaseInv /\ [Next]_vars => PhaseInv'
<1> SUFFICES ASSUME NamesInv, PhaseInv, [Next]_vars PROVE PhaseInv'
  OBVIOUS
<1> USE DEF PhaseInv
<1>1. CASE UNCHANGED <<rec, pc, dir, mem>>
  BY <1>1
<1>2. CASE Planning \/ UNCHANGED vars \/ Operator
  BY <1>1, <1>2, OperatorFrame DEF Planning, vars, disk, engine
<1>3. CASE \E t \in Task : Commanding(t) \/ InsertRow(t)
  BY <1>1, <1>3, CommandFrame DEF InsertRow, Advance, engine
<1>4. CASE \E r \in Reconciler :
             RecPlan(r) \/ RecLock(r) \/ RecInsert(r) \/ RecDone(r) \/ RecEnds(r)
  <2>1. PICK r \in Reconciler :
          RecPlan(r) \/ RecLock(r) \/ RecInsert(r) \/ RecDone(r) \/ RecEnds(r)
    BY <1>4
  <2>2. CASE r = "resume"
    <3>1. pc = "reconcile" /\ dir' = dir
      BY <2>1, <2>2, ReconcilerSteps
         DEF RecPlan, MayReconcile, RecLock, RecInsert, RecDone, RecEnds
    <3>2. CASE pc' = "down" /\ mem' = NoGraph /\ rec'["resume"].at = "idle"
      BY <3>2
    <3>3. CASE pc' = "reconcile"
      BY <3>1, <3>3
    <3>4. CASE pc' = "prepare" /\ rec'["resume"].at = "idle"
      BY <3>1, <3>4
    <3> QED
      BY <2>1, <2>2, <3>1, <3>2, <3>3, <3>4
         DEF RecPlan, PlanDiff, RecLock, RecInsert, RecDone, RecEnds, Stop, Down,
             NoRec, NamesInv, engine, Reconciler
  <2>3. CASE r = "cli"
    <3>1. UNCHANGED <<pc, dir, mem>> /\ rec'["resume"] = rec["resume"]
      BY <2>1, <2>3
         DEF RecPlan, PlanDiff, RecLock, RecInsert, RecDone, RecEnds, Stop,
             NamesInv, engine, disk, Reconciler
    <3> QED
      BY <3>1
  <2> QED
    BY <2>2, <2>3 DEF Reconciler
<1>5. CASE Resume \/ Reactivate \/ Prepare \/ Pause \/ FileRun \/ EngineCrash
  BY <1>5 DEF Resume, Reactivate, Prepare, Pause, FileRun, EngineCrash, Down, disk
<1>6. CASE ResumeRefused
  BY <1>6 DEF ResumeRefused, Stop, Down, NoRec, NamesInv, Reconciler, disk
<1>7. CASE \/ NextBatch \/ Deadlocked \/ Dispatch \/ RoundOver \/ Conclude
           \/ \E n \in Node : Attempt(n) \/ Settle(n)
  BY <1>7, DriveFrame
     DEF NextBatch, Deadlocked, Dispatch, RoundOver, Conclude, Attempt, Settle
<1> QED
  BY <1>2, <1>3, <1>4, <1>5, <1>6, <1>7, StepCases

-----------------------------------------------------------------------------
(* Rows *)

\* Whatever it is, a step removes no row and takes no done wave up again.
LEMMA RowsKept ==
  ASSUME NamesInv, [Next]_vars, NEW n \in Node
  PROVE  /\ row[n] # "none" => row'[n] # "none"
         /\ row[n] = "done" => row'[n] = "done"
<1> USE DEF NamesInv
<1>1. CASE UNCHANGED row
  BY <1>1
<1>2. CASE Planning \/ UNCHANGED vars \/ Operator
  BY <1>1, <1>2, OperatorFrame DEF Planning, vars, disk
<1>3. CASE \E t \in Task : Commanding(t) \/ InsertRow(t)
  BY <1>3, CommandFrame DEF InsertRow
<1>4. CASE \E r \in Reconciler :
             RecPlan(r) \/ RecLock(r) \/ RecInsert(r) \/ RecDone(r) \/ RecEnds(r)
  BY <1>4 DEF RecPlan, PlanDiff, RecLock, RecInsert, RecDone, RecEnds, disk
<1>5. CASE Resume \/ Reactivate \/ Prepare
  BY <1>5 DEF Resume, Reactivate, Prepare, Requeued
<1>6. CASE ResumeRefused \/ Pause \/ FileRun \/ EngineCrash \/ NextBatch
           \/ Dispatch \/ RoundOver \/ Conclude
  BY <1>6 DEF ResumeRefused, Pause, FileRun, EngineCrash, NextBatch, Dispatch,
              RoundOver, Conclude, disk
<1>7. CASE Deadlocked \/ \E m \in Node : Attempt(m) \/ Settle(m)
  BY <1>7 DEF Deadlocked, Attempt, Settle, Undrained, Settled
<1> QED
  BY <1>2, <1>3, <1>4, <1>5, <1>6, <1>7, StepCases

\* A graph made of decided calls keeps its waves.
LEMMA NodesKept ==
  ASSUME NamesInv, [Next]_vars, NEW g \in Graphs, g.tasks \subseteq Called
  PROVE  g.plan \cup {node'[t] : t \in g.tasks} = Nodes(g)
<1>1. \A t \in g.tasks : node'[t] = node[t]
  BY NamesKept
<1> QED
  BY <1>1 DEF Nodes

LEMMA MemKept ==
  ASSUME NamesInv, [Next]_vars, mem' = mem
  PROVE  Nodes(mem)' = Nodes(mem)
<1>1. Nodes(mem)' = mem.plan \cup {node'[t] : t \in mem.tasks}
  BY DEF Nodes
<1> QED
  BY <1>1, NodesKept DEF NamesInv

LEMMA RecKept ==
  ASSUME NamesInv, [Next]_vars, NEW g, g = rec["resume"].graph
  PROVE  /\ rec'["resume"].graph = g => Nodes(rec["resume"].graph)' = Nodes(g)
         /\ mem' = g => Nodes(mem)' = Nodes(g)
<1>1. g \in Graphs /\ g.tasks \subseteq Called
  BY DEF NamesInv, Reconciler
<1> QED
  BY <1>1, NodesKept DEF Nodes

LEMMA RowsInit == Init => RowsInv
<1> SUFFICES ASSUME Init PROVE RowsInv
  OBVIOUS
<1>1. Nodes(mem) = plan /\ plan \subseteq Node
  BY NamesInit DEF Init, NamesInv, Nodes, Node
<1>2. \A n \in plan : row[n] # "none"
  BY <1>1 DEF Init
<1>3. rec["resume"].at = "idle"
  BY DEF Init, NoRec, Reconciler
<1> QED
  BY <1>1, <1>2, <1>3 DEF RowsInv

LEMMA RowsNext == NamesInv /\ PhaseInv /\ RowsInv /\ [Next]_vars => RowsInv'
<1> SUFFICES ASSUME NamesInv, PhaseInv, RowsInv, [Next]_vars PROVE RowsInv'
  OBVIOUS
<1> USE DEF RowsInv
<1> DEFINE g == rec["resume"].graph
<1>1. g \in Graphs /\ g.tasks \subseteq Called /\ mem \in Graphs /\ mem.tasks \subseteq Called
  BY DEF NamesInv, Reconciler
<1>2. Nodes(g) \subseteq Node /\ Nodes(mem) \subseteq Node
  BY <1>1, GraphNodes
<1>3. ASSUME mem' = mem, pc' \in Driving => pc \in Driving,
             rec'["resume"] = rec["resume"] \/ rec'["resume"].at = "idle"
      PROVE  RowsInv'
  <2>1. pc' \in Driving => \A n \in Nodes(mem)' : row'[n] # "none"
    BY <1>2, <1>3, MemKept, RowsKept
  <2>2. rec'["resume"].at # "idle" =>
          \A n \in Nodes(rec["resume"].graph)' :
            row'[n] # "none" \/ n \in rec'["resume"].missing
    BY <1>2, <1>3, RecKept, RowsKept
  <2> QED
    BY <2>1, <2>2
<1>4. ASSUME pc' \notin Driving, rec'["resume"].at = "idle" PROVE RowsInv'
  BY <1>4
<1>5. CASE Planning \/ UNCHANGED vars \/ Operator
  BY <1>3, <1>5, OperatorFrame DEF Planning, vars, disk, engine
<1>6. CASE \E t \in Task : Commanding(t) \/ InsertRow(t)
  BY <1>3, <1>6, CommandFrame DEF InsertRow, Advance, engine
<1>7. CASE \E r \in Reconciler :
             RecPlan(r) \/ RecLock(r) \/ RecInsert(r) \/ RecDone(r) \/ RecEnds(r)
  <2>1. PICK r \in Reconciler :
          RecPlan(r) \/ RecLock(r) \/ RecInsert(r) \/ RecDone(r) \/ RecEnds(r)
    BY <1>7
  <2>2. CASE r = "cli"
    <3>1. UNCHANGED <<pc, mem>> /\ rec'["resume"] = rec["resume"]
      BY <2>1, <2>2
         DEF RecPlan, PlanDiff, RecLock, RecInsert, RecDone, RecEnds, Stop,
             NamesInv, engine, disk, Reconciler
    <3> QED
      BY <1>3, <3>1
  <2>3. CASE r = "resume" /\ RecPlan(r)
    <3>1. /\ pc' = "reconcile" /\ UNCHANGED <<row, node>>
          /\ rec'["resume"].graph = Rebuilt
          /\ rec'["resume"].missing = Missing(Rebuilt)
      BY <2>3 DEF RecPlan, PlanDiff, MayReconcile, NamesInv, disk, engine, calls, Reconciler
    <3>2. Nodes(rec["resume"].graph)' = Nodes(Rebuilt)
      BY <3>1 DEF Nodes
    <3> QED
      BY <3>1, <3>2 DEF Missing, Driving
  <2>4. CASE r = "resume" /\ RecLock(r)
    <3>1. CASE lock \/ dir = "filed"
      BY <1>4, <2>4, <3>1 DEF RecLock, Stop, Down, NoRec, NamesInv, Driving, Reconciler
    <3>2. CASE ~(lock \/ dir = "filed")
      <4>1. /\ rec["resume"].at # "idle" /\ UNCHANGED <<row, mem, pc>>
            /\ rec'["resume"].graph = g
            /\ rec'["resume"].missing = rec["resume"].missing
        BY <2>4, <3>2 DEF RecLock, NamesInv, Reconciler, engine
      <4> QED
        BY <1>2, <4>1, MemKept, RecKept
    <3> QED
      BY <3>1, <3>2
  <2>5. CASE r = "resume" /\ RecInsert(r)
    <3>1. PICK n \in rec["resume"].missing :
            IF row[n] = "none"
            THEN /\ row' = [row EXCEPT ![n] = "queued"]
                 /\ rec' = [rec EXCEPT !["resume"].missing = @ \ {n}]
                 /\ UNCHANGED <<lock, engine>>
            ELSE /\ lock' = FALSE
                 /\ row' = row
                 /\ Stop("resume")
      BY <2>5 DEF RecInsert
    <3>2. CASE row[n] = "none"
      <4>1. /\ UNCHANGED <<mem, pc>>
            /\ rec["resume"].at # "idle"
            /\ rec'["resume"].graph = g
            /\ rec'["resume"].missing = rec["resume"].missing \ {n}
        BY <2>5, <3>1, <3>2 DEF RecInsert, NamesInv, Reconciler, engine
      <4>2. n \in Node /\ row'[n] # "none"
        BY <3>1, <3>2 DEF NamesInv, Reconciler
      <4> QED
        BY <1>2, <4>1, <4>2, MemKept, RecKept, RowsKept
    <3>3. CASE row[n] # "none"
      BY <1>4, <3>1, <3>3 DEF Stop, Down, NoRec, NamesInv, Driving, Reconciler
    <3> QED
      BY <3>2, <3>3
  <2>6. CASE r = "resume" /\ RecDone(r)
    <3>1. /\ rec["resume"].at # "idle" /\ rec["resume"].missing = {}
          /\ mem' = g /\ row' = row /\ rec'["resume"].at = "idle"
      BY <2>6 DEF RecDone, NoRec, NamesInv, Reconciler
    <3> QED
      BY <1>2, <3>1, RecKept
  <2>7. CASE r = "resume" /\ RecEnds(r)
    BY <1>4, <2>7 DEF RecEnds, Stop, Down, NoRec, NamesInv, Driving, Reconciler
  <2> QED
    BY <2>1, <2>2, <2>3, <2>4, <2>5, <2>6, <2>7 DEF Reconciler
<1>8. CASE Resume \/ Reactivate
  <2>1. pc' \notin Driving /\ rec'["resume"].at = "idle"
    BY <1>8 DEF Resume, Reactivate, PhaseInv, Driving
  <2> QED
    BY <1>4, <2>1
<1>9. CASE ResumeRefused
  BY <1>4, <1>9 DEF ResumeRefused, Stop, Down, NoRec, NamesInv, Driving, Reconciler
<1>10. CASE Pause \/ FileRun \/ EngineCrash
  <2>1. pc' \notin Driving /\ rec'["resume"].at = "idle"
    BY <1>10 DEF Pause, FileRun, EngineCrash, Down, PhaseInv, Driving
  <2> QED
    BY <1>4, <2>1
<1>11. CASE Prepare
  <2>1. rec'["resume"].at = "idle" /\ pc \in Driving
    BY <1>11 DEF Prepare, PhaseInv, Driving
  <2>2. pc' \notin Driving \/ mem' = mem
    BY <1>11 DEF Prepare, Down, Driving
  <2> QED
    BY <1>3, <1>4, <2>1, <2>2
<1>12. CASE \/ NextBatch \/ Deadlocked \/ Dispatch \/ RoundOver \/ Conclude
            \/ \E n \in Node : Attempt(n) \/ Settle(n)
  <2>1. pc \in Driving
    BY <1>12 DEF NextBatch, Deadlocked, Dispatch, RoundOver, Conclude, Attempt,
                 Settle, Driving
  <2>2. UNCHANGED <<mem, rec>>
    BY <1>12, DriveFrame
       DEF NextBatch, Deadlocked, Dispatch, RoundOver, Conclude, Attempt, Settle
  <2> QED
    BY <1>3, <2>1, <2>2
<1> QED
  BY <1>5, <1>6, <1>7, <1>8, <1>9, <1>10, <1>11, <1>12, StepCases

\* The engine never drives a wave that has no row: reconciliation, injects,
\* plan edits and crashes may interleave in any way.
THEOREM DrivenHaveRows == Spec => []DrivenWavesHaveRows
<1>1. Init => NamesInv /\ PhaseInv /\ RowsInv
  BY NamesInit, PhaseInit, RowsInit
<1>2. NamesInv /\ PhaseInv /\ RowsInv /\ [Next]_vars
        => (NamesInv /\ PhaseInv /\ RowsInv)'
  BY NamesNext, PhaseNext, RowsNext
<1>3. RowsInv => DrivenWavesHaveRows
  BY DEF RowsInv, DrivenWavesHaveRows, Driving
<1> QED
  BY <1>1, <1>2, <1>3, PTL DEF Spec

-----------------------------------------------------------------------------
(* Settled waves *)

LEMMA BatchInGraph ==
  ASSUME NEW g, NEW b
  PROVE  InBatch(g, b) \subseteq Nodes(g)
BY DEF InBatch, Nodes

\* Only the drive settles a wave, and only one of the graph it drives.
LEMMA SettledStep ==
  ASSUME NamesInv, SettledInv, [Next]_vars,
         NEW n \in Node, Settled(n)', ~Settled(n)
  PROVE  pc \in Driving /\ n \in Nodes(mem)
<1> USE DEF NamesInv, Settled
<1>1. CASE UNCHANGED row
  BY <1>1
<1>2. CASE Planning \/ UNCHANGED vars \/ Operator
  BY <1>1, <1>2, OperatorFrame DEF Planning, vars, disk
<1>3. CASE \E t \in Task : Commanding(t) \/ InsertRow(t)
  BY <1>3, CommandFrame DEF InsertRow
<1>4. CASE \E r \in Reconciler :
             RecPlan(r) \/ RecLock(r) \/ RecInsert(r) \/ RecDone(r) \/ RecEnds(r)
  BY <1>4 DEF RecPlan, PlanDiff, RecLock, RecInsert, RecDone, RecEnds, disk
<1>5. CASE Resume \/ Reactivate \/ Prepare
  BY <1>5 DEF Resume, Reactivate, Prepare, Requeued
<1>6. CASE ResumeRefused \/ Pause \/ FileRun \/ EngineCrash \/ NextBatch
           \/ Dispatch \/ RoundOver \/ Conclude
  BY <1>6 DEF ResumeRefused, Pause, FileRun, EngineCrash, NextBatch, Dispatch,
              RoundOver, Conclude, disk
<1>7. CASE Deadlocked
  BY <1>7, BatchInGraph DEF Deadlocked, Undrained, Driving
<1>8. CASE \E m \in Node : Attempt(m) \/ Settle(m)
  BY <1>8 DEF Attempt, Settle, SettledInv, Driving
<1> QED
  BY <1>2, <1>3, <1>4, <1>5, <1>6, <1>7, <1>8, StepCases

LEMMA SettledInit == Init => SettledInv
<1> SUFFICES ASSUME Init PROVE SettledInv
  OBVIOUS
<1>1. \A n \in Node : ~Settled(n)
  BY DEF Init, Settled
<1> QED
  BY <1>1 DEF Init, SettledInv

LEMMA SettledNext == NamesInv /\ PhaseInv /\ SettledInv /\ [Next]_vars => SettledInv'
<1> SUFFICES ASSUME NamesInv, PhaseInv, SettledInv, [Next]_vars PROVE SettledInv'
  OBVIOUS
<1> DEFINE g == rec["resume"].graph
<1>1. ASSUME mem' = mem, pc' \in Driving => pc \in Driving,
             pc' = "gather" => flight' \subseteq Nodes(mem),
             rec'["resume"] = rec["resume"] \/ rec'["resume"].at = "idle"
      PROVE  SettledInv'
  <2>1. pc' \in Driving => \A n \in Node : Settled(n)' => n \in Nodes(mem)'
    BY <1>1, MemKept, SettledStep DEF SettledInv
  <2>2. rec'["resume"].at # "idle" =>
          \A n \in Node : Settled(n)' => n \in Nodes(rec["resume"].graph)'
    BY <1>1, RecKept, SettledStep DEF SettledInv, PhaseInv, Driving
  <2> QED
    BY <1>1, <2>1, <2>2, MemKept DEF SettledInv
<1>2. ASSUME pc' \notin Driving, rec'["resume"].at = "idle" PROVE SettledInv'
  BY <1>2 DEF SettledInv, Driving
<1>3. CASE Planning \/ UNCHANGED vars \/ Operator
  BY <1>1, <1>3, OperatorFrame DEF Planning, vars, disk, engine, SettledInv
<1>4. CASE \E t \in Task : Commanding(t) \/ InsertRow(t)
  BY <1>1, <1>4, CommandFrame DEF InsertRow, Advance, engine, SettledInv
<1>5. CASE \E r \in Reconciler :
             RecPlan(r) \/ RecLock(r) \/ RecInsert(r) \/ RecDone(r) \/ RecEnds(r)
  <2>1. PICK r \in Reconciler :
          RecPlan(r) \/ RecLock(r) \/ RecInsert(r) \/ RecDone(r) \/ RecEnds(r)
    BY <1>5
  <2>2. CASE r = "cli"
    <3>1. UNCHANGED <<pc, mem, flight>> /\ rec'["resume"] = rec["resume"]
      BY <2>1, <2>2
         DEF RecPlan, PlanDiff, RecLock, RecInsert, RecDone, RecEnds, Stop,
             NamesInv, engine, disk, Reconciler
    <3> QED
      BY <1>1, <3>1 DEF SettledInv
  <2>3. CASE r = "resume" /\ RecPlan(r)
    <3>1. /\ pc' = "reconcile" /\ UNCHANGED <<row, node>>
          /\ rec'["resume"].graph = Rebuilt
      BY <2>3 DEF RecPlan, PlanDiff, MayReconcile, NamesInv, disk, engine, calls, Reconciler
    <3>2. Nodes(rec["resume"].graph)' = Nodes(Rebuilt)
      BY <3>1 DEF Nodes
    <3>3. \A n \in Node : Settled(n) => n \in Nodes(Rebuilt)
      BY <2>3 DEF RecPlan, GatePasses, KeepsSettled, Settled
    <3> QED
      BY <3>1, <3>2, <3>3 DEF SettledInv, Settled, Driving
  <2>4. CASE r = "resume" /\ (RecLock(r) \/ RecInsert(r) \/ RecEnds(r))
    <3>1. CASE pc' = "down" /\ rec'["resume"].at = "idle"
      BY <1>2, <3>1 DEF Driving
    <3>2. CASE /\ UNCHANGED <<mem, pc>> /\ rec["resume"].at # "idle"
               /\ rec'["resume"].graph = g
      <4>1. pc' = "reconcile"
        BY <3>2 DEF PhaseInv
      <4>2. \A n \in Node : Settled(n)' => n \in Nodes(rec["resume"].graph)'
        BY <3>2, RecKept, SettledStep DEF SettledInv, PhaseInv, Driving
      <4> QED
        BY <4>1, <4>2 DEF SettledInv, Driving
    <3> QED
      BY <2>4, <3>1, <3>2
         DEF RecLock, RecInsert, RecEnds, Stop, Down, NoRec, NamesInv, Reconciler, engine
  <2>5. CASE r = "resume" /\ RecDone(r)
    <3>1. /\ rec["resume"].at # "idle" /\ pc' = "prepare"
          /\ mem' = g /\ row' = row /\ rec'["resume"].at = "idle"
      BY <2>5 DEF RecDone, NoRec, NamesInv, Reconciler
    <3> QED
      BY <3>1, RecKept DEF SettledInv, Settled
  <2> QED
    BY <2>1, <2>2, <2>3, <2>4, <2>5 DEF Reconciler
<1>6. CASE Resume \/ Reactivate
  <2>1. pc' \notin Driving /\ rec'["resume"].at = "idle"
    BY <1>6 DEF Resume, Reactivate, PhaseInv, Driving
  <2> QED
    BY <1>2, <2>1
<1>7. CASE ResumeRefused
  BY <1>2, <1>7 DEF ResumeRefused, Stop, Down, NoRec, NamesInv, Driving, Reconciler
<1>8. CASE Pause \/ FileRun \/ EngineCrash
  <2>1. pc' \notin Driving /\ rec'["resume"].at = "idle"
    BY <1>8 DEF Pause, FileRun, EngineCrash, Down, PhaseInv, Driving
  <2> QED
    BY <1>2, <2>1
<1>9. CASE Prepare
  <2>1. rec'["resume"].at = "idle" /\ pc \in Driving /\ pc' # "gather"
    BY <1>9 DEF Prepare, Down, PhaseInv, Driving
  <2>2. pc' \notin Driving \/ mem' = mem
    BY <1>9 DEF Prepare, Down, Driving
  <2> QED
    BY <1>1, <1>2, <2>1, <2>2
<1>10. CASE Dispatch
  <2>1. flight' \subseteq Nodes(mem)
    BY <1>10, BatchInGraph DEF Dispatch, Ready, Undrained
  <2> QED
    BY <1>1, <1>10, <2>1, DriveFrame DEF Dispatch, Driving
<1>11. CASE \/ NextBatch \/ Deadlocked \/ RoundOver \/ Conclude
            \/ \E n \in Node : Attempt(n) \/ Settle(n)
  <2>1. pc \in Driving /\ (pc' = "gather" => pc = "gather" /\ flight' \subseteq flight)
    BY <1>11 DEF NextBatch, Deadlocked, RoundOver, Conclude, Attempt, Settle, Driving
  <2>2. UNCHANGED <<mem, rec>>
    BY <1>11, DriveFrame
       DEF NextBatch, Deadlocked, RoundOver, Conclude, Attempt, Settle
  <2> QED
    BY <1>1, <2>1, <2>2 DEF SettledInv
<1> QED
  BY <1>3, <1>4, <1>5, <1>6, <1>7, <1>8, <1>9, <1>10, <1>11, StepCases

\* No session drives a graph that has lost a settled wave, although the plan
\* files may be edited between its check and its drive.
THEOREM SettledStays == Spec => []SettledStaysInGraph
<1>1. Init => NamesInv /\ PhaseInv /\ SettledInv
  BY NamesInit, PhaseInit, SettledInit
<1>2. NamesInv /\ PhaseInv /\ SettledInv /\ [Next]_vars
        => (NamesInv /\ PhaseInv /\ SettledInv)'
  BY NamesNext, PhaseNext, SettledNext
<1>3. SettledInv => SettledStaysInGraph
  BY DEF SettledInv, SettledStaysInGraph, Settled, Driving
<1> QED
  BY <1>1, <1>2, <1>3, PTL DEF Spec

-----------------------------------------------------------------------------
(* Running waves and their anchors *)

LEMMA RunningInit == Init => RunningInv
BY DEF Init, RunningInv

LEMMA RunningNext == NamesInv /\ PhaseInv /\ RunningInv /\ [Next]_vars => RunningInv'
<1> SUFFICES ASSUME NamesInv, PhaseInv, RunningInv, [Next]_vars PROVE RunningInv'
  OBVIOUS
<1> USE DEF RunningInv
<1>1. ASSUME UNCHANGED <<dir, pc, flight>>,
             \A n \in Node : row'[n] = "running" => row[n] = "running"
      PROVE  RunningInv'
  BY <1>1
<1>2. ASSUME dir' = dir, pc' = "down",
             \A n \in Node : row'[n] = "running" => row[n] = "running"
      PROVE  RunningInv'
  BY <1>2
<1>3. ASSUME \A n \in Node : row'[n] # "running"
      PROVE  RunningInv'
  BY <1>3
<1>4. CASE Planning \/ UNCHANGED vars \/ Operator
  BY <1>1, <1>4, OperatorFrame DEF Planning, vars, disk, engine
<1>5. CASE \E t \in Task : Commanding(t)
  BY <1>1, <1>5, CommandFrame
<1>6. CASE \E t \in Task : InsertRow(t)
  BY <1>1, <1>6 DEF InsertRow, Advance, engine, NamesInv
<1>7. CASE \E r \in Reconciler :
             RecPlan(r) \/ RecLock(r) \/ RecInsert(r) \/ RecDone(r) \/ RecEnds(r)
  <2>1. PICK r \in Reconciler :
          RecPlan(r) \/ RecLock(r) \/ RecInsert(r) \/ RecDone(r) \/ RecEnds(r)
    BY <1>7
  <2>2. dir' = dir
    BY <2>1, ReconcilerSteps
  <2>3. \A n \in Node : row'[n] = "running" => row[n] = "running"
    BY <2>1 DEF RecPlan, PlanDiff, RecLock, RecInsert, RecDone, RecEnds, disk, NamesInv
  <2>4. \/ UNCHANGED <<pc, flight>> \/ pc' = "down"
        \/ pc = "reconcile"
    BY <2>1 DEF RecPlan, PlanDiff, RecLock, RecInsert, RecDone, RecEnds, Stop,
                Down, engine, PhaseInv
  <2> QED
    BY <1>1, <1>2, <1>3, <2>2, <2>3, <2>4
<1>8. CASE Resume \/ Prepare
  BY <1>3, <1>8 DEF Resume, Prepare, Requeued
<1>9. CASE Reactivate
  <2>1. \A n \in Node : row[n] # "running"
    BY <1>9 DEF Reactivate
  <2> QED
    BY <1>3, <1>9, <2>1 DEF Reactivate, Requeued
<1>10. CASE ResumeRefused \/ Pause \/ EngineCrash
  BY <1>2, <1>10 DEF ResumeRefused, Stop, Pause, EngineCrash, Down, disk
<1>11. CASE NextBatch \/ Conclude \/ Dispatch \/ Deadlocked
  <2>1. \A n \in Node : row[n] # "running"
    BY <1>11 DEF NextBatch, Conclude, Dispatch, Deadlocked
  <2> QED
    BY <1>3, <1>11, <2>1 DEF NextBatch, Conclude, Dispatch, Deadlocked
<1>12. CASE FileRun
  <2>1. \A n \in Node : row[n] # "running"
    BY <1>12 DEF FileRun
  <2> QED
    BY <1>3, <1>12, <2>1 DEF FileRun
<1>13. CASE RoundOver
  <2>1. \A n \in Node : row[n] # "running"
    BY <1>13 DEF RoundOver
  <2> QED
    BY <1>3, <1>13, <2>1 DEF RoundOver
<1>14. CASE \E n \in Node : Attempt(n)
  <2>1. pc = "gather" /\ dir = "processing" /\ UNCHANGED <<dir, pc, flight>>
    BY <1>14, DriveFrame DEF Attempt, PhaseInv
  <2> QED
    BY <1>14, <2>1 DEF Attempt, NamesInv
<1>15. CASE \E n \in Node : Settle(n)
  <2>1. pc = "gather" /\ UNCHANGED <<dir, pc>>
    BY <1>15, DriveFrame DEF Settle
  <2> QED
    BY <1>15, <2>1 DEF Settle, NamesInv
<1> QED
  BY <1>4, <1>5, <1>6, <1>7, <1>8, <1>9, <1>10, <1>11, <1>12, <1>13, <1>14, <1>15,
     StepCases

LEMMA AnchoredInit == Init => AnchoredInv
BY DEF Init, AnchoredInv

\* The waves a wave depends on are waves, and stay the same ones.
LEMMA DepsKept ==
  ASSUME NamesInv, [Next]_vars, mem' = mem, NEW n
  PROVE  DepsOf(mem, n)' = DepsOf(mem, n) /\ DepsOf(mem, n) \subseteq Node
<1>1. \A t \in mem.tasks : node'[t] = node[t] /\ anchor'[t] = anchor[t]
  BY NamesKept DEF NamesInv
<1>2. DepsOf(mem, n)' = DepsOf(mem, n)
  BY <1>1 DEF DepsOf
<1>3. n \in PlanWave => Deps[n] \subseteq PlanWave
  BY InjectAssumption
<1>4. \A t \in mem.tasks : anchor[t] \in Node
  BY DEF NamesInv, Called
<1> QED
  BY <1>2, <1>3, <1>4 DEF DepsOf, Node

LEMMA AnchoredNext == NamesInv /\ PhaseInv /\ AnchoredInv /\ [Next]_vars => AnchoredInv'
<1> SUFFICES ASSUME NamesInv, PhaseInv, AnchoredInv, [Next]_vars, pc' = "gather"
             PROVE  \A n \in flight' : \A m \in DepsOf(mem, n)' : row'[m] = "done"
  BY DEF AnchoredInv
<1>1. CASE Dispatch
  <2>1. mem' = mem /\ row' = row /\ flight' \subseteq Ready
    BY <1>1, DriveFrame DEF Dispatch
  <2> QED
    BY <2>1, DepsKept DEF Ready
<1>2. ASSUME pc = "gather", mem' = mem, flight' \subseteq flight
      PROVE  \A n \in flight' : \A m \in DepsOf(mem, n)' : row'[m] = "done"
  BY <1>2, DepsKept, RowsKept DEF AnchoredInv
<1>3. CASE ~Dispatch
  <2>1. CASE Planning \/ UNCHANGED vars \/ Operator
    BY <1>2, <2>1, OperatorFrame DEF Planning, vars, disk, engine
  <2>2. CASE \E t \in Task : Commanding(t) \/ InsertRow(t)
    BY <1>2, <2>2, CommandFrame DEF InsertRow, Advance, engine
  <2>3. CASE \E r \in Reconciler :
               RecPlan(r) \/ RecLock(r) \/ RecInsert(r) \/ RecDone(r) \/ RecEnds(r)
    BY <1>2, <2>3
       DEF RecPlan, PlanDiff, RecLock, RecInsert, RecDone, RecEnds, Stop, Down, engine, disk
  <2>4. CASE Resume \/ Reactivate \/ ResumeRefused \/ Prepare \/ Pause \/ FileRun
             \/ EngineCrash \/ RoundOver \/ Conclude
    BY <2>4 DEF Resume, Reactivate, ResumeRefused, Stop, Prepare, Pause, FileRun,
                EngineCrash, RoundOver, Conclude, Down
  <2>5. CASE NextBatch \/ Deadlocked \/ \E n \in Node : Attempt(n) \/ Settle(n)
    BY <1>2, <2>5, DriveFrame DEF NextBatch, Deadlocked, Attempt, Settle
  <2> QED
    BY <1>3, <2>1, <2>2, <2>3, <2>4, <2>5, StepCases
<1> QED
  BY <1>1, <1>3

\* An injected wave runs only while the wave it was anchored on is done: that
\* holds for hotfixes and added lanes, merged again at any resume.
THEOREM AnchorFirst == Spec => []InjectedAfterAnchor
<1>1. Init => NamesInv /\ PhaseInv /\ RunningInv /\ AnchoredInv
  BY NamesInit, PhaseInit, RunningInit, AnchoredInit
<1>2. NamesInv /\ PhaseInv /\ RunningInv /\ AnchoredInv /\ [Next]_vars
        => (NamesInv /\ PhaseInv /\ RunningInv /\ AnchoredInv)'
  BY NamesNext, PhaseNext, RunningNext, AnchoredNext
<1>3. NamesInv /\ PhaseInv /\ RunningInv /\ AnchoredInv => InjectedAfterAnchor
  <2> SUFFICES ASSUME NamesInv, PhaseInv, RunningInv, AnchoredInv,
                      NEW t \in mem.tasks, row[node[t]] = "running"
               PROVE  row[anchor[t]] = "done"
    BY DEF InjectedAfterAnchor
  <2>1. node[t] \in Injected /\ node[t] \in Node /\ node[t] \notin PlanWave
    BY InjectAssumption DEF NamesInv, Called, Node
  <2>2. pc # "down"
    BY NoGraphEmpty DEF PhaseInv
  <2>3. pc = "gather" /\ node[t] \in flight
    BY <2>1, <2>2 DEF RunningInv
  <2>4. anchor[t] \in DepsOf(mem, node[t])
    BY <2>1 DEF DepsOf
  <2> QED
    BY <2>3, <2>4 DEF AnchoredInv
<1> QED
  BY <1>1, <1>2, <1>3, PTL DEF Spec

-----------------------------------------------------------------------------
(* One command at a time: the calls under way *)

Underway == {t \in Task : call[t] \in {"planned", "locked", "written", "inserted"}}

\* The calls that have added a wave, or may yet do so.
Adding == artefacts \cup Underway

\* A call that left its artefact has it; without overlap at most one call is
\* under way, and none while the engine lives.
SoloInv ==
  /\ \A t \in Task : call[t] \in {"written", "inserted", "applied"} => t \in artefacts
  /\ Alone => /\ \A t, u \in Underway : t = u
              /\ pc # "down" => Underway = {}

\* A call decides on its wave, its anchor and its batch.
Decides(t, n, a, b) ==
  /\ call[t] = "idle" /\ MayStart /\ Plan(t, n, a, b)
  /\ a \in Nodes(Rebuilt)
  /\ t \in Hotfix =>
       /\ n \in HotfixId /\ NextHotfixId(n) /\ b = 0
       /\ "chain" \in Env \/ \A u \in WaveAdd : a # AddName[u]
  /\ t \in WaveAdd =>
       /\ n = AddName[t] /\ n \notin Nodes(Rebuilt)
       /\ b \in CurrentBatch(Rebuilt, a) \cup FollowingBatch(Rebuilt, a)
       /\ "next" \in Env \/ b # NewBatch

\* A call under way goes on, or ends.
Moves(t) ==
  /\ t \in Underway
  /\ \E to \in {"locked", "written", "inserted", "applied", "failed", "killed"} :
       /\ call' = [call EXCEPT ![t] = to]
       /\ to = "written" => dir = "processing"
       /\ to \in {"inserted", "applied"} => call[t] \in {"written", "inserted"}
       /\ artefacts' = IF to = "written" THEN artefacts \cup {t} ELSE artefacts
  /\ UNCHANGED <<plan, dir, runState, pc, mem, batch, node, anchor, place, rank, rec>>

LEMMA MoveSteps ==
  ASSUME NamesInv, NEW t \in Task, Inject(t)
  PROVE  Moves(t)
<1> USE DEF Moves, Underway, Advance, disk, engine, NamesInv
<1>1. CASE Lock(t)
  BY <1>1 DEF Lock
<1>2. CASE WriteArtefact(t)
  BY <1>2 DEF WriteArtefact
<1>3. CASE InsertRow(t)
  BY <1>3 DEF InsertRow
<1>4. CASE Apply(t)
  BY <1>4 DEF Apply
<1>5. CASE CreateGhost(t) \/ LoseDirectory(t) \/ Kill(t)
  BY <1>5 DEF CreateGhost, LoseDirectory, Kill
<1> QED
  BY <1>1, <1>2, <1>3, <1>4, <1>5 DEF Inject

LEMMA DecideSteps ==
  ASSUME \/ \E t \in Hotfix : PlanHotfix(t)
         \/ \E t \in WaveAdd : PlanWaveAdd(t)
  PROVE  \E t \in Task : \E n, a, b : Decides(t, n, a, b)
<1>1. Hotfix \cap WaveAdd = {}
  BY InjectAssumption
<1>2. CASE \E t \in Hotfix : PlanHotfix(t)
  BY <1>1, <1>2 DEF PlanHotfix, Decides, Task
<1>3. CASE \E t \in WaveAdd : PlanWaveAdd(t)
  BY <1>1, <1>3 DEF PlanWaveAdd, Decides, Task
<1> QED
  BY <1>2, <1>3

LEMMA CallCases ==
  ASSUME NamesInv, [Next]_vars
  PROVE  /\ setting' = setting
         /\ \/ \E t \in Task : \E n, a, b : Decides(t, n, a, b)
            \/ \E t \in Task : Moves(t)
            \/ UNCHANGED <<artefacts, calls>>
<1>1. setting' = setting
  BY DEF Next, vars
<1>2. CASE \E r \in Reconciler :
             RecPlan(r) \/ RecLock(r) \/ RecInsert(r) \/ RecDone(r) \/ RecEnds(r)
  BY <1>1, <1>2, ReconcilerSteps
<1>3. CASE Resume \/ Reactivate \/ ResumeRefused \/ Prepare \/ Pause \/ FileRun
           \/ EngineCrash \/ UNCHANGED vars
  BY <1>1, <1>3 DEF Resume, Reactivate, ResumeRefused, Prepare, Pause, FileRun,
              EngineCrash, disk, vars
<1>4. CASE \/ NextBatch \/ Deadlocked \/ Dispatch \/ RoundOver \/ Conclude
           \/ \E n \in Node : Attempt(n) \/ Settle(n)
  BY <1>1, <1>4 DEF NextBatch, Deadlocked, Dispatch, RoundOver, Conclude, Attempt,
              Settle, Drive
<1>5. CASE Operator
  BY <1>1, <1>5, OperatorFrame DEF Operator, RequestPause, RemoveMarker, RemoveLock,
                             EditPlan, Files
<1> QED
  BY <1>1, <1>2, <1>3, <1>4, <1>5, DecideSteps, MoveSteps
     DEF Next, Reconcile, Engine, Completed

\* Only a resume wakes the engine, when nothing else is under way.
LEMMA Wakes ==
  ASSUME NamesInv, PhaseInv, [Next]_vars, pc = "down", pc' # "down"
  PROVE  MayStart /\ UNCHANGED <<artefacts, calls, rec>> /\ pc' = "reconcile"
<1>1. CASE Planning \/ UNCHANGED vars \/ Operator
  BY <1>1, OperatorFrame DEF Planning, vars, disk, engine
<1>2. CASE \E t \in Task : Commanding(t) \/ InsertRow(t)
  BY <1>2, CommandFrame DEF InsertRow, Advance, engine
<1>3. CASE \E r \in Reconciler :
             RecPlan(r) \/ RecLock(r) \/ RecInsert(r) \/ RecDone(r) \/ RecEnds(r)
  BY <1>3 DEF RecPlan, PlanDiff, RecLock, RecInsert, RecDone, RecEnds, Stop, Down,
              engine, PhaseInv, Reconciler
<1>4. CASE Resume \/ Reactivate
  BY <1>4 DEF Resume, Reactivate
<1>5. CASE \/ ResumeRefused \/ Prepare \/ Pause \/ FileRun \/ EngineCrash
           \/ NextBatch \/ Deadlocked \/ Dispatch \/ RoundOver \/ Conclude
           \/ \E n \in Node : Attempt(n) \/ Settle(n)
  BY <1>5 DEF ResumeRefused, Prepare, Pause, FileRun, EngineCrash, NextBatch,
              Deadlocked, Dispatch, RoundOver, Conclude, Attempt, Settle
<1> QED
  BY <1>1, <1>2, <1>3, <1>4, <1>5, StepCases

\* Without overlap whoever may start finds no call under way.
LEMMA StartsAlone ==
  ASSUME Alone, MayStart
  PROVE  Underway = {} /\ pc = "down"
BY DEF Alone, MayStart, Underway, Holders

LEMMA SoloInit == Init => SoloInv
BY DEF Init, SoloInv, Underway

LEMMA SoloNext == NamesInv /\ PhaseInv /\ SoloInv /\ [Next]_vars => SoloInv'
<1> SUFFICES ASSUME NamesInv, PhaseInv, SoloInv, [Next]_vars PROVE SoloInv'
  OBVIOUS
<1>0. Alone' = Alone
  BY CallCases DEF Alone, Env
<1> USE DEF NamesInv, SoloInv
<1>1. CASE \E t \in Task : \E n, a, b : Decides(t, n, a, b)
  <2>0. PICK t \in Task : \E n, a, b : Decides(t, n, a, b)
    BY <1>1
  <2>1. PICK n, a, b : Decides(t, n, a, b)
    BY <2>0
  <2>2. /\ call[t] = "idle" /\ MayStart /\ call' = [call EXCEPT ![t] = "planned"]
        /\ UNCHANGED <<artefacts, pc>>
    BY <2>1 DEF Decides, Plan, disk, engine
  <2>3. Underway' = Underway \cup {t}
    BY <2>2 DEF Underway
  <2>4. Alone => Underway' = {t} /\ pc' = "down"
    BY <2>2, <2>3, StartsAlone
  <2> QED
    BY <1>0, <2>2, <2>4
<1>2. CASE \E t \in Task : Moves(t)
  <2>1. Underway' \subseteq Underway /\ pc' = pc
    BY <1>2 DEF Moves, Underway
  <2>2. \A t \in Task : call'[t] \in {"written", "inserted", "applied"} => t \in artefacts'
    BY <1>2 DEF Moves, Underway
  <2> QED
    BY <1>0, <2>1, <2>2
<1>3. CASE UNCHANGED <<artefacts, calls>>
  <2>1. Underway' = Underway
    BY <1>3 DEF Underway, calls
  <2>2. Alone /\ pc = "down" /\ pc' # "down" => Underway = {}
    BY Wakes, StartsAlone
  <2> QED
    BY <1>0, <1>3, <2>1, <2>2 DEF calls
<1> QED
  BY <1>1, <1>2, <1>3, CallCases

-----------------------------------------------------------------------------
(* The wave that an artefact adds *)

\* Without overlap no two artefacts add one wave.
WavesInv ==
  /\ \A t \in Called : /\ t \in Hotfix => node[t] \in HotfixId
                       /\ t \in WaveAdd => node[t] = AddName[t]
  /\ Alone => \A t, u \in Adding : node[t] = node[u] => t = u

LEMMA AddingCalled == NamesInv => Adding \subseteq Called /\ artefacts \subseteq Adding
BY DEF NamesInv, Adding, Underway, Called

LEMMA AllMerged == NamesInv /\ WavesInv /\ Alone => Merged = artefacts
BY AddingCalled DEF Merged, WavesInv

\* What a decision adds, when nothing else is under way.
LEMMA Decided ==
  ASSUME NamesInv, Alone, NEW t \in Task, NEW n, NEW a, NEW b, Decides(t, n, a, b)
  PROVE  /\ Adding = artefacts /\ artefacts' = artefacts /\ Adding' = artefacts \cup {t}
         /\ t \notin Called /\ node'[t] = n /\ anchor'[t] = a
         /\ \A u \in artefacts : node'[u] = node[u] /\ anchor'[u] = anchor[u]
<1>1. /\ call[t] = "idle" /\ MayStart /\ call' = [call EXCEPT ![t] = "planned"]
      /\ node' = [node EXCEPT ![t] = n] /\ anchor' = [anchor EXCEPT ![t] = a]
      /\ artefacts' = artefacts
  BY DEF Decides, Plan, disk
<1>2. Underway = {} /\ Underway' = {t}
  BY <1>1, StartsAlone DEF Underway, NamesInv
<1>3. t \notin Called
  BY <1>1 DEF Called
<1> QED
  BY <1>1, <1>2, <1>3 DEF Adding, NamesInv

\* Any other step adds nothing to the calls that may add a wave.
LEMMA Undecided ==
  ASSUME NamesInv,
         (\E t \in Task : Moves(t)) \/ UNCHANGED <<artefacts, calls>>
  PROVE  /\ Adding' \subseteq Adding /\ Called' = Called
         /\ UNCHANGED <<node, anchor, place, rank>>
         /\ artefacts \subseteq artefacts'
         /\ \A t \in artefacts' \ artefacts : t \in Underway
<1>1. CASE \E t \in Task : Moves(t)
  BY <1>1 DEF Moves, Adding, Underway, Called, NamesInv
<1>2. CASE UNCHANGED <<artefacts, calls>>
  BY <1>2 DEF calls, Adding, Underway, Called
<1> QED
  BY <1>1, <1>2

LEMMA WavesInit == Init => WavesInv
BY DEF Init, WavesInv, Called, Adding, Underway

LEMMA WavesNext == NamesInv /\ WavesInv /\ [Next]_vars => WavesInv'
<1> SUFFICES ASSUME NamesInv, WavesInv, [Next]_vars PROVE WavesInv'
  OBVIOUS
<1>0. Alone' = Alone
  BY CallCases DEF Alone, Env
<1>1. CASE \E t \in Task : \E n, a, b : Decides(t, n, a, b)
  <2>0. PICK t \in Task : \E n, a, b : Decides(t, n, a, b)
    BY <1>1
  <2>1. PICK n, a, b : Decides(t, n, a, b)
    BY <2>0
  <2>2. /\ call[t] = "idle" /\ call' = [call EXCEPT ![t] = "planned"]
        /\ node' = [node EXCEPT ![t] = n]
    BY <2>1 DEF Decides, Plan
  <2>3. \A u \in Called' : /\ u \in Hotfix => node'[u] \in HotfixId
                           /\ u \in WaveAdd => node'[u] = AddName[u]
    BY <2>1, <2>2 DEF Decides, WavesInv, NamesInv, Called
  <2>4. ASSUME Alone, NEW u \in artefacts PROVE node[u] # n
    <3>1. u \in Called /\ Merged = artefacts /\ u \in Task
      BY <2>4, AllMerged DEF NamesInv, Called
    <3>2. t \in Hotfix \/ t \in WaveAdd
      BY DEF Task
    <3>3. CASE t \in Hotfix /\ u \in Hotfix
      <4>1. node[u] < n /\ node[u] \in Int /\ n \in Int
        BY <2>1, <2>4, <3>1, <3>3 DEF Decides, NextHotfixId, WavesInv, HotfixId
      <4> QED
        BY <4>1
    <3>4. CASE t \in Hotfix /\ u \in WaveAdd
      BY <2>1, <3>1, <3>4, InjectAssumption DEF Decides, WavesInv
    <3>5. CASE t \in WaveAdd
      BY <2>1, <2>4, <3>1, <3>5 DEF Decides, Nodes, Rebuilt
    <3> QED
      BY <3>1, <3>2, <3>3, <3>4, <3>5 DEF Task
  <2>5. ASSUME Alone, NEW u \in Adding', NEW v \in Adding', node'[u] = node'[v]
        PROVE  u = v
    <3>1. /\ Adding' = artefacts \cup {t} /\ artefacts \subseteq Adding
          /\ node'[t] = n /\ \A x \in artefacts : node'[x] = node[x]
      BY <2>1, <2>5, Decided
    <3> QED
      BY <2>4, <2>5, <3>1 DEF WavesInv
  <2> QED
    BY <1>0, <2>3, <2>5 DEF WavesInv
<1>2. CASE (\E t \in Task : Moves(t)) \/ UNCHANGED <<artefacts, calls>>
  BY <1>0, <1>2, Undecided DEF WavesInv
<1> QED
  BY <1>1, <1>2, CallCases

\* Without overlap the rebuilt graph takes the wave of an inject that reported
\* success from its own artefact: no later call hides or repeats it.
THEOREM OwnArtefact == Spec => []AppliedIsUsed
<1>1. Init => NamesInv /\ PhaseInv /\ SoloInv /\ WavesInv
  BY NamesInit, PhaseInit, SoloInit, WavesInit
<1>2. NamesInv /\ PhaseInv /\ SoloInv /\ WavesInv /\ [Next]_vars
        => (NamesInv /\ PhaseInv /\ SoloInv /\ WavesInv)'
  BY NamesNext, PhaseNext, SoloNext, WavesNext
<1>3. NamesInv /\ SoloInv /\ WavesInv => AppliedIsUsed
  BY AllMerged DEF SoloInv, AppliedIsUsed
<1> QED
  BY <1>1, <1>2, <1>3, PTL DEF Spec

-----------------------------------------------------------------------------
(* The order of the artefacts, and the batch of a lane *)

Ranked == {t \in Task : rank[t] > 0}

\* Without overlap a new task id sorts after all the others.
RankInv ==
  /\ rank \in [Task -> Nat] /\ IsFiniteSet(Ranked)
  /\ \A t \in Task \ Called : rank[t] = 0
  /\ Alone => \A t \in Task : rank[t] <= Cardinality(Ranked)

LEMMA RankedLast ==
  ASSUME RankInv, NEW t \in Task, rank[t] = 0, NewRank(t)
  PROVE  /\ rank' \in [Task -> Nat]
         /\ IsFiniteSet(Ranked')
         /\ Alone => /\ rank'[t] = Cardinality(Ranked) + 1
                     /\ \A u \in Task \ {t} : rank'[u] = rank[u]
                     /\ Cardinality(Ranked') = Cardinality(Ranked) + 1
<1> DEFINE known == Cardinality(Ranked)
<1>1. known \in Nat
  BY FS_CardinalityType DEF RankInv
<1>2. PICK p \in {known + 1} \cup (IF "overlap" \in Env /\ known > 0 THEN {known} ELSE {}) :
        rank' = [u \in Task |-> IF u = t THEN p
                                ELSE IF rank[u] >= p THEN rank[u] + 1 ELSE rank[u]]
  BY DEF NewRank, Ranked
<1>3. p \in Nat /\ p > 0 /\ (Alone => p = known + 1)
  BY <1>1, <1>2 DEF Alone
<1>4. rank' \in [Task -> Nat]
  BY <1>2, <1>3 DEF RankInv
<1>5. Ranked' = Ranked \cup {t}
  <2> SUFFICES ASSUME NEW u \in Task PROVE rank'[u] > 0 <=> (rank[u] > 0 \/ u = t)
    BY DEF Ranked
  <2>1. rank[u] \in Nat
    BY DEF RankInv
  <2> QED
    BY <1>2, <1>3, <2>1
<1>6. t \notin Ranked
  BY DEF Ranked
<1>7. IsFiniteSet(Ranked') /\ Cardinality(Ranked') = known + 1
  BY <1>5, <1>6, FS_AddElement DEF RankInv
<1>8. ASSUME Alone, NEW u \in Task \ {t} PROVE rank'[u] = rank[u]
  <2>1. rank[u] \in Nat /\ rank[u] <= known
    BY <1>8 DEF RankInv
  <2> QED
    BY <1>1, <1>2, <1>3, <1>8, <2>1
<1> QED
  BY <1>2, <1>3, <1>4, <1>7, <1>8

LEMMA RankInit == Init => RankInv
<1> SUFFICES ASSUME Init PROVE RankInv
  OBVIOUS
<1>1. Ranked = {} /\ rank = [t \in Task |-> 0]
  BY DEF Init, Ranked
<1> QED
  BY <1>1, FS_EmptySet DEF RankInv

LEMMA RankNext == NamesInv /\ RankInv /\ [Next]_vars => RankInv'
<1> SUFFICES ASSUME NamesInv, RankInv, [Next]_vars PROVE RankInv'
  OBVIOUS
<1>0. Alone' = Alone
  BY CallCases DEF Alone, Env
<1>1. CASE \E t \in Task : \E n, a, b : Decides(t, n, a, b)
  <2>0. PICK t \in Task : \E n, a, b : Decides(t, n, a, b)
    BY <1>1
  <2>1. PICK n, a, b : Decides(t, n, a, b)
    BY <2>0
  <2>2. NewRank(t) /\ t \notin Called /\ Called' = Called \cup {t}
    BY <2>1 DEF Decides, Plan, Called, NamesInv
  <2>3. rank[t] = 0
    BY <2>2 DEF RankInv
  <2>4. \A u \in Task \ Called' : rank'[u] = 0
    <3> SUFFICES ASSUME NEW u \in Task \ Called' PROVE rank'[u] = 0
      OBVIOUS
    <3>1. rank[u] = 0 /\ u # t
      BY <2>2 DEF RankInv
    <3>2. Cardinality(Ranked) \in Nat
      BY FS_CardinalityType DEF RankInv
    <3> QED
      BY <2>2, <3>1, <3>2 DEF NewRank, Ranked
  <2>5. ASSUME Alone, NEW u \in Task PROVE rank'[u] <= Cardinality(Ranked')
    <3>1. Cardinality(Ranked) \in Nat /\ rank[u] \in Nat /\ rank[u] <= Cardinality(Ranked)
      BY <2>5, FS_CardinalityType DEF RankInv
    <3> QED
      BY <2>2, <2>3, <2>5, <3>1, RankedLast
  <2> QED
    BY <1>0, <2>2, <2>3, <2>4, <2>5, RankedLast DEF RankInv
<1>2. CASE (\E t \in Task : Moves(t)) \/ UNCHANGED <<artefacts, calls>>
  <2>1. rank' = rank /\ Called' = Called
    BY <1>2, Undecided
  <2>2. Ranked' = Ranked
    BY <2>1 DEF Ranked
  <2> QED
    BY <1>0, <2>1, <2>2 DEF RankInv
<1> QED
  BY <1>1, <1>2, CallCases

\* A set of batches has a first one.
LEMMA FirstExists ==
  ASSUME NEW S \in SUBSET Nat, S # {}
  PROVE  First(S) \in S
<1>1. \E x \in S : \A y \in S : ~ (<<y, x>> \in OpToRel(<, Nat))
  BY WFMin, NatLessThanWellFounded, Zenon
<1>2. PICK x \in S : \A y \in S : ~ (y < x)
  BY <1>1 DEF OpToRel
<1>3. \A y \in S : x <= y
  BY <1>2
<1> QED
  BY <1>3 DEF First

LEMMA BatchRange ==
  /\ Len(PlanBatches) \in Nat \ {0}
  /\ NewBatch = Len(PlanBatches) + 1
  /\ Batch \subseteq Nat
BY InjectAssumption DEF NewBatch, Batch

\* A lane goes to a batch; to one of the plan, unless --batch next may ask for
\* another.
PlacesInv ==
  /\ place \in [Task -> 0 .. NewBatch]
  /\ \A t \in Called \cap WaveAdd :
       /\ place[t] # 0
       /\ "next" \in Env \/ place[t] # NewBatch

LEMMA PlacesInit == Init => PlacesInv
BY BatchRange DEF Init, PlacesInv, Called

LEMMA PlacesNext == NamesInv /\ PlacesInv /\ [Next]_vars => PlacesInv'
<1> SUFFICES ASSUME NamesInv, PlacesInv, [Next]_vars PROVE PlacesInv'
  OBVIOUS
<1>0. Env' = Env
  BY CallCases DEF Env
<1>1. CASE \E t \in Task : \E n, a, b : Decides(t, n, a, b)
  <2>0. PICK t \in Task : \E n, a, b : Decides(t, n, a, b)
    BY <1>1
  <2>1. PICK n, a, b : Decides(t, n, a, b)
    BY <2>0
  <2>2. /\ place' = [place EXCEPT ![t] = b] /\ Called' = Called \cup {t}
    BY <2>1 DEF Decides, Plan, Called, NamesInv
  <2>3. CASE t \in Hotfix
    <3>1. b = 0 /\ t \notin WaveAdd
      BY <2>1, <2>3, InjectAssumption DEF Decides
    <3> QED
      BY <1>0, <2>2, <3>1, BatchRange DEF PlacesInv
  <2>4. CASE t \in WaveAdd
    <3> DEFINE home  == {c \in Batch : a \in InBatch(Rebuilt, c)}
               later == {c \in Batch : c > First(home) /\ InBatch(Rebuilt, c) # {}
                                       /\ ~FullyDone(Rebuilt, c)}
    <3>1. home # {} => First(home) \in Batch
      BY FirstExists, BatchRange
    <3>2. later # {} => First(later) \in Batch
      BY FirstExists, BatchRange
    <3>3. /\ CurrentBatch(Rebuilt, a) \subseteq IF home = {} THEN {} ELSE {First(home)}
          /\ FollowingBatch(Rebuilt, a) \subseteq IF later = {} THEN {NewBatch} ELSE {First(later)}
      BY DEF CurrentBatch, FollowingBatch
    <3>4. b \in Batch \cup {NewBatch} /\ ("next" \in Env \/ b # NewBatch)
      BY <2>1, <2>4, <3>1, <3>2, <3>3 DEF Decides
    <3>5. b \in 1 .. NewBatch
      BY <3>4, BatchRange DEF Batch
    <3> QED
      BY <1>0, <2>2, <3>4, <3>5, BatchRange DEF PlacesInv
  <2> QED
    BY <2>3, <2>4 DEF Task
<1>2. CASE (\E t \in Task : Moves(t)) \/ UNCHANGED <<artefacts, calls>>
  BY <1>0, <1>2, Undecided DEF PlacesInv
<1> QED
  BY <1>1, <1>2, CallCases

-----------------------------------------------------------------------------
(* The graph can be rebuilt *)

\* Without overlap lanes are compared with all that were added before, and an
\* anchor is in the plan or was added before; by a hotfix, for a hotfix.
AnchorsInv ==
  /\ setting \in Settings
  /\ "edit" \notin Env => plan = setting.start
  /\ Alone =>
       /\ \A t, u \in Adding : <<t, u>> \notin Clash
       /\ "edit" \notin Env =>
            \A t \in Adding : anchor[t] \in PlanWave => anchor[t] \in plan
       /\ "chain" \notin Env =>
            \A t \in Adding :
              \/ anchor[t] \in PlanWave
              \/ \E u \in artefacts : node[u] = anchor[t] /\ Before(u, t)

LEMMA AnchorsInit == Init => AnchorsInv
BY DEF Init, AnchorsInv, Adding, Underway

LEMMA PlanKeptUnedited ==
  ASSUME NamesInv, [Next]_vars, "edit" \notin Env
  PROVE  plan' = plan
<1>1. CASE Planning \/ UNCHANGED vars
  BY <1>1 DEF Planning, vars, disk
<1>2. CASE \E t \in Task : Commanding(t) \/ InsertRow(t)
  BY <1>2, CommandFrame DEF InsertRow
<1>3. CASE \E r \in Reconciler :
             RecPlan(r) \/ RecLock(r) \/ RecInsert(r) \/ RecDone(r) \/ RecEnds(r)
  BY <1>3, ReconcilerSteps
<1>4. CASE Operator
  BY <1>4 DEF Operator, RequestPause, RemoveMarker, RemoveLock, EditPlan
<1>5. CASE Resume \/ Reactivate \/ ResumeRefused \/ Prepare \/ Pause \/ FileRun \/ EngineCrash
  BY <1>5 DEF Resume, Reactivate, ResumeRefused, Prepare, Pause, FileRun, EngineCrash, disk
<1>6. CASE \/ NextBatch \/ Deadlocked \/ Dispatch \/ RoundOver \/ Conclude
           \/ \E n \in Node : Attempt(n) \/ Settle(n)
  BY <1>6, DriveFrame
     DEF NextBatch, Deadlocked, Dispatch, RoundOver, Conclude, Attempt, Settle
<1> QED
  BY <1>1, <1>2, <1>3, <1>4, <1>5, <1>6, StepCases

LEMMA AnchorsNext ==
  NamesInv /\ WavesInv /\ RankInv /\ AnchorsInv /\ [Next]_vars => AnchorsInv'
<1> SUFFICES ASSUME NamesInv, WavesInv, RankInv, AnchorsInv, [Next]_vars
             PROVE  AnchorsInv'
  OBVIOUS
<1>0. setting' = setting /\ Env' = Env /\ Alone' = Alone
  BY CallCases DEF Alone, Env
<1>1. "edit" \notin Env => plan' = plan
  BY PlanKeptUnedited
<1>2. CASE \E t \in Task : \E n, a, b : Decides(t, n, a, b)
  <2>0. PICK t \in Task : \E n, a, b : Decides(t, n, a, b)
    BY <1>2
  <2>1. PICK n, a, b : Decides(t, n, a, b)
    BY <2>0
  <2> SUFFICES ASSUME Alone
               PROVE  /\ \A v, u \in Adding' : <<v, u>> \notin Clash
                      /\ "edit" \notin Env =>
                           \A v \in Adding' : anchor'[v] \in PlanWave => anchor'[v] \in plan
                      /\ "chain" \notin Env =>
                           \A v \in Adding' :
                             \/ anchor'[v] \in PlanWave
                             \/ \E u \in artefacts : node'[u] = anchor'[v] /\ Before(u, v)'
    BY <1>0, <1>1, <2>1, Decided DEF AnchorsInv
  <2>2. /\ Adding = artefacts /\ artefacts' = artefacts /\ Adding' = artefacts \cup {t}
        /\ t \notin Called /\ node'[t] = n /\ anchor'[t] = a
        /\ \A u \in artefacts : node'[u] = node[u] /\ anchor'[u] = anchor[u]
    BY <2>1, Decided
  <2>3. Merged = artefacts /\ artefacts \subseteq Called /\ artefacts \subseteq Task
    BY AllMerged DEF NamesInv, Called
  <2>4. a \in plan \/ \E u \in artefacts : node[u] = a
    BY <2>1, <2>3 DEF Decides, Nodes, Rebuilt
  <2>5. \A u \in artefacts : <<t, u>> \notin Clash /\ <<u, t>> \notin Clash
    BY <2>1, <2>3 DEF Decides, Plan
  <2>6. \A v, u \in Adding' : <<v, u>> \notin Clash
    BY <2>2, <2>5, InjectAssumption DEF AnchorsInv
  <2>7. a \in PlanWave => a \in plan
    BY <2>3, <2>4, InjectAssumption DEF NamesInv
  <2>8. rank[t] = 0 /\ NewRank(t)
    BY <2>1, <2>2 DEF RankInv, Decides, Plan
  <2>9. \A u \in artefacts : rank'[u] = rank[u] /\ rank'[u] < rank'[t]
    <3> SUFFICES ASSUME NEW u \in artefacts PROVE rank'[u] = rank[u] /\ rank'[u] < rank'[t]
      OBVIOUS
    <3>1. u \in Task \ {t} /\ rank[u] \in Nat /\ rank[u] <= Cardinality(Ranked)
      BY <2>2, <2>3 DEF RankInv
    <3>2. Cardinality(Ranked) \in Nat
      BY FS_CardinalityType DEF RankInv
    <3> QED
      BY <2>8, <3>1, <3>2, RankedLast
  <2>10. ASSUME "chain" \notin Env, NEW v \in Adding', anchor'[v] \notin PlanWave
         PROVE  \E u \in artefacts : node'[u] = anchor'[v] /\ Before(u, v)'
    <3>1. CASE v = t
      <4>1. PICK u \in artefacts : node[u] = a
        BY <2>2, <2>4, <2>10, <3>1 DEF NamesInv
      <4>2. u \in Called /\ u \in Task
        BY <2>3
      <4>3. t \in Hotfix => u \in Hotfix
        BY <2>1, <2>10, <4>1, <4>2 DEF Decides, WavesInv, Task
      <4>4. Before(u, t)'
        BY <2>9, <4>1, <4>2, <4>3 DEF Before, Task
      <4> QED
        BY <2>2, <3>1, <4>1, <4>4
    <3>2. CASE v \in artefacts
      <4>1. PICK u \in artefacts : node[u] = anchor[v] /\ Before(u, v)
        BY <2>2, <2>10, <3>2 DEF AnchorsInv
      <4>2. Before(u, v)'
        BY <2>9, <3>2, <4>1 DEF Before
      <4> QED
        BY <2>2, <3>2, <4>1, <4>2
    <3> QED
      BY <2>2, <3>1, <3>2
  <2>11. "edit" \notin Env => \A v \in Adding' : anchor'[v] \in PlanWave => anchor'[v] \in plan
    BY <2>2, <2>7 DEF AnchorsInv
  <2> QED
    BY <2>6, <2>10, <2>11
<1>3. CASE (\E t \in Task : Moves(t)) \/ UNCHANGED <<artefacts, calls>>
  <2>1. /\ Adding' \subseteq Adding /\ UNCHANGED <<node, anchor, rank>>
        /\ artefacts \subseteq artefacts'
    BY <1>3, Undecided
  <2>2. \A t, u : Before(t, u)' = Before(t, u)
    BY <2>1 DEF Before
  <2>3. ASSUME Alone, "chain" \notin Env, NEW t \in Adding', anchor[t] \notin PlanWave
        PROVE  \E u \in artefacts' : node'[u] = anchor'[t] /\ Before(u, t)'
    BY <2>1, <2>2, <2>3 DEF AnchorsInv
  <2>4. Alone /\ "edit" \notin Env =>
          \A t \in Adding' : anchor'[t] \in PlanWave => anchor'[t] \in plan'
    BY <1>1, <2>1 DEF AnchorsInv
  <2>5. Alone => \A t, u \in Adding' : <<t, u>> \notin Clash
    BY <2>1 DEF AnchorsInv
  <2> QED
    BY <1>0, <1>1, <2>1, <2>3, <2>4, <2>5 DEF AnchorsInv
<1> QED
  BY <1>2, <1>3, CallCases

\* A run whose commands never overlap is operated plainly: it starts from a plan
\* without dangling dependencies that nobody edits, no lane is given a new batch
\* and no hotfix follows an injected lane.
PlainlyOperated ==
  \A s \in Settings : "overlap" \notin s.events =>
    /\ {"edit", "next", "chain"} \cap s.events = {}
    /\ \A n \in s.start : Deps[n] \subseteq s.start

\* In a run that is operated plainly, no sequence of injects, refused, killed or
\* applied, makes the graph one that a resume refuses to build.
THEOREM StaysResumable ==
  ASSUME PlainlyOperated
  PROVE  Spec => []InjectsMerge
<1> DEFINE Inv == NamesInv /\ WavesInv /\ RankInv /\ PlacesInv /\ AnchorsInv
<1>1. Init => Inv
  BY NamesInit, WavesInit, RankInit, PlacesInit, AnchorsInit
<1>2. Inv /\ [Next]_vars => Inv'
  BY NamesNext, WavesNext, RankNext, PlacesNext, AnchorsNext
<1>3. Inv => InjectsMerge
  <2> SUFFICES ASSUME NamesInv, WavesInv, PlacesInv, AnchorsInv, Alone PROVE Mergeable
    BY DEF InjectsMerge
  <2>1. /\ "edit" \notin Env /\ "next" \notin Env /\ "chain" \notin Env
        /\ \A n \in plan : Deps[n] \subseteq plan
    BY DEF PlainlyOperated, AnchorsInv, Alone, Env
  <2>2. Merged = artefacts /\ artefacts \subseteq Called /\ artefacts \subseteq Adding
    BY AllMerged, AddingCalled
  <2>3. ASSUME NEW t \in artefacts
        PROVE  anchor[t] \in plan \cup {node[u] : u \in {v \in artefacts : Before(v, t)}}
    BY <2>1, <2>2 DEF AnchorsInv
  <2>4. ASSUME NEW t \in artefacts PROVE t \in WaveAdd => place[t] # NewBatch
    BY <2>1, <2>2 DEF PlacesInv
  <2>5. \A t, u \in artefacts : <<t, u>> \notin Clash
    BY <2>2 DEF AnchorsInv
  <2> QED
    BY <2>1, <2>2, <2>3, <2>4, <2>5 DEF Mergeable
<1> QED
  BY <1>1, <1>2, <1>3, PTL DEF Spec

-----------------------------------------------------------------------------
(* What a session drives *)

\* The graph holds all that was added, each lane in a batch of the plan.
Whole(g) ==
  g.tasks = artefacts /\ \A t \in artefacts \cap WaveAdd : place[t] \in Batch

AllRun == \A t \in artefacts : row[node[t]] = "done"

\* Without overlap a session drives everything that was added, batch by batch,
\* and files the run as done when all of it is.
SessionInv ==
  /\ batch \in Batch
  /\ Alone =>
       /\ rec["resume"].at # "idle" => Whole(rec["resume"].graph)
       /\ pc \in Driving \cup {"file"} => Whole(mem)
       /\ pc \in {"round", "gather"} =>
            \A c \in Batch : c < batch => \A n \in InBatch(mem, c) : Settled(n)
       /\ (pc = "file" \/ dir = "filed") /\ runState = "done" => AllRun

\* The first hotfix follows a wave of the plan.
HotfixInv ==
  Alone /\ "chain" \notin Env =>
    (artefacts \cap Hotfix # {} => \E u \in artefacts \cap Hotfix : anchor[u] \in PlanWave)

LEMMA HotfixNext == NamesInv /\ AnchorsInv /\ HotfixInv /\ [Next]_vars => HotfixInv'
<1> SUFFICES ASSUME NamesInv, AnchorsInv, HotfixInv, [Next]_vars,
                    Alone, "chain" \notin Env, NEW t \in artefacts' \cap Hotfix
             PROVE  \E u \in artefacts' \cap Hotfix : anchor'[u] \in PlanWave
  BY CallCases DEF HotfixInv, Alone, Env
<1>1. CASE \E v \in Task : \E n, a, b : Decides(v, n, a, b)
  <2>1. artefacts' = artefacts /\ \A u \in artefacts : anchor'[u] = anchor[u]
    BY <1>1, Decided
  <2> QED
    BY <2>1 DEF HotfixInv
<1>2. CASE (\E v \in Task : Moves(v)) \/ UNCHANGED <<artefacts, calls>>
  <2>1. anchor' = anchor /\ artefacts \subseteq artefacts'
    BY <1>2, Undecided
  <2>2. CASE artefacts \cap Hotfix # {}
    BY <2>1, <2>2 DEF HotfixInv
  <2>3. CASE artefacts \cap Hotfix = {}
    <3>1. t \in Adding
      BY <1>2, <2>3, Undecided DEF Adding
    <3>2. \A u \in artefacts : ~ Before(u, t)
      BY <2>3, InjectAssumption DEF Before
    <3> QED
      BY <2>1, <3>1, <3>2 DEF AnchorsInv
  <2> QED
    BY <2>2, <2>3
<1> QED
  BY <1>1, <1>2, CallCases

\* Every added wave is in a batch of the plan, when batches do not list waves.
LEMMA Covered ==
  ASSUME ~Labelled, NamesInv, HotfixInv, Alone, "chain" \notin Env, Whole(mem),
         NEW t \in artefacts
  PROVE  \E c \in Batch : node[t] \in InBatch(mem, c)
<1>1. t \in mem.tasks /\ t \in Task
  BY DEF Whole, NamesInv, Called
<1>2. CASE t \in Hotfix
  <2>1. PICK u \in artefacts \cap Hotfix : anchor[u] \in PlanWave
    BY <1>2 DEF HotfixInv
  <2> DEFINE home == {b \in Batch : anchor[u] \in PlanBatches[b]}
             c == HomeBatch(anchor[u])
  <2>2. c \in Batch
    <3>1. home # {} => First(home) \in Batch
      BY FirstExists, BatchRange
    <3>2. Len(PlanBatches) \in Batch
      BY BatchRange DEF Batch
    <3> QED
      BY <3>1, <3>2 DEF HomeBatch
  <2>3. c \in HotfixBatches(mem)
    BY <2>1 DEF HotfixBatches, Whole
  <2>4. node[t] \in InBatch(mem, c)
    BY <1>1, <1>2, <2>3 DEF InBatch
  <2> QED
    BY <2>2, <2>4
<1>3. CASE t \in WaveAdd
  <2>1. t \notin Hotfix /\ place[t] \in Batch
    BY <1>3, InjectAssumption DEF Whole
  <2>2. node[t] \in InBatch(mem, place[t])
    BY <1>1, <2>1 DEF InBatch
  <2> QED
    BY <2>1, <2>2
<1> QED
  BY <1>1, <1>2, <1>3 DEF Task

\* While the engine lives no command adds anything.
LEMMA EngineAlone ==
  ASSUME NamesInv, SoloInv, Alone, pc # "down", [Next]_vars
  PROVE  UNCHANGED <<artefacts, calls>>
<1>1. ~ \E t \in Task : \E n, a, b : Decides(t, n, a, b)
  BY StartsAlone DEF Decides
<1>2. ~ \E t \in Task : Moves(t)
  BY DEF Moves, SoloInv
<1> QED
  BY <1>1, <1>2, CallCases

\* Where no engine lives no run is filed, and no verdict is given.
LEMMA AtRest ==
  ASSUME NamesInv, PhaseInv, [Next]_vars, pc = "down", dir' = "filed"
  PROVE  dir = "filed" /\ runState' = runState
<1>1. CASE \E t \in Hotfix : PlanHotfix(t)
  BY <1>1 DEF PlanHotfix, Plan, disk
<1>2. CASE \E t \in WaveAdd : PlanWaveAdd(t)
  BY <1>2 DEF PlanWaveAdd, Plan, disk
<1>3. CASE \E t \in Task : Inject(t)
  BY <1>3, MoveSteps DEF Moves
<1>4. CASE \E r \in Reconciler :
             RecPlan(r) \/ RecLock(r) \/ RecInsert(r) \/ RecDone(r) \/ RecEnds(r)
  BY <1>4 DEF RecPlan, PlanDiff, RecLock, RecInsert, RecDone, RecEnds, disk
<1>5. CASE Operator \/ UNCHANGED vars
  BY <1>5 DEF Operator, RequestPause, RemoveMarker, RemoveLock, EditPlan, Files, vars, disk
<1>6. CASE Resume \/ Reactivate
  BY <1>6 DEF Resume, Reactivate
<1>7. CASE \/ ResumeRefused \/ Prepare \/ Pause \/ FileRun \/ EngineCrash
           \/ NextBatch \/ Deadlocked \/ Dispatch \/ RoundOver \/ Conclude
           \/ \E n \in Node : Attempt(n) \/ Settle(n)
  BY <1>7 DEF ResumeRefused, Prepare, Pause, FileRun, EngineCrash, NextBatch,
              Deadlocked, Dispatch, RoundOver, Conclude, Attempt, Settle
<1> QED
  BY <1>1, <1>2, <1>3, <1>4, <1>5, <1>6, <1>7 DEF Next, Reconcile, Engine, Completed

LEMMA BatchNext ==
  ASSUME NamesInv, batch \in Batch, [Next]_vars
  PROVE  batch' \in Batch
<1>0. 1 \in Batch /\ \A c \in Batch : c < Len(PlanBatches) => c + 1 \in Batch
  BY BatchRange DEF Batch
<1>1. CASE Planning \/ UNCHANGED vars \/ Operator
  BY <1>1, OperatorFrame DEF Planning, vars, engine
<1>2. CASE \E t \in Task : Commanding(t) \/ InsertRow(t)
  BY <1>2, CommandFrame DEF InsertRow, Advance, Commanding, Lock, WriteArtefact,
                            Apply, CreateGhost, LoseDirectory, Kill, engine
<1>3. CASE \E r \in Reconciler :
             RecPlan(r) \/ RecLock(r) \/ RecInsert(r) \/ RecDone(r) \/ RecEnds(r)
  BY <1>0, <1>3 DEF RecPlan, PlanDiff, RecLock, RecInsert, RecDone, RecEnds, Stop,
                    Down, engine
<1>4. CASE \/ Resume \/ Reactivate \/ ResumeRefused \/ Prepare \/ Pause \/ FileRun
           \/ EngineCrash
  BY <1>0, <1>4 DEF Resume, Reactivate, ResumeRefused, Prepare, Pause, FileRun,
                    EngineCrash, Stop, Down
<1>5. CASE \/ NextBatch \/ Deadlocked \/ Dispatch \/ RoundOver \/ Conclude
           \/ \E n \in Node : Attempt(n) \/ Settle(n)
  BY <1>0, <1>5 DEF NextBatch, Deadlocked, Dispatch, RoundOver, Conclude, Attempt, Settle
<1> QED
  BY <1>1, <1>2, <1>3, <1>4, <1>5, StepCases

LEMMA SessionInit == Init => SessionInv
<1> SUFFICES ASSUME Init PROVE SessionInv
  OBVIOUS
<1>1. Whole(mem) /\ rec["resume"].at = "idle"
  BY DEF Init, Whole, NoRec, Reconciler
<1>2. 1 \in Batch
  BY BatchRange DEF Batch
<1> QED
  BY <1>1, <1>2 DEF Init, SessionInv

\* The parts of SessionInv that say something without overlap.
Session ==
  /\ rec["resume"].at # "idle" => Whole(rec["resume"].graph)
  /\ pc \in Driving \cup {"file"} => Whole(mem)
  /\ pc \in {"round", "gather"} =>
       \A c \in Batch : c < batch => \A n \in InBatch(mem, c) : Settled(n)
  /\ (pc = "file" \/ dir = "filed") /\ runState = "done" => AllRun

LEMMA SessionAtRest ==
  ASSUME NamesInv, PhaseInv, PhaseInv', Session, [Next]_vars, pc = "down"
  PROVE  Session'
<1>1. pc' # "down" => pc' = "reconcile" /\ rec' = rec
  BY Wakes
<1>2. rec'["resume"].at = "idle"
  BY <1>1 DEF PhaseInv
<1>3. ASSUME dir' = "filed", runState' = "done" PROVE AllRun'
  <2>1. dir = "filed" /\ AllRun
    BY <1>3, AtRest DEF Session
  <2>2. artefacts' = artefacts
    BY <2>1, CallCases DEF Decides, Plan, Moves, disk
  <2>3. \A t \in artefacts : node'[t] = node[t] /\ node[t] \in Node
    BY NamesKept DEF NamesInv, Node
  <2> QED
    BY <2>1, <2>2, <2>3, RowsKept DEF AllRun
<1> QED
  BY <1>1, <1>2, <1>3 DEF Session, Driving

\* The verdict is done when all batches are drained and nothing is blocked.
LEMMA VerdictAllRun ==
  ASSUME ~Labelled, NamesInv, HotfixInv, Alone, "chain" \notin Env,
         batch \in Batch, Session, Conclude, runState' = "done"
  PROVE  AllRun
<1>1. /\ pc = "round" /\ Undrained = {} /\ batch = Len(PlanBatches)
      /\ \A n \in Node : row[n] # "blocked"
  BY DEF Conclude
<1> SUFFICES ASSUME NEW t \in artefacts PROVE row[node[t]] = "done"
  BY DEF AllRun
<1>2. node[t] \in Node
  BY DEF NamesInv, Node
<1>3. PICK c \in Batch : node[t] \in InBatch(mem, c)
  BY <1>1, Covered DEF Session, Driving
<1>4. c < batch \/ c = batch
  BY <1>1, BatchRange DEF Batch
<1>5. Settled(node[t])
  BY <1>1, <1>3, <1>4 DEF Session, Undrained
<1> QED
  BY <1>1, <1>2, <1>5 DEF Settled

LEMMA SessionLive ==
  ASSUME ~Labelled, NamesInv, PhaseInv, SoloInv, WavesInv, PlacesInv, HotfixInv,
         Alone, "chain" \notin Env, batch \in Batch, Session, [Next]_vars, pc # "down"
  PROVE  Session'
<1>0. UNCHANGED <<artefacts, calls>>
  BY EngineAlone
<1> DEFINE g == rec["resume"].graph
<1>1. dir = "processing"
  BY DEF PhaseInv
<1>2. AllRun => AllRun'
  <2>1. \A t \in artefacts : node'[t] = node[t] /\ node[t] \in Node
    BY NamesKept DEF NamesInv, Node
  <2> QED
    BY <1>0, <2>1, RowsKept DEF AllRun
<1>3. \A h : Whole(h)' = Whole(h)
  BY <1>0 DEF Whole, calls
<1>4. mem' = mem => \A c : InBatch(mem, c)' = InBatch(mem, c)
  BY <1>0 DEF InBatch, HotfixBatches, calls
<1>5. \A c : InBatch(mem, c) \subseteq Node
  BY BatchInGraph, GraphNodes DEF NamesInv
\* The engine stops, and nothing is filed.
<1>6. ASSUME pc' = "down", dir' = dir, rec'["resume"].at = "idle" PROVE Session'
  BY <1>1, <1>6 DEF Session, Driving
\* The resume goes on with the graph it has.
<1>7. ASSUME pc' = "reconcile", dir' = dir, rec'["resume"].at # "idle" => Whole(rec'["resume"].graph)
      PROVE  Session'
  BY <1>1, <1>3, <1>7 DEF Session, Driving
\* The engine goes on with the graph it drives.
<1>8. ASSUME mem' = mem, dir' = dir, rec' = rec, pc \in Driving \cup {"file"},
             pc' = "file" /\ runState' = "done" => AllRun',
             pc' \in {"round", "gather"} =>
               \A c \in Batch : c < batch' => \A n \in InBatch(mem, c) : Settled(n)'
      PROVE  Session'
  BY <1>1, <1>3, <1>4, <1>8 DEF Session, PhaseInv, Driving
<1>9. \A n \in Node : Settled(n) /\ (pc \in {"round", "gather"}) => Settled(n)'
  <2> SUFFICES ASSUME NEW n \in Node, Settled(n), pc \in {"round", "gather"}
               PROVE  row'[n] = row[n]
    BY DEF Settled
  <2>1. CASE Planning \/ UNCHANGED vars \/ Operator
    BY <2>1, OperatorFrame DEF Planning, vars, disk
  <2>2. CASE \E t \in Task : Commanding(t) \/ InsertRow(t)
    BY <2>2, CommandFrame DEF InsertRow, Settled, NamesInv
  <2>3. CASE \E r \in Reconciler :
               RecPlan(r) \/ RecLock(r) \/ RecInsert(r) \/ RecDone(r) \/ RecEnds(r)
    BY <2>3 DEF RecPlan, PlanDiff, RecLock, RecInsert, RecDone, RecEnds, disk,
                Settled, NamesInv
  <2>4. CASE \/ Resume \/ Reactivate \/ ResumeRefused \/ Prepare \/ Pause \/ FileRun
             \/ EngineCrash
    BY <2>4 DEF Resume, Reactivate, ResumeRefused, Prepare, Pause, FileRun, EngineCrash, disk
  <2>5. CASE NextBatch \/ Dispatch \/ RoundOver \/ Conclude
    BY <2>5 DEF NextBatch, Dispatch, RoundOver, Conclude
  <2>6. CASE Deadlocked \/ \E m \in Node : Attempt(m) \/ Settle(m)
    BY <2>6 DEF Deadlocked, Undrained, Attempt, Settle, Settled, NamesInv
  <2> QED
    BY <2>1, <2>2, <2>3, <2>4, <2>5, <2>6, StepCases
<1>10. CASE Planning \/ UNCHANGED vars \/ Operator
  <2>1. UNCHANGED <<mem, dir, rec, pc, runState, batch>>
    BY <1>10, OperatorFrame
       DEF Planning, vars, disk, engine, Operator, RequestPause, RemoveMarker,
           RemoveLock, EditPlan, Files
  <2> QED
    BY <1>2, <1>3, <1>4, <1>5, <1>9, <2>1 DEF Session
<1>11. CASE \E t \in Task : Inject(t)
  BY <1>11, MoveSteps DEF Moves, SoloInv
<1>12. CASE \E r \in Reconciler :
              RecPlan(r) \/ RecLock(r) \/ RecInsert(r) \/ RecDone(r) \/ RecEnds(r)
  <2>1. PICK r \in Reconciler :
          RecPlan(r) \/ RecLock(r) \/ RecInsert(r) \/ RecDone(r) \/ RecEnds(r)
    BY <1>12
  <2>2. CASE r = "cli"
    <3>1. /\ UNCHANGED <<mem, dir, pc, runState, batch>>
          /\ rec'["resume"] = rec["resume"]
      BY <2>1, <2>2
         DEF RecPlan, PlanDiff, RecLock, RecInsert, RecDone, RecEnds, Stop,
             NamesInv, engine, disk, Reconciler
    <3> QED
      BY <1>2, <1>3, <1>4, <1>5, <1>9, <3>1 DEF Session
  <2>3. CASE r = "resume" /\ RecPlan(r)
    <3>1. /\ pc' = "reconcile" /\ dir' = dir /\ Mergeable
          /\ rec'["resume"].graph = Rebuilt
      BY <2>3 DEF RecPlan, PlanDiff, MayReconcile, GatePasses, NamesInv, disk,
                  engine, Reconciler
    <3>2. Rebuilt.tasks = artefacts
      BY AllMerged DEF Rebuilt
    <3>3. ASSUME NEW t \in artefacts \cap WaveAdd PROVE place[t] \in Batch
      <4>1. place[t] # NewBatch
        BY <3>1, AllMerged DEF Mergeable
      <4>2. place[t] \in 0 .. NewBatch /\ place[t] # 0
        BY DEF PlacesInv, NamesInv, Called
      <4> QED
        BY <4>1, <4>2, BatchRange DEF Batch
    <3>4. Whole(Rebuilt)
      BY <3>2, <3>3 DEF Whole
    <3> QED
      BY <1>7, <3>1, <3>4
  <2>4. CASE r = "resume" /\ (RecLock(r) \/ RecInsert(r) \/ RecEnds(r))
    <3>1. /\ pc = "reconcile" /\ dir' = dir /\ rec["resume"].at # "idle"
          /\ \/ pc' = "down" /\ rec'["resume"].at = "idle"
             \/ pc' = pc /\ rec'["resume"].graph = g
      BY <2>4 DEF RecLock, RecInsert, RecEnds, Stop, Down, NoRec, NamesInv,
                  Reconciler, engine, disk, PhaseInv
    <3> QED
      BY <1>6, <1>7, <3>1 DEF Session
  <2>5. CASE r = "resume" /\ RecDone(r)
    <3>1. /\ rec["resume"].at # "idle" /\ pc' = "prepare" /\ dir' = dir
          /\ mem' = g /\ rec'["resume"].at = "idle"
      BY <2>5 DEF RecDone, NoRec, NamesInv, Reconciler
    <3> QED
      BY <1>1, <1>3, <3>1 DEF Session
  <2> QED
    BY <2>1, <2>2, <2>3, <2>4, <2>5 DEF Reconciler
<1>13. CASE Resume \/ Reactivate
  BY <1>13 DEF Resume, Reactivate
<1>14. CASE ResumeRefused
  BY <1>6, <1>14 DEF ResumeRefused, Stop, Down, NoRec, NamesInv, Reconciler, disk
<1>15. CASE Pause \/ EngineCrash
  <2>1. pc \in Driving \cup {"file"}
    BY <1>15 DEF Pause, EngineCrash, Driving
  <2> QED
    BY <1>6, <1>15, <2>1 DEF Pause, EngineCrash, Down, disk, PhaseInv, Driving
<1>16. CASE Prepare
  <2>1. pc = "prepare" /\ dir' = dir /\ rec' = rec /\ rec["resume"].at = "idle"
    BY <1>16 DEF Prepare, PhaseInv
  <2>2. CASE pc' = "down"
    BY <1>6, <2>1, <2>2
  <2>3. CASE pc' = "round" /\ batch' = 1 /\ mem' = mem
    <3>1. \A c \in Batch : ~ (c < 1)
      BY BatchRange DEF Batch
    <3> QED
      BY <1>8, <2>1, <2>3, <3>1 DEF Driving
  <2> QED
    BY <1>16, <2>2, <2>3 DEF Prepare, Down
<1>17. CASE NextBatch
  <2>1. /\ pc = "round" /\ pc' = pc /\ batch' = batch + 1 /\ row' = row /\ Undrained = {}
    BY <1>17 DEF NextBatch
  <2>2. UNCHANGED <<mem, dir, rec>>
    BY <1>17, DriveFrame DEF NextBatch
  <2>3. \A c \in Batch : c < batch' => c < batch \/ c = batch
    BY <2>1, BatchRange DEF Batch
  <2>4. \A n \in InBatch(mem, batch) : Settled(n)
    BY <2>1 DEF Undrained
  <2>5. \A c \in Batch : c < batch' => \A n \in InBatch(mem, c) : Settled(n)
    BY <2>1, <2>3, <2>4 DEF Session
  <2>6. \A n : Settled(n)' = Settled(n)
    BY <2>1 DEF Settled
  <2> QED
    BY <1>8, <2>1, <2>2, <2>5, <2>6 DEF Driving
<1>18. CASE Deadlocked \/ Dispatch \/ RoundOver \/ \E n \in Node : Attempt(n) \/ Settle(n)
  <2>1. /\ pc \in {"round", "gather"} /\ pc' \in {"round", "gather"} /\ batch' = batch
    BY <1>18 DEF Deadlocked, Dispatch, RoundOver, Attempt, Settle
  <2>2. UNCHANGED <<mem, dir, rec>>
    BY <1>18, DriveFrame DEF Deadlocked, Dispatch, RoundOver, Attempt, Settle
  <2> QED
    BY <1>5, <1>8, <1>9, <2>1, <2>2 DEF Session, Driving
<1>19. CASE Conclude
  <2>1. pc = "round" /\ pc' = "file"
    BY <1>19 DEF Conclude
  <2>2. UNCHANGED <<mem, dir, rec>>
    BY <1>19, DriveFrame DEF Conclude
  <2> QED
    BY <1>2, <1>8, <1>19, <2>1, <2>2, VerdictAllRun DEF Driving
<1>20. CASE FileRun
  <2>1. pc = "file" /\ pc' = "down" /\ runState' = runState /\ rec' = rec
    BY <1>20 DEF FileRun, Down
  <2>2. rec["resume"].at = "idle"
    BY <2>1 DEF PhaseInv
  <2> QED
    BY <1>2, <2>1, <2>2 DEF Session, Driving
<1> QED
  BY <1>10, <1>11, <1>12, <1>13, <1>14, <1>15, <1>16, <1>17, <1>18, <1>19, <1>20,
     StepCases, DecideSteps
     DEF Commanding, Inject

\* In plans whose batches do not list their waves, and when no hotfix follows
\* an injected lane, a run that is filed as done has run every wave that an
\* inject has added, also one whose command was killed or reported a failure.
THEOREM NothingForgotten ==
  ASSUME ~Labelled,
         \A s \in Settings : "overlap" \notin s.events => "chain" \notin s.events
  PROVE  Spec => []InjectedIsRun
<1> DEFINE Inv == /\ NamesInv /\ PhaseInv /\ SoloInv /\ WavesInv /\ RankInv
                  /\ PlacesInv /\ AnchorsInv /\ HotfixInv /\ SessionInv
<1>1. Init => Inv
  <2>1. Init => HotfixInv
    BY DEF Init, HotfixInv
  <2> QED
    BY <2>1, NamesInit, PhaseInit, SoloInit, WavesInit, RankInit, PlacesInit,
       AnchorsInit, SessionInit
<1>2. Inv /\ [Next]_vars => Inv'
  <2> SUFFICES ASSUME Inv, [Next]_vars PROVE Inv'
    OBVIOUS
  <2>1. PhaseInv' /\ batch' \in Batch /\ Alone' = Alone
    BY PhaseNext, BatchNext, CallCases DEF SessionInv, Alone, Env
  <2>2. SessionInv'
    <3>1. CASE Alone
      <4>1. "chain" \notin Env
        BY <3>1 DEF AnchorsInv, Alone, Env
      <4>2. Session
        BY <3>1 DEF SessionInv, Session
      <4>3. Session'
        BY <2>1, <3>1, <4>1, <4>2, SessionAtRest, SessionLive DEF SessionInv
      <4> QED
        BY <2>1, <4>3 DEF SessionInv, Session
    <3>2. CASE ~Alone
      BY <2>1, <3>2 DEF SessionInv
    <3> QED
      BY <3>1, <3>2
  <2> QED
    BY <2>1, <2>2, NamesNext, SoloNext, WavesNext, RankNext, PlacesNext,
       AnchorsNext, HotfixNext
<1>3. Inv => InjectedIsRun
  BY DEF SessionInv, InjectedIsRun, AllRun
<1> QED
  BY <1>1, <1>2, <1>3, PTL DEF Spec

-----------------------------------------------------------------------------
(* Types *)

\* The part of the type invariant that nothing else needs.
RestTypes ==
  /\ lock \in BOOLEAN /\ marker \in BOOLEAN /\ ghost \in BOOLEAN
  /\ dir \in {"processing", "filed"}
  /\ runState \in {"active", "paused", "done", "failed"}
  /\ pc \in {"down", "reconcile", "prepare", "round", "gather", "file"}
  /\ batch \in Batch
  /\ flight \subseteq Node

LEMMA RestNext == NamesInv /\ RestTypes /\ [Next]_vars => RestTypes'
<1> SUFFICES ASSUME NamesInv, RestTypes, [Next]_vars PROVE RestTypes'
  OBVIOUS
<1>0. batch' \in Batch
  BY BatchNext DEF RestTypes
<1> USE DEF RestTypes
<1>1. CASE Planning
  BY <1>1 DEF Planning, disk, engine
<1>2. ASSUME NEW t \in Task, Commanding(t) \/ InsertRow(t) PROVE RestTypes'
  BY <1>0, <1>2 DEF Commanding, Lock, WriteArtefact, Apply, CreateGhost, LoseDirectory, Kill,
     InsertRow, Advance, disk, engine
<1>3. ASSUME NEW r \in Reconciler,
             RecPlan(r) \/ RecLock(r) \/ RecInsert(r) \/ RecDone(r) \/ RecEnds(r)
      PROVE  RestTypes'
  BY <1>0, <1>3 DEF RecPlan, PlanDiff, RecLock, RecInsert, RecDone, RecEnds, Stop, Down, disk, engine
<1>4. CASE Resume \/ Reactivate \/ ResumeRefused \/ Prepare \/ Pause \/ FileRun \/ EngineCrash
  BY <1>0, <1>4 DEF Resume, Reactivate, ResumeRefused, Prepare, Pause, FileRun, EngineCrash, Stop,
     Down, disk
<1>5. CASE NextBatch \/ Deadlocked \/ RoundOver \/ Conclude \/ \E n \in Node : Attempt(n) \/ Settle(n)
  BY <1>0, <1>5 DEF NextBatch, Deadlocked, RoundOver, Conclude, Attempt, Settle, Drive
<1>6. CASE Dispatch
  <2>1. flight' \subseteq InBatch(mem, batch)
    BY <1>6 DEF Dispatch, Ready, Undrained
  <2>2. InBatch(mem, batch) \subseteq Node
    BY GraphNodes, BatchInGraph DEF NamesInv
  <2> QED
    BY <1>0, <1>6, <2>1, <2>2 DEF Dispatch, Drive
<1>7. CASE Operator
  BY <1>0, <1>7 DEF Operator, RequestPause, RemoveMarker, RemoveLock, EditPlan, Files, engine
<1>8. CASE UNCHANGED vars
  BY <1>8 DEF vars, disk, engine
<1> QED
  BY <1>1, <1>2, <1>3, <1>4, <1>5, <1>6, <1>7, <1>8, StepCases

\* Every variable keeps its type, whatever overlaps and is edited: what a session
\* has in flight are waves of the plan or of a call, and its batch is one of the
\* plan.
THEOREM TypeCorrect == Spec => []TypeOK
<1> DEFINE Inv == NamesInv /\ PlacesInv /\ RankInv /\ RestTypes
<1>1. Init => Inv
  <2> SUFFICES ASSUME Init PROVE RestTypes
    BY NamesInit, PlacesInit, RankInit
  <2>1. batch \in Batch
    BY BatchRange DEF Init, Batch
  <2> QED
    BY <2>1 DEF Init, RestTypes
<1>2. Inv /\ [Next]_vars => Inv'
  BY NamesNext, PlacesNext, RankNext, RestNext
<1>3. Inv => TypeOK
  <2> SUFFICES ASSUME Inv PROVE TypeOK
    OBVIOUS
  <2>1. batch \in 1 .. NewBatch
    BY BatchRange DEF RestTypes, Batch
  <2> QED
    BY <2>1 DEF NamesInv, PlacesInv, RankInv, RestTypes, TypeOK, Called
<1> QED
  BY <1>1, <1>2, <1>3, PTL DEF Spec
=============================================================================
