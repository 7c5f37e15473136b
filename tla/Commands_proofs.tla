-------------------------- MODULE Commands_proofs ---------------------------
(***************************************************************************)
(* Proofs about what operator commands leave on disk: the findings and     *)
(* rules of Knowledge, and the folders of the runs root (RunFolders).      *)
(***************************************************************************)
EXTENDS Knowledge, RunFolders, TLAPS

-----------------------------------------------------------------------------
(***************************************************************************)
(* Proofs about findings and rules, for any number of findings, pull       *)
(* requests, rules and waves, and for any interleaving of the commands.    *)
(***************************************************************************)

RuleStates == {"none", "proposed", "active", "retired"}

KnowledgeTypes ==
  /\ store \in [Finding -> FindingStates]
  /\ DOMAIN gate \subseteq Finding
  /\ rules \in [Rule -> RuleStates]

\* The steps that leave the findings alone, and those that leave the rules.
RuleStep ==
  \/ \E force \in BOOLEAN : Derive(force)
  \/ \E w \in Wave : WaveEnds(w)
  \/ \E r \in Rule : Promote(r) \/ Retire(r)

FindingStep ==
  \/ \E f \in Finding : Sync(PrOf[f])
  \/ GateReads \/ GateWrites \/ GateFails
  \/ \E f \in Finding, state \in Decided : Triage(f, state)
  \/ ExportAfterTriage \/ ExportLearnings \/ TriageDies

LEMMA StepKinds == [KNext]_kvars => RuleStep \/ FindingStep \/ UNCHANGED kvars
BY DEF KNext, RuleStep, FindingStep

LEMMA RuleFrame == RuleStep => UNCHANGED <<store, gate, exporting, withdrawn, torn>>
BY DEF RuleStep, Derive, WaveEnds, Promote, Retire

LEMMA FindingFrame == FindingStep => UNCHANGED rules
BY DEF FindingStep, Sync, GateReads, GateWrites, GateFails, Triage,
       ExportAfterTriage, ExportLearnings, TriageDies

LEMMA DecidedStates == Decided \subseteq FindingStates
BY DEF Decided, FindingStates

-----------------------------------------------------------------------------
(* Types *)

LEMMA TypesInit == KInit => KnowledgeTypes
BY DEF KInit, KnowledgeTypes, FindingStates, RuleStates, NoRows

LEMMA TypesNext == KnowledgeTypes /\ [KNext]_kvars => KnowledgeTypes'
<1> SUFFICES ASSUME KnowledgeTypes, [KNext]_kvars PROVE KnowledgeTypes'
  OBVIOUS
<1> USE DEF KnowledgeTypes
<1>1. CASE UNCHANGED kvars
  BY <1>1 DEF kvars
<1>2. CASE RuleStep
  <2>1. rules' \in [Rule -> RuleStates]
    <3>1. CASE \E force \in BOOLEAN : Derive(force)
      BY <3>1 DEF Derive, RuleStates
    <3>2. CASE \E w \in Wave : WaveEnds(w)
      BY <3>2 DEF WaveEnds, RuleStates
    <3>3. CASE \E r \in Rule : Promote(r) \/ Retire(r)
      BY <3>3 DEF Promote, Retire, RuleStates
    <3> QED
      BY <1>2, <3>1, <3>2, <3>3 DEF RuleStep
  <2> QED
    BY <1>2, <2>1, RuleFrame
<1>3. CASE FindingStep
  <2>1. rules' = rules
    BY <1>3, FindingFrame
  <2>2. CASE \E f \in Finding : Sync(PrOf[f])
    <3>1. PICK f \in Finding : Sync(PrOf[f])
      BY <2>2
    <3>2. PICK shown \in SUBSET Finding :
            \E fetched \in [shown -> {"open", "fixed", "deferred"}] :
              store' = [x \in Finding |-> IF x \in shown THEN fetched[x] ELSE store[x]]
      BY <3>1 DEF Sync
    <3>3. store' \in [Finding -> FindingStates]
      BY <3>2 DEF FindingStates, Decided
    <3> QED
      BY <2>1, <3>1, <3>3 DEF Sync
  <2>3. CASE GateReads
    BY <2>1, <2>3 DEF GateReads
  <2>4. CASE GateWrites
    BY <2>1, <2>4 DEF GateWrites, NoRows
  <2>5. CASE GateFails
    BY <2>1, <2>5 DEF GateFails, NoRows
  <2>6. CASE \E f \in Finding, state \in Decided : Triage(f, state)
    BY <2>1, <2>6, DecidedStates DEF Triage
  <2>7. CASE ExportAfterTriage \/ ExportLearnings \/ TriageDies
    BY <2>1, <2>7 DEF ExportAfterTriage, ExportLearnings, TriageDies
  <2> QED
    BY <1>3, <2>2, <2>3, <2>4, <2>5, <2>6, <2>7 DEF FindingStep
<1> QED
  BY <1>1, <1>2, <1>3, StepKinds

THEOREM TypeCorrect == KSpec => []KnowledgeTypes
<1> QED
  BY TypesInit, TypesNext, PTL DEF KSpec

-----------------------------------------------------------------------------
(* The gate and the operator *)

\* A verdict leaves a decided finding as it was read.
LEMMA DecidedKept ==
  ASSUME NEW state \in Decided, NEW judged \in Verdicts(state)
  PROVE  judged = state
BY DEF Verdicts

LEMMA GateStep ==
  ASSUME KnowledgeTypes, [KNext]_kvars, gate # NoRows, gate' = NoRows,
         NEW f \in DOMAIN gate, store[f] \in Decided, gate[f] = store[f]
  PROVE  store'[f] = store[f]
<1> USE DEF KnowledgeTypes
<1>1. CASE GateWrites
  <2>1. PICK judged \in [DOMAIN gate -> FindingStates] :
          /\ \A x \in DOMAIN gate : judged[x] \in Verdicts(gate[x])
          /\ store' = [x \in Finding |->
                         IF x \in DOMAIN gate THEN judged[x] ELSE store[x]]
    BY <1>1 DEF GateWrites
  <2> QED
    BY <2>1, DecidedKept
<1>2. CASE GateFails
  BY <1>2 DEF GateFails
<1>3. CASE RuleStep \/ UNCHANGED kvars
  BY <1>3, RuleFrame DEF kvars
<1>4. CASE FindingStep /\ ~GateWrites /\ ~GateFails
  <2>1. gate' = gate
    BY <1>4 DEF FindingStep, Sync, GateReads, Triage, ExportAfterTriage,
                ExportLearnings, TriageDies
  <2> QED
    BY <2>1
<1> QED
  BY <1>1, <1>2, <1>3, <1>4, StepKinds

\* A gate run never undoes a decision it has read, whatever the language model
\* answers and whatever sync and triage do while it waits for the answer.
THEOREM TriageKept == KSpec => GateKeepsTriage
<1>1. KnowledgeTypes /\ [KNext]_kvars =>
        [(gate # NoRows /\ gate' = NoRows) =>
           \A f \in DOMAIN gate :
             (store[f] \in Decided /\ gate[f] = store[f])
               => store'[f] = store[f]]_kvars
  BY GateStep
<1> QED
  BY <1>1, TypeCorrect, PTL DEF KSpec, GateKeepsTriage

-----------------------------------------------------------------------------
(* Withdrawn findings *)

LEMMA WithdrawnInit == KInit => RejectedIsWithdrawn
BY DEF KInit, RejectedIsWithdrawn, Rejected

LEMMA WithdrawnNext ==
  KnowledgeTypes /\ RejectedIsWithdrawn /\ [KNext]_kvars => RejectedIsWithdrawn'
<1> SUFFICES ASSUME KnowledgeTypes, RejectedIsWithdrawn, [KNext]_kvars
             PROVE  RejectedIsWithdrawn'
  OBVIOUS
<1> USE DEF RejectedIsWithdrawn, Rejected
<1>1. CASE RuleStep \/ UNCHANGED kvars \/ GateReads \/ GateFails
  BY <1>1, RuleFrame DEF kvars, GateReads, GateFails
<1>2. CASE \E f \in Finding : Sync(PrOf[f])
  <2>1. PICK f \in Finding : Sync(PrOf[f])
    BY <1>2
  <2>2. PICK shown \in SUBSET Finding :
          \E fetched \in [shown -> {"open", "fixed", "deferred"}] :
            /\ store' = [x \in Finding |-> IF x \in shown THEN fetched[x] ELSE store[x]]
            /\ torn' = torn \ shown
            /\ UNCHANGED <<gate, exporting, withdrawn, rules>>
    BY <2>1 DEF Sync
  <2> QED
    BY <2>2
<1>3. CASE GateWrites
  <2>1. PICK judged \in [DOMAIN gate -> FindingStates] :
          /\ \A x \in DOMAIN gate : judged[x] \in Verdicts(gate[x])
          /\ store' = [x \in Finding |->
                         IF x \in DOMAIN gate THEN judged[x] ELSE store[x]]
    BY <1>3 DEF GateWrites
  <2>2. \A x \in DOMAIN gate : judged[x] = "rejected" => gate[x] = "rejected"
    BY <2>1 DEF Verdicts
  <2> QED
    BY <1>3, <2>1, <2>2 DEF GateWrites, KnowledgeTypes
<1>4. CASE \E f \in Finding, state \in Decided : Triage(f, state)
  BY <1>4 DEF Triage, KnowledgeTypes
<1>5. CASE ExportAfterTriage \/ ExportLearnings \/ TriageDies
  BY <1>5 DEF ExportAfterTriage, ExportLearnings, TriageDies
<1> QED
  BY <1>1, <1>2, <1>3, <1>4, <1>5, StepKinds DEF FindingStep

\* Every rejection that was not torn reaches the learnings file, in any
\* interleaving of sync, gate, triage and export.
THEOREM WithdrawalsListed == KSpec => []RejectedIsWithdrawn
<1>1. KInit => RejectedIsWithdrawn
  BY WithdrawnInit
<1>2. KnowledgeTypes /\ RejectedIsWithdrawn /\ [KNext]_kvars => RejectedIsWithdrawn'
  BY WithdrawnNext
<1> QED
  BY <1>1, <1>2, TypeCorrect, PTL DEF KSpec

-----------------------------------------------------------------------------
(* Active rules *)

LEMMA ActiveStep ==
  ASSUME KnowledgeTypes, [KNext]_kvars,
         NEW r \in Rule, rules[r] = "active", rules'[r] # "active"
  PROVE  Retire(r) \/ \E w \in Wave : Slug[w] = r /\ WaveEnds(w)
<1> USE DEF KnowledgeTypes
<1>1. ~UNCHANGED rules
  OBVIOUS
<1>2. RuleStep
  BY <1>1, StepKinds, FindingFrame DEF kvars
<1>3. ~\E force \in BOOLEAN : Derive(force)
  BY DEF Derive
<1>4. CASE \E q \in Rule : Promote(q) \/ Retire(q)
  BY <1>4 DEF Promote, Retire
<1>5. CASE \E w \in Wave : WaveEnds(w)
  <2>1. PICK w \in Wave : WaveEnds(w)
    BY <1>5
  <2>2. Slug[w] = r
    BY <2>1 DEF WaveEnds
  <2> QED
    BY <2>1, <2>2
<1> QED
  BY <1>2, <1>3, <1>4, <1>5 DEF RuleStep

\* An active rule is withdrawn from the briefs only by the operator or by a
\* post-mortem that proposes a rule of that name.
THEOREM ActiveRulesStay == KSpec => ActiveStays
<1>1. KnowledgeTypes /\ [KNext]_kvars =>
        [\A r \in Rule : (rules[r] = "active" /\ rules'[r] # "active") =>
           \/ Retire(r)
           \/ \E w \in Wave : Slug[w] = r /\ WaveEnds(w)]_kvars
  BY ActiveStep
<1> QED
  BY <1>1, TypeCorrect, PTL DEF KSpec, ActiveStays
-----------------------------------------------------------------------------
(* The folders of the runs root.                                           *)

Folders == {"processing", "processed", "failed"}
AtCopies == {"copy", "clean", "remove"}

ProcTypes ==
  /\ proc \in [Proc -> [step : Steps, set : Set, id : Id \cup {Nobody},
                        dir : Places, copied : SUBSET File]]
  /\ \A p \in Proc :
       /\ proc[p].step = "idle" => proc[p] = Idle
       /\ proc[p].step \in {"idle", "launch"} <=> proc[p].id = Nobody
       /\ proc[p].step \notin AtCopies => proc[p].copied = {}
       /\ proc[p].step \in AtCopies \cup {"check"} => proc[p].dir \in Folders

DirTypes ==
  /\ input \subseteq Set /\ holds \in [Set -> SUBSET File]
  /\ place \in [Id -> Places] /\ kept \in [Id -> SUBSET File]
  /\ slug \in [Id -> Set] /\ ghost \in [Id -> Places]
  /\ crossed \subseteq File /\ dropped \subseteq File
  /\ \A i \in Id : place[i] \in {"none", "gone"} => kept[i] = {}

LEMMA IdleType ==
  /\ Idle \in [step : Steps, set : Set, id : Id \cup {Nobody}, dir : Places, copied : SUBSET File]
  /\ Idle.step = "idle" /\ Idle.id = Nobody /\ Idle.copied = {} /\ Idle.dir = "none"
  /\ Idle.set \in Set /\ Nobody \notin Id
<1>1. SlugSet[CHOOSE s \in Set : TRUE] \in Set
  BY FoldersAssumption
<1> QED
  BY <1>1, FoldersAssumption DEF Idle, Steps, Places

\* A run that a command finds is in one of the three folders.
LEMMA OwnFacts ==
  ASSUME NEW i \in Id, Own(i)
  PROVE  Find(i) \in Folders /\ place[i] = Find(i)
BY DEF Own, Find, Folders

\* The three ways in which a step changes its process.
LEMMA BecomeFacts ==
  ASSUME ProcTypes, NEW p \in Proc, NEW s \in Steps, Become(p, s),
         s \notin {"idle", "launch"}, proc[p].step \notin {"idle", "launch"},
         s \notin AtCopies => proc[p].copied = {},
         s \in AtCopies \cup {"check"} => proc[p].dir \in Folders
  PROVE  /\ ProcTypes' /\ \A q \in Proc \ {p} : proc'[q] = proc[q]
         /\ proc'[p].step = s /\ proc'[p].id = proc[p].id /\ proc'[p].copied = proc[p].copied
         /\ proc'[p].set = proc[p].set /\ proc'[p].dir = proc[p].dir
<1>1. proc' = [proc EXCEPT ![p].step = s]
  BY DEF Become
<1>2. /\ \A q \in Proc \ {p} : proc'[q] = proc[q]
      /\ proc'[p] = [proc[p] EXCEPT !.step = s]
  BY <1>1 DEF ProcTypes
<1>3. proc'[p] \in [step : Steps, set : Set, id : Id \cup {Nobody}, dir : Places, copied : SUBSET File]
  BY <1>2 DEF ProcTypes
<1>4. /\ proc'[p].step = s /\ proc'[p].id = proc[p].id /\ proc'[p].copied = proc[p].copied
      /\ proc'[p].set = proc[p].set /\ proc'[p].dir = proc[p].dir
  BY <1>2 DEF ProcTypes
<1>5. proc' \in [Proc -> [step : Steps, set : Set, id : Id \cup {Nobody},
                          dir : Places, copied : SUBSET File]]
  BY <1>1, <1>3 DEF ProcTypes
<1> QED
  BY <1>2, <1>4, <1>5 DEF ProcTypes

LEMMA EnterFacts ==
  ASSUME ProcTypes, NEW p \in Proc,
         NEW r \in [step : Steps, set : Set, id : Id \cup {Nobody}, dir : Places, copied : SUBSET File],
         proc' = [proc EXCEPT ![p] = r],
         r.step = "idle" => r = Idle,
         r.step \in {"idle", "launch"} <=> r.id = Nobody,
         r.copied = {},
         r.step \in AtCopies \cup {"check"} => r.dir \in Folders
  PROVE  ProcTypes' /\ proc'[p] = r /\ \A q \in Proc \ {p} : proc'[q] = proc[q]
BY DEF ProcTypes

LEMMA ExitFacts ==
  ASSUME ProcTypes, NEW p \in Proc, Exit(p)
  PROVE  ProcTypes' /\ proc'[p] = Idle /\ \A q \in Proc \ {p} : proc'[q] = proc[q]
<1>1. ProcTypes' /\ proc'[p] = Idle /\ \A q \in Proc \ {p} : proc'[q] = proc[q]
  BY IdleType, EnterFacts DEF Exit, AtCopies
<1> QED
  BY <1>1

-----------------------------------------------------------------------------
(* The kinds of steps that a process can take.                             *)

OnRun == AtCopies \cup {"check"}
Others(p) == \A q \in Proc \ {p} : proc'[q] = proc[q]
Quiet == UNCHANGED <<holds, kept, slug, dropped>> /\ crossed \subseteq crossed'

\* p stays with its run, or with none.
Stays(p) ==
  /\ Quiet
  /\ proc'[p].id = proc[p].id /\ proc'[p].copied = proc[p].copied /\ proc'[p].step # "claim"
  /\ proc'[p].step \in OnRun =>
       /\ place' = place /\ proc[p].step \in OnRun
       /\ proc'[p].set = proc[p].set /\ proc'[p].dir = proc[p].dir
  /\ proc'[p].step \in {"check", "copy"} => proc[p].step \in {"check", "copy"}
  /\ \A i \in Id : place'[i] = place[i] \/ (Own(i) /\ (OthersOn(p, i) => kept[i] \subseteq crossed'))

\* p ends; a run that it had copied files of, and is still where it was, is
\* crossed.
Quits(p) ==
  /\ Quiet
  /\ proc'[p] = Idle
  /\ \A i \in Id : place'[i] = place[i] \/ proc[p].id = i
  /\ \A f \in proc[p].copied :
       Here(p) /\ f \in kept[proc[p].id] => f \in crossed'

\* p begins to work on i: a claim of a new id, or a command for a run.
Joins(p, i) ==
  /\ Quiet
  /\ proc[p].copied = {} /\ proc[p].id = Nobody /\ proc'[p].id = i /\ proc'[p].copied = {}
  /\ \/ /\ place[i] = "none" /\ ~OthersOn(p, i) /\ place' = place /\ proc'[p].step = "claim"
     \/ /\ Own(i) /\ (OthersOn(p, i) => kept[i] \subseteq crossed') /\ proc'[p].step # "claim"
        /\ proc'[p].step \in OnRun =>
             place' = place /\ proc'[p].dir = place[i]
        /\ proc'[p].step \in {"check", "copy"} => proc'[p].set = slug[i]
        /\ \A j \in Id \ {i} : place'[j] = place[j]

TakesSet(p) ==
  LET s == proc[p].set  i == proc[p].id IN
  /\ At(p, "claim") /\ proc[p].copied = {} /\ i \in Id
  /\ proc'[p].step = "seed" /\ proc'[p].id = i /\ proc'[p].copied = {}
  /\ place' = [place EXCEPT ![i] = "processing"] /\ kept' = [kept EXCEPT ![i] = holds[s]]
  /\ slug' = [slug EXCEPT ![i] = SlugSet[s]] /\ holds' = [holds EXCEPT ![s] = {}]
  /\ UNCHANGED <<crossed, dropped>>

Copies(p, f) ==
  LET s == proc[p].set  i == proc[p].id IN
  /\ At(p, "copy") /\ i \in Id /\ place[i] = proc[p].dir /\ f \in kept[i] \ proc[p].copied
  /\ holds' = [holds EXCEPT ![s] = @ \cup {f}]
  /\ proc'[p].step = "copy" /\ proc'[p].id = i /\ proc'[p].set = s /\ proc'[p].dir = proc[p].dir
  /\ proc'[p].copied = proc[p].copied \cup {f}
  /\ UNCHANGED <<place, kept, slug, crossed, dropped>>

DropsTarget(p) ==
  LET s == proc[p].set IN
  /\ At(p, "copy") /\ proc[p].copied = {} /\ proc'[p] = Idle
  /\ holds' = [holds EXCEPT ![s] = {}] /\ dropped' = dropped \cup holds[s]
  /\ UNCHANGED <<place, kept, slug, crossed>>

RemovesRun(p) ==
  LET i == proc[p].id IN
  /\ At(p, "remove") /\ i \in Id /\ place[i] = proc[p].dir /\ proc'[p] = Idle
  /\ place' = [place EXCEPT ![i] = "gone"] /\ kept' = [kept EXCEPT ![i] = {}]
  /\ slug' = [slug EXCEPT ![i] = Idle.set]
  /\ dropped' = dropped \cup (kept[i] \ proc[p].copied)
  /\ UNCHANGED <<holds, crossed>>

Kinds(p) ==
  \/ Stays(p) \/ Quits(p) \/ (\E i \in Id : Joins(p, i)) \/ TakesSet(p)
  \/ (\E f \in File : Copies(p, f)) \/ DropsTarget(p) \/ RemovesRun(p)

StepTypes(p) == ProcTypes' /\ DirTypes' /\ Others(p) /\ Kinds(p)

LEMMA LaunchKinds ==
  ASSUME ProcTypes, DirTypes, NEW p \in Proc,
         \/ \E s \in Set : Launch(p, s)
         \/ \E i \in Id : Claim(p, i)
         \/ ClaimFails(p) \/ Move(p)
  PROVE  StepTypes(p)
<1>1. ASSUME NEW s \in Set, Launch(p, s) PROVE StepTypes(p)
  <2> DEFINE r == [Idle EXCEPT !.step = "launch", !.set = s]
  <2>1. /\ proc[p] = Idle /\ proc' = [proc EXCEPT ![p] = r] 
        /\ UNCHANGED <<input, holds, place, kept, slug, ghost, crossed, dropped>>
    BY <1>1 DEF Launch, At, ProcTypes, inputVars, runVars, histVars
  <2>2. /\ r \in [step : Steps, set : Set, id : Id \cup {Nobody}, dir : Places, copied : SUBSET File]
        /\ r.step = "launch" /\ r.id = Nobody /\ r.copied = {}
    BY IdleType DEF Steps, Idle
  <2>3. ProcTypes' /\ proc'[p] = r /\ Others(p)
    BY <2>1, <2>2, EnterFacts DEF Others, AtCopies
  <2>4. Stays(p)
    BY <2>1, <2>2, <2>3, IdleType DEF Stays, Quiet, OnRun, AtCopies
  <2>5. DirTypes'
    BY <2>1 DEF DirTypes
  <2> QED
    BY <2>3, <2>4, <2>5 DEF StepTypes, Kinds
<1>2. ASSUME NEW i \in Id, Claim(p, i) PROVE StepTypes(p)
  <2>1. /\ proc[p].step = "launch" /\ place[i] = "none" /\ ~OthersOn(p, i)
        /\ proc' = [proc EXCEPT ![p].step = "claim", ![p].id = i]
        /\ UNCHANGED <<input, holds, place, kept, slug, ghost, crossed, dropped>>
    BY <1>2 DEF Claim, At, inputVars, runVars, histVars
  <2> DEFINE r == [proc[p] EXCEPT !.step = "claim", !.id = i]
  <2>2. proc' = [proc EXCEPT ![p] = r] /\ proc[p].copied = {} /\ proc[p].id = Nobody
    BY <2>1 DEF ProcTypes, AtCopies
  <2>3. /\ r \in [step : Steps, set : Set, id : Id \cup {Nobody}, dir : Places, copied : SUBSET File]
        /\ r.step = "claim" /\ r.id = i /\ r.copied = {} /\ i # Nobody
    BY <2>2, IdleType DEF Steps, ProcTypes
  <2>4. ProcTypes' /\ proc'[p] = r /\ Others(p)
    BY <2>2, <2>3, EnterFacts DEF Others, AtCopies
  <2>5. Joins(p, i)
    BY <2>1, <2>2, <2>3, <2>4 DEF Joins, Quiet
  <2>6. DirTypes'
    BY <2>1 DEF DirTypes
  <2> QED
    BY <2>4, <2>5, <2>6 DEF StepTypes, Kinds
<1>3. CASE Exit(p) /\ proc[p].copied = {} /\ UNCHANGED <<input, holds, place, kept, slug, ghost, crossed, dropped>>
  <2>1. ProcTypes' /\ proc'[p] = Idle /\ Others(p)
    BY <1>3, ExitFacts DEF Others
  <2>2. Quits(p)
    BY <1>3, <2>1 DEF Quits, Quiet
  <2>3. DirTypes'
    BY <1>3 DEF DirTypes
  <2> QED
    BY <2>1, <2>2, <2>3 DEF StepTypes, Kinds
<1>4. CASE ClaimFails(p)
  BY <1>3, <1>4 DEF ClaimFails, At, ProcTypes, AtCopies, inputVars, runVars, histVars
<1>5. CASE Move(p)
  <2> DEFINE s == proc[p].set  i == proc[p].id
  <2>1. proc[p].step = "claim" /\ proc[p].copied = {} /\ s \in Set /\ i \in Id
    BY <1>5 DEF Move, At, ProcTypes, AtCopies
  <2>2. CASE s \notin input
    BY <1>3, <1>5, <2>1, <2>2 DEF Move, inputVars, histVars
  <2>3. CASE s \in input
    <3>1. /\ place' = [place EXCEPT ![i] = "processing"]
          /\ kept' = [kept EXCEPT ![i] = holds[s]]
          /\ slug' = [slug EXCEPT ![i] = SlugSet[s]]
          /\ input' = input \ {s}
          /\ holds' = [holds EXCEPT ![s] = {}]
          /\ proc' = [proc EXCEPT ![p].step = "seed", ![p].set = Idle.set]
          /\ UNCHANGED <<ghost, crossed, dropped>>
      BY <1>5, <2>3 DEF Move, histVars
    <3> DEFINE r == [proc[p] EXCEPT !.step = "seed", !.set = Idle.set]
    <3>2. proc' = [proc EXCEPT ![p] = r]
      BY <3>1 DEF ProcTypes
    <3>3. /\ r \in [step : Steps, set : Set, id : Id \cup {Nobody}, dir : Places, copied : SUBSET File]
          /\ r.step = "seed" /\ r.id = i /\ r.copied = {} /\ i # Nobody
      BY <2>1, IdleType DEF Steps, ProcTypes
    <3>4. ProcTypes' /\ proc'[p] = r /\ Others(p)
      BY <3>2, <3>3, EnterFacts DEF Others, AtCopies
    <3>5. TakesSet(p)
      BY <2>1, <3>1, <3>3, <3>4 DEF TakesSet, At
    <3>6. DirTypes'
      <4>1. SlugSet[s] \in Set
        BY <2>1, FoldersAssumption
      <4>2. /\ place' \in [Id -> Places] /\ kept' \in [Id -> SUBSET File]
            /\ holds' \in [Set -> SUBSET File] /\ slug' \in [Id -> Set]
        BY <2>1, <3>1, <4>1 DEF DirTypes, Places
      <4>3. \A j \in Id : place'[j] \in {"none", "gone"} => kept'[j] = {}
        BY <3>1 DEF DirTypes
      <4> QED
        BY <3>1, <4>2, <4>3 DEF DirTypes
    <3> QED
      BY <3>4, <3>5, <3>6 DEF StepTypes, Kinds
  <2> QED
    BY <2>2, <2>3
<1> QED
  BY <1>1, <1>2, <1>4, <1>5

LEMMA EngineKinds ==
  ASSUME ProcTypes, DirTypes, NEW p \in Proc, EngineStep(p)
  PROVE  StepTypes(p)
<1> DEFINE i == proc[p].id
<1>1. /\ proc[p].step \in Engine /\ i \in Id /\ proc[p].copied = {}
      /\ UNCHANGED <<input, holds, kept, slug, crossed, dropped>>
  BY DEF EngineStep, Seed, Recreate, Pause, Asks, Conclude, FileRun, At, Engine, AtCopies, ProcTypes,
     inputVars, runVars, histVars
<1>2. CASE Exit(p) /\ place' = place /\ ghost' = ghost
  <2>1. ProcTypes' /\ proc'[p] = Idle /\ Others(p)
    BY <1>2, ExitFacts DEF Others
  <2>2. Quits(p)
    BY <1>1, <1>2, <2>1 DEF Quits, Quiet
  <2> QED
    BY <1>1, <1>2, <2>1, <2>2 DEF StepTypes, Kinds, DirTypes
<1>3. ASSUME NEW s \in {"drive", "file"}, Become(p, s), place' = place, ghost' = ghost
      PROVE  StepTypes(p)
  <2>1. /\ ProcTypes' /\ Others(p) /\ proc'[p].step = s
        /\ proc'[p].id = proc[p].id /\ proc'[p].copied = proc[p].copied
    BY <1>1, <1>3, BecomeFacts DEF Others, AtCopies, Engine, Steps
  <2>2. Stays(p)
    BY <1>1, <1>3, <2>1 DEF Stays, Quiet, OnRun, AtCopies
  <2> QED
    BY <1>1, <1>3, <2>1, <2>2 DEF StepTypes, Kinds, DirTypes
<1>4. CASE Seed(p) \/ Pause(p) \/ Conclude(p)
  BY <1>2, <1>3, <1>4 DEF Seed, Pause, Conclude, runVars
<1>5. CASE Recreate(p)
  <2>1. proc' = proc /\ place' = place /\ ghost' \in [Id -> Places]
    BY <1>5 DEF Recreate, DirTypes, Places
  <2>2. Stays(p)
    BY <1>1, <2>1 DEF Stays, Quiet, OnRun, AtCopies, Engine
  <2> QED
    BY <1>1, <1>5, <2>1, <2>2 DEF StepTypes, Kinds, DirTypes, ProcTypes, Others
<1>6. CASE FileRun(p)
  <2>1. Exit(p) /\ proc[p].step = "file"
    BY <1>6 DEF FileRun, At
  <2>2. /\ place' = place \/ \E f \in {"nested", "processed", "failed"} : place' = [place EXCEPT ![i] = f]
        /\ place' # place => place[i] = "processing"
        /\ ghost' = ghost \/ \E f \in {"none", "processed", "failed"} : ghost' = [ghost EXCEPT ![i] = f]
    BY <1>6 DEF FileRun, Target
  <2>3. ProcTypes' /\ proc'[p] = Idle /\ Others(p)
    BY <2>1, ExitFacts DEF Others
  <2>4. Quits(p)
    BY <1>1, <2>2, <2>3 DEF Quits, Quiet, DirTypes
  <2>5. place' \in [Id -> Places] /\ ghost' \in [Id -> Places]
    BY <2>2 DEF DirTypes, Places
  <2>6. \A j \in Id : place'[j] \in {"none", "gone"} => kept'[j] = {}
    BY <1>1, <2>2 DEF DirTypes
  <2> QED
    BY <1>1, <2>3, <2>4, <2>5, <2>6 DEF StepTypes, Kinds, DirTypes
<1> QED
  BY <1>4, <1>5, <1>6 DEF EngineStep

LEMMA CommandKinds ==
  ASSUME ProcTypes, DirTypes, NEW p \in Proc, NEW i \in Id,
         Resume(p, i) \/ Delete(p, i) \/ DeleteGhost(p, i) \/ Reset(p, i)
  PROVE  StepTypes(p)
<1>1. /\ proc[p] = Idle /\ proc[p].copied = {} /\ proc[p].id = Nobody
      /\ UNCHANGED <<input, holds, kept, slug, dropped>>
  BY IdleType DEF Resume, Delete, DeleteGhost, Reset, At, ProcTypes, inputVars, runVars
<1>2. /\ crossed \subseteq crossed' /\ crossed' \subseteq File
      /\ OthersOn(p, i) => kept[i] \subseteq crossed'
  BY DEF Resume, Delete, DeleteGhost, Reset, Cross, DirTypes
<1>3. CASE DeleteGhost(p, i)
  <2>1. proc' = proc /\ place' = place /\ ghost' \in [Id -> Places]
    BY <1>3 DEF DeleteGhost, DirTypes, Places
  <2>2. Stays(p)
    BY <1>1, <1>2, <2>1, IdleType DEF Stays, Quiet, OnRun, AtCopies
  <2> QED
    BY <1>1, <1>2, <2>1, <2>2 DEF StepTypes, Kinds, DirTypes, ProcTypes, Others
<1>4. CASE Resume(p, i)
  <2>1. /\ Own(i) /\ place' = [place EXCEPT ![i] = "processing"] /\ ghost' = ghost
        /\ \/ proc' = [proc EXCEPT ![p] = [Idle EXCEPT !.step = "drive", !.id = i]]
           \/ proc' = proc
    BY <1>4 DEF Resume
  <2>2. DirTypes'
    <3>1. place[i] \notin {"none", "gone"}
      BY <2>1, OwnFacts DEF Folders
    <3>2. place' \in [Id -> Places] /\ \A j \in Id : place'[j] \in {"none", "gone"} => kept'[j] = {}
      BY <1>1, <2>1 DEF DirTypes, Places
    <3> QED
      BY <1>1, <1>2, <2>1, <3>2 DEF DirTypes
  <2>3. CASE proc' = proc
    <3>1. Stays(p)
      BY <1>1, <1>2, <2>1, <2>3, IdleType DEF Stays, Quiet, OnRun, AtCopies, DirTypes
    <3> QED
      BY <2>2, <2>3, <3>1 DEF StepTypes, Kinds, ProcTypes, Others
  <2>4. CASE proc' # proc
    <3> DEFINE r == [Idle EXCEPT !.step = "drive", !.id = i]
    <3>1. /\ r \in [step : Steps, set : Set, id : Id \cup {Nobody}, dir : Places, copied : SUBSET File]
          /\ r.step = "drive" /\ r.id = i /\ r.copied = {} /\ i # Nobody
      BY IdleType DEF Steps, Idle
    <3>2. ProcTypes' /\ proc'[p] = r /\ Others(p)
      BY <2>1, <2>4, <3>1, EnterFacts DEF Others, AtCopies
    <3>3. Joins(p, i)
      BY <1>1, <1>2, <2>1, <3>1, <3>2 DEF Joins, Quiet, OnRun, AtCopies, DirTypes
    <3> QED
      BY <2>2, <3>2, <3>3 DEF StepTypes, Kinds
  <2> QED
    BY <2>3, <2>4
<1>5. ASSUME NEW r \in [step : Steps, set : Set, id : Id \cup {Nobody}, dir : Places, copied : SUBSET File],
             proc' = [proc EXCEPT ![p] = r], Own(i), place' = place, ghost' = ghost,
             r.step \in {"check", "clean"}, r.id = i, r.dir = Find(i), r.copied = {},
             r.step = "check" => r.set = slug[i]
      PROVE  StepTypes(p)
  <2>1. Find(i) \in Folders /\ place[i] = Find(i) /\ i # Nobody
    BY <1>5, OwnFacts, IdleType
  <2>2. ProcTypes' /\ proc'[p] = r /\ Others(p)
    <3>1. /\ r.step = "idle" => r = Idle
          /\ r.step \in {"idle", "launch"} <=> r.id = Nobody
          /\ r.step \in AtCopies \cup {"check"} => r.dir \in Folders
      BY <1>5, <2>1
    <3>2. ProcTypes' /\ proc'[p] = r /\ \A q \in Proc \ {p} : proc'[q] = proc[q]
      BY <1>5, <3>1, EnterFacts
    <3> QED
      BY <3>2 DEF Others
  <2>3. Joins(p, i)
    BY <1>1, <1>2, <1>5, <2>1, <2>2 DEF Joins, Quiet
  <2> QED
    BY <1>1, <1>2, <1>5, <2>2, <2>3 DEF StepTypes, Kinds, DirTypes
<1>6. CASE Delete(p, i)
  <2> DEFINE r == [Idle EXCEPT !.step = "clean", !.id = i, !.dir = Find(i)]
  <2>1. Own(i) /\ proc' = [proc EXCEPT ![p] = r] /\ place' = place /\ ghost' = ghost
    BY <1>6 DEF Delete, runVars
  <2>2. /\ r \in [step : Steps, set : Set, id : Id \cup {Nobody}, dir : Places, copied : SUBSET File]
        /\ r.step = "clean" /\ r.id = i /\ r.dir = Find(i) /\ r.copied = {}
    BY <2>1, OwnFacts, IdleType DEF Steps, Idle, Folders, Places
  <2> QED
    BY <1>5, <2>1, <2>2
<1>7. CASE Reset(p, i)
  <2> DEFINE r == [Idle EXCEPT !.step = "check", !.set = slug[i], !.id = i, !.dir = Find(i)]
  <2>1. Own(i) /\ proc' = [proc EXCEPT ![p] = r] /\ place' = place /\ ghost' = ghost
    BY <1>7 DEF Reset, runVars
  <2>2. slug[i] \in Set
    BY DEF DirTypes
  <2>3. /\ r \in [step : Steps, set : Set, id : Id \cup {Nobody}, dir : Places, copied : SUBSET File]
        /\ r.step = "check" /\ r.id = i /\ r.dir = Find(i) /\ r.copied = {} /\ r.set = slug[i]
    BY <2>1, <2>2, OwnFacts, IdleType DEF Steps, Idle, Folders, Places
  <2> QED
    BY <1>5, <2>1, <2>3
<1> QED
  BY <1>3, <1>4, <1>6, <1>7

LEMMA ResetKinds ==
  ASSUME ProcTypes, DirTypes, NEW p \in Proc, ResetStep(p) \/ Kill(p)
  PROVE  StepTypes(p)
<1> DEFINE i == proc[p].id  s == proc[p].set
<1>1. ResetStep(p) => proc[p].step \in OnRun /\ i \in Id /\ s \in Set /\ proc[p].dir \in Folders
  BY DEF ResetStep, TargetFound, Copy, CopyFails, Copied, Clean, Remove, At, OnRun, AtCopies, ProcTypes
<1>2. ASSUME NEW t \in AtCopies, Become(p, t), proc[p].step \in OnRun, input' \subseteq Set,
             t = "copy" => proc[p].step = "check",
             UNCHANGED <<holds, place, kept, slug, ghost, crossed, dropped>>
      PROVE  StepTypes(p)
  <2>1. /\ ProcTypes' /\ Others(p) /\ proc'[p].step = t
        /\ proc'[p].id = proc[p].id /\ proc'[p].copied = proc[p].copied
        /\ proc'[p].set = proc[p].set /\ proc'[p].dir = proc[p].dir
    BY <1>2, BecomeFacts DEF Others, OnRun, AtCopies, Steps, ProcTypes
  <2>2. Stays(p)
    BY <1>2, <2>1 DEF Stays, Quiet, OnRun, AtCopies
  <2> QED
    BY <1>2, <2>1, <2>2 DEF StepTypes, Kinds, DirTypes
<1>3. ASSUME Exit(p), crossed \subseteq crossed', crossed' \subseteq File, ghost' \in [Id -> Places],
             \A f \in proc[p].copied : Here(p) /\ f \in kept[i] => f \in crossed',
             UNCHANGED <<input, holds, place, kept, slug, dropped>>
      PROVE  StepTypes(p)
  <2>1. ProcTypes' /\ proc'[p] = Idle /\ Others(p)
    BY <1>3, ExitFacts DEF Others
  <2>2. Quits(p)
    BY <1>3, <2>1 DEF Quits, Quiet
  <2> QED
    BY <1>3, <2>1, <2>2 DEF StepTypes, Kinds, DirTypes
<1>4. CASE TargetFound(p)
  <2>1. /\ proc[p].step = "check" /\ proc[p].copied = {}
        /\ UNCHANGED <<holds, place, kept, slug, ghost, crossed, dropped>>
    BY <1>4 DEF TargetFound, At, ProcTypes, AtCopies, runVars, histVars
  <2>2. \/ Become(p, "copy") /\ input' = input \cup {s}
        \/ (Become(p, "clean") \/ Exit(p)) /\ input' = input
    BY <1>4 DEF TargetFound
  <2>3. input' \subseteq Set
    BY <1>1, <1>4, <2>2 DEF ResetStep, DirTypes
  <2> QED
    BY <1>2, <1>3, <2>1, <2>2, <2>3 DEF OnRun, AtCopies, DirTypes
<1>5. CASE Copy(p)
  <2>1. PICK f \in Visible(p) \ proc[p].copied :
          /\ holds' = [holds EXCEPT ![s] = @ \cup {f}]
          /\ proc' = [proc EXCEPT ![p].copied = @ \cup {f}]
    BY <1>5 DEF Copy
  <2>2. /\ proc[p].step = "copy" /\ UNCHANGED <<input, place, kept, led, slug, ghost, crossed, dropped>>
    BY <1>5 DEF Copy, At, runVars, histVars
  <2>3. place[i] = proc[p].dir /\ f \in kept[i] /\ f \in File /\ i \in Id /\ s \in Set
    BY <1>1, <1>5, <2>1 DEF ResetStep, Visible, Here, DirTypes
  <2> DEFINE r == [proc[p] EXCEPT !.copied = @ \cup {f}]
  <2>4. /\ r \in [step : Steps, set : Set, id : Id \cup {Nobody}, dir : Places, copied : SUBSET File]
        /\ r.step = "copy" /\ r.id = i /\ r.set = s /\ r.dir = proc[p].dir
        /\ r.copied = proc[p].copied \cup {f}
    BY <2>2, <2>3 DEF ProcTypes
  <2>5. proc' = [proc EXCEPT ![p] = r] /\ proc'[p] = r /\ Others(p)
    BY <2>1 DEF ProcTypes, Others
  <2>6. ProcTypes'
    <3>1. proc' \in [Proc -> [step : Steps, set : Set, id : Id \cup {Nobody},
                             dir : Places, copied : SUBSET File]]
      BY <2>4, <2>5 DEF ProcTypes
    <3>2. \A q \in Proc \ {p} : proc'[q] = proc[q]
      BY <2>5 DEF Others
    <3>3. /\ proc'[p].step = "copy" /\ proc'[p].id \in Id /\ Nobody \notin Id
          /\ proc'[p].dir \in Folders
      BY <1>1, <1>5, <2>3, <2>4, <2>5, IdleType DEF ResetStep
    <3> QED
      BY <3>1, <3>2, <3>3 DEF ProcTypes, AtCopies
  <2>7. holds' \in [Set -> SUBSET File]
    BY <2>1, <2>3 DEF DirTypes
  <2>8. Copies(p, f)
    BY <2>1, <2>2, <2>3, <2>4, <2>5 DEF Copies, At
  <2> QED
    BY <2>2, <2>3, <2>5, <2>6, <2>7, <2>8 DEF StepTypes, Kinds, DirTypes
<1>6. CASE CopyFails(p) \/ Kill(p)
  <2>1. Exit(p) /\ CutShort(p) /\ UNCHANGED <<input, holds, place, kept, slug, ghost, dropped>>
    BY <1>6 DEF CopyFails, Kill, inputVars, runVars
  <2>2. /\ crossed \subseteq crossed' /\ crossed' \subseteq File
        /\ \A f \in proc[p].copied : f \in kept[i] => f \in crossed'
    BY <2>1 DEF CutShort, DirTypes, ProcTypes
  <2> QED
    BY <1>3, <2>1, <2>2 DEF DirTypes
<1>7. CASE Copied(p)
  <2>1. /\ proc[p].step = "copy" /\ UNCHANGED <<place, kept, slug, ghost, crossed>>
        /\ i \in Id /\ s \in Set
    BY <1>1, <1>7 DEF ResetStep, Copied, At, runVars
  <2>2. CASE proc[p].copied # {}
    BY <1>2, <1>7, <2>1, <2>2 DEF Copied, OnRun, AtCopies, inputVars, DirTypes
  <2>3. CASE proc[p].copied = {}
    <3>1. /\ input' = input \ {s} /\ holds' = [holds EXCEPT ![s] = {}]
          /\ dropped' = dropped \cup holds[s] /\ Exit(p)
      BY <1>7, <2>3 DEF Copied
    <3>2. ProcTypes' /\ proc'[p] = Idle /\ Others(p)
      BY <3>1, ExitFacts DEF Others
    <3>3. DropsTarget(p)
      BY <2>1, <2>3, <3>1, <3>2 DEF DropsTarget, At
    <3> QED
      BY <2>1, <3>1, <3>2, <3>3 DEF StepTypes, Kinds, DirTypes
  <2> QED
    BY <2>2, <2>3
<1>8. CASE Clean(p)
  <2>1. proc[p].step = "clean" /\ Become(p, "remove") /\ UNCHANGED <<input, holds, place, kept, slug, ghost, crossed, dropped>>
    BY <1>8 DEF Clean, At, inputVars, histVars
  <2> QED
    BY <1>2, <2>1 DEF OnRun, AtCopies, DirTypes
<1>9. CASE Remove(p)
  <2>1. /\ proc[p].step = "remove" /\ Exit(p) /\ UNCHANGED <<input, holds, crossed>>
        /\ i \in Id
    BY <1>1, <1>9 DEF ResetStep, Remove, At, inputVars
  <2>2. CASE Here(p)
    <3>1. /\ place' = [place EXCEPT ![i] = "gone"] /\ kept' = [kept EXCEPT ![i] = {}]
          /\ slug' = [slug EXCEPT ![i] = Idle.set]
          /\ dropped' = dropped \cup (kept[i] \ proc[p].copied) /\ ghost' = ghost
      BY <1>9, <2>2 DEF Remove
    <3>2. ProcTypes' /\ proc'[p] = Idle /\ Others(p)
      BY <2>1, ExitFacts DEF Others
    <3>3. RemovesRun(p)
      BY <2>1, <2>2, <3>1, <3>2 DEF RemovesRun, At, Here
    <3>4. /\ place' \in [Id -> Places] /\ kept' \in [Id -> SUBSET File] /\ slug' \in [Id -> Set]
          /\ dropped' \subseteq File
      BY <2>1, <3>1, IdleType DEF DirTypes, Places
    <3>5. \A j \in Id : place'[j] \in {"none", "gone"} => kept'[j] = {}
      BY <2>1, <3>1 DEF DirTypes
    <3> QED
      BY <2>1, <3>1, <3>2, <3>3, <3>4, <3>5 DEF StepTypes, Kinds, DirTypes
  <2>3. CASE ~Here(p)
    <3>1. UNCHANGED <<place, kept, slug, dropped>> /\ ghost' \in [Id -> Places]
      BY <1>9, <2>3 DEF Remove, DirTypes, Places
    <3> QED
      BY <1>3, <2>1, <2>3, <3>1 DEF DirTypes
  <2> QED
    BY <2>2, <2>3
<1> QED
  BY <1>4, <1>5, <1>6, <1>7, <1>8, <1>9 DEF ResetStep

LEMMA AllKinds ==
  ASSUME ProcTypes, DirTypes, NEW p \in Proc, ProcStep(p)
  PROVE  StepTypes(p)
BY LaunchKinds, EngineKinds, CommandKinds, ResetKinds DEF ProcStep

-----------------------------------------------------------------------------
(* Who is at work on a run.                                                *)

\* Two processes on one run have crossed, and a claimed id has one; a command
\* for a run that somebody else has moved since has crossed too.
WorkInv ==
  /\ \A p, q \in Proc :
       p # q /\ proc[p].id = proc[q].id /\ proc[p].id \in Id =>
         kept[proc[p].id] \subseteq crossed /\ proc[p].step # "claim"
  /\ \A p \in Proc : proc[p].step = "claim" => place[proc[p].id] = "none"
  /\ \A p \in Proc :
       proc[p].step \in OnRun /\ place[proc[p].id] # proc[p].dir =>
         kept[proc[p].id] \subseteq crossed

LEMMA IdOf ==
  ASSUME ProcTypes, NEW p \in Proc, proc[p].step \notin {"idle", "launch"}
  PROVE  proc[p].id \in Id
BY DEF ProcTypes

LEMMA WorkNext ==
  ASSUME ProcTypes, DirTypes, WorkInv, NEW p \in Proc, StepTypes(p)
  PROVE  WorkInv'
<1> USE DEF WorkInv
<1>1. /\ ProcTypes' /\ Kinds(p) /\ \A q \in Proc \ {p} : proc'[q] = proc[q]
  BY DEF StepTypes, Others
<1>2. \A q \in Proc : proc[q].step \in OnRun \cup {"claim"} => proc[q].id \in Id
  BY IdOf DEF OnRun, AtCopies
<1>3. \A i \in Id : Own(i) => place[i] # "none"
  BY OwnFacts DEF Folders
<1>4. CASE Stays(p)
  <2>1. /\ \A q \in Proc : proc'[q].id = proc[q].id
        /\ \A q \in Proc : proc'[q].step = "claim" => proc[q].step = "claim" /\ q # p
    BY <1>1, <1>4 DEF Stays
  <2>2. \A q, r \in Proc :
          q # r /\ proc'[q].id = proc'[r].id /\ proc'[q].id \in Id =>
            kept'[proc'[q].id] \subseteq crossed' /\ proc'[q].step # "claim"
    BY <1>4, <2>1 DEF Stays, Quiet
  <2>3. ASSUME NEW q \in Proc, proc'[q].step = "claim" PROVE place'[proc'[q].id] = "none"
    BY <1>1, <1>2, <1>3, <1>4, <2>1, <2>3 DEF Stays
  <2>4. ASSUME NEW q \in Proc, proc'[q].step \in OnRun, place'[proc'[q].id] # proc'[q].dir
        PROVE  kept'[proc'[q].id] \subseteq crossed'
    <3>1. CASE q = p
      BY <1>4, <2>4, <3>1 DEF Stays, Quiet
    <3>2. CASE q # p
      <4> DEFINE i == proc[q].id
      <4>1. proc'[q] = proc[q] /\ i \in Id
        BY <1>1, <1>2, <2>4, <3>2
      <4>2. CASE place'[i] = place[i]
        BY <1>4, <2>4, <4>1, <4>2 DEF Stays, Quiet
      <4>3. CASE Own(i) /\ (OthersOn(p, i) => kept[i] \subseteq crossed')
        <5>1. OthersOn(p, i)
          BY <3>2 DEF OthersOn
        <5> QED
          BY <1>4, <4>1, <4>3, <5>1 DEF Stays, Quiet
      <4> QED
        BY <1>4, <4>1, <4>2, <4>3 DEF Stays
    <3> QED
      BY <3>1, <3>2
  <2> QED
    BY <2>2, <2>3, <2>4
<1>5. CASE Quits(p)
  <2>1. proc'[p].step = "idle" /\ proc'[p].id \notin Id
    BY <1>5, IdleType DEF Quits
  <2>2. \A q, r \in Proc :
          q # r /\ proc'[q].id = proc'[r].id /\ proc'[q].id \in Id =>
            kept'[proc'[q].id] \subseteq crossed' /\ proc'[q].step # "claim"
    BY <1>1, <1>5, <2>1 DEF Quits, Quiet
  <2>3. ASSUME NEW q \in Proc, proc'[q].step = "claim" PROVE place'[proc'[q].id] = "none"
    <3>1. q # p /\ proc'[q] = proc[q] /\ proc[q].id \in Id /\ proc[p].id # proc[q].id
      BY <1>1, <1>2, <2>1, <2>3
    <3> QED
      BY <1>5, <2>3, <3>1 DEF Quits
  <2>4. ASSUME NEW q \in Proc, proc'[q].step \in OnRun, place'[proc'[q].id] # proc'[q].dir
        PROVE  kept'[proc'[q].id] \subseteq crossed'
    <3>1. q # p /\ proc'[q] = proc[q] /\ proc[q].id \in Id
      BY <1>1, <1>2, <2>1, <2>4 DEF OnRun, AtCopies
    <3>2. kept[proc[q].id] \subseteq crossed
      BY <1>5, <2>4, <3>1 DEF Quits
    <3> QED
      BY <1>5, <3>1, <3>2 DEF Quits, Quiet
  <2> QED
    BY <2>2, <2>3, <2>4
<1>6. ASSUME NEW i \in Id, Joins(p, i) PROVE WorkInv'
  <2>1. /\ kept' = kept /\ crossed \subseteq crossed' /\ proc'[p].id = i
        /\ \A q \in Proc \ {p} : proc[q].id = i => OthersOn(p, i)
    BY <1>6 DEF Joins, Quiet, OthersOn
  <2>2. CASE place[i] = "none" /\ ~OthersOn(p, i) /\ place' = place /\ proc'[p].step = "claim"
    <3>1. \A q \in Proc \ {p} : proc'[q] = proc[q] /\ proc[q].id # i
      BY <1>1, <2>1, <2>2
    <3>2. proc'[p].step \notin OnRun
      BY <2>2 DEF OnRun, AtCopies
    <3> QED
      BY <2>1, <2>2, <3>1, <3>2
  <2>3. CASE /\ Own(i) /\ (OthersOn(p, i) => kept[i] \subseteq crossed') /\ proc'[p].step # "claim"
             /\ proc'[p].step \in OnRun => place' = place /\ proc'[p].dir = place[i]
             /\ \A j \in Id \ {i} : place'[j] = place[j]
    <3>1. \A q \in Proc \ {p} : proc'[q] = proc[q] /\ (proc[q].step = "claim" => proc[q].id # i)
      BY <1>1, <1>3, <2>3
    <3>2. \A q, r \in Proc :
            q # r /\ proc'[q].id = proc'[r].id /\ proc'[q].id \in Id =>
              kept'[proc'[q].id] \subseteq crossed' /\ proc'[q].step # "claim"
      <4> SUFFICES ASSUME NEW q \in Proc, NEW r \in Proc, q # r, proc'[q].id = proc'[r].id,
                          proc'[q].id \in Id
                   PROVE  kept'[proc'[q].id] \subseteq crossed' /\ proc'[q].step # "claim"
        OBVIOUS
      <4>1. CASE q = p
        BY <2>1, <2>3, <3>1, <4>1
      <4>2. CASE r = p
        BY <2>1, <2>3, <3>1, <4>2
      <4>3. CASE q # p /\ r # p
        BY <2>1, <3>1, <4>3
      <4> QED
        BY <4>1, <4>2, <4>3
    <3>3. \A q \in Proc : proc'[q].step = "claim" => place'[proc'[q].id] = "none"
      BY <1>2, <2>3, <3>1
    <3>4. ASSUME NEW q \in Proc, proc'[q].step \in OnRun, place'[proc'[q].id] # proc'[q].dir
          PROVE  kept'[proc'[q].id] \subseteq crossed'
      <4>1. q # p /\ proc'[q] = proc[q] /\ proc[q].id \in Id
        BY <1>2, <2>1, <2>3, <3>1, <3>4
      <4>2. CASE proc[q].id = i
        BY <2>1, <2>3, <4>1, <4>2
      <4>3. CASE proc[q].id # i
        BY <2>1, <2>3, <3>4, <4>1, <4>3
      <4> QED
        BY <4>2, <4>3
    <3> QED
      BY <3>2, <3>3, <3>4
  <2> QED
    BY <1>6, <2>2, <2>3 DEF Joins
<1>7. CASE TakesSet(p)
  <2> DEFINE i == proc[p].id
  <2>1. /\ proc[p].step = "claim" /\ i \in Id /\ proc'[p].id = i /\ proc'[p].step = "seed"
        /\ crossed' = crossed
        /\ \A j \in Id \ {i} : place'[j] = place[j] /\ kept'[j] = kept[j]
    BY <1>7 DEF TakesSet, At, DirTypes
  <2>2. \A q \in Proc \ {p} : proc'[q] = proc[q] /\ proc[q].id # i
    BY <1>1, <2>1
  <2>3. proc'[p].step \notin OnRun
    BY <2>1 DEF OnRun, AtCopies
  <2> QED
    BY <1>2, <2>1, <2>2, <2>3
<1>8. ASSUME NEW f \in File, Copies(p, f) PROVE WorkInv'
  <2>1. /\ proc[p].step = "copy" /\ proc'[p].step = "copy" /\ proc'[p].id = proc[p].id
        /\ proc'[p].dir = proc[p].dir /\ UNCHANGED <<place, kept, crossed>>
    BY <1>8 DEF Copies, At
  <2> QED
    BY <1>1, <2>1 DEF OnRun, AtCopies
<1>9. CASE DropsTarget(p)
  <2>1. proc'[p].step = "idle" /\ proc'[p].id \notin Id /\ UNCHANGED <<place, kept, crossed>>
    BY <1>9, IdleType DEF DropsTarget
  <2> QED
    BY <1>1, <2>1 DEF OnRun, AtCopies
<1>10. CASE RemovesRun(p)
  <2> DEFINE i == proc[p].id
  <2>1. /\ i \in Id /\ proc'[p].step = "idle" /\ proc'[p].id \notin Id /\ crossed' = crossed
        /\ kept'[i] = {} /\ \A j \in Id \ {i} : place'[j] = place[j] /\ kept'[j] = kept[j]
    BY <1>10, IdleType DEF RemovesRun, DirTypes
  <2>2. \A q \in Proc \ {p} : proc'[q] = proc[q] /\ (proc[q].step = "claim" => proc[q].id # i)
    BY <1>1, <2>1
  <2>3. \A q, r \in Proc :
          q # r /\ proc'[q].id = proc'[r].id /\ proc'[q].id \in Id =>
            kept'[proc'[q].id] \subseteq crossed' /\ proc'[q].step # "claim"
    BY <2>1, <2>2
  <2>4. \A q \in Proc : proc'[q].step = "claim" => place'[proc'[q].id] = "none"
    BY <1>2, <2>1, <2>2
  <2>5. ASSUME NEW q \in Proc, proc'[q].step \in OnRun, place'[proc'[q].id] # proc'[q].dir
        PROVE  kept'[proc'[q].id] \subseteq crossed'
    <3>1. q # p /\ proc'[q] = proc[q] /\ proc[q].id \in Id
      BY <1>2, <2>1, <2>2, <2>5 DEF OnRun, AtCopies
    <3> QED
      BY <2>1, <2>5, <3>1
  <2> QED
    BY <2>3, <2>4, <2>5
<1> QED
  BY <1>1, <1>4, <1>5, <1>6, <1>7, <1>8, <1>9, <1>10 DEF Kinds

-----------------------------------------------------------------------------
(* Where a plan file can be.                                               *)

\* A file lies in input/ under its own set's name or under the slug's, and
\* under one name only; a run knows by its slug where its files come from.
SourceInv ==
  /\ \A s \in Set : \A f \in holds[s] :
       \E t \in Set : f \in Contents[t] /\ s \in {t, SlugSet[t]}
  /\ \A i \in Id : \A f \in kept[i] :
       \E t \in Set : f \in Contents[t] /\ slug[i] = SlugSet[t]
  /\ \A s, t \in Set : s # t => holds[s] \cap holds[t] = {}
  /\ \A s \in Set : SlugSet[s] # s => \A i \in Id : holds[s] \cap kept[i] = {}
  /\ \A p \in Proc :
       proc[p].step \in {"check", "copy"} =>
         kept[proc[p].id] = {} \/ proc[p].set = slug[proc[p].id]

\* The steps that move no file: what a process restores, it restores to the set
\* of its run.
LEMMA SourceQuiet ==
  ASSUME ProcTypes, WorkInv, SourceInv, NEW p \in Proc, StepTypes(p),
         Stays(p) \/ Quits(p) \/ \E i \in Id : Joins(p, i)
  PROVE  SourceInv'
<1>1. UNCHANGED <<holds, kept, slug>>
  BY DEF Stays, Quits, Joins, Quiet
<1>2. ASSUME NEW q \in Proc, proc'[q].step \in {"check", "copy"}
      PROVE  kept'[proc'[q].id] = {} \/ proc'[q].set = slug'[proc'[q].id]
  <2>1. CASE q # p
    BY <1>1, <1>2, <2>1 DEF SourceInv, StepTypes, Others
  <2>2. CASE q = p
    <3>1. CASE Stays(p)
      BY <1>1, <1>2, <2>2, <3>1 DEF SourceInv, Stays, OnRun, AtCopies
    <3>2. CASE Quits(p)
      BY <1>2, <2>2, <3>2, IdleType DEF Quits
    <3>3. CASE \E i \in Id : Joins(p, i)
      BY <1>1, <1>2, <2>2, <3>3 DEF Joins
    <3> QED
      BY <3>1, <3>2, <3>3
  <2> QED
    BY <2>1, <2>2
<1> QED
  BY <1>1, <1>2 DEF SourceInv

\* The only other set that a file can lie under has the slug for a name.
LEMMA HomeIsOne ==
  ASSUME SourceInv, NEW s \in Set, NEW t \in Set, NEW f \in Contents[t], f \in holds[s]
  PROVE  s \in {t, SlugSet[t]}
BY FoldersAssumption DEF SourceInv

LEMMA SourceTakes ==
  ASSUME ProcTypes, DirTypes, WorkInv, SourceInv, NEW p \in Proc, StepTypes(p), TakesSet(p)
  PROVE  SourceInv'
<1> DEFINE s == proc[p].set  i == proc[p].id
<1>1. /\ s \in Set /\ i \in Id /\ proc[p].step = "claim" /\ proc'[p].step = "seed"
      /\ kept' = [kept EXCEPT ![i] = holds[s]]
      /\ slug' = [slug EXCEPT ![i] = SlugSet[s]] /\ holds' = [holds EXCEPT ![s] = {}]
  BY DEF TakesSet, At, ProcTypes
<1>2. /\ kept'[i] = holds[s] /\ slug'[i] = SlugSet[s] /\ holds'[s] = {}
      /\ \A j \in Id \ {i} : kept'[j] = kept[j] /\ slug'[j] = slug[j]
      /\ \A t \in Set \ {s} : holds'[t] = holds[t]
  BY <1>1 DEF DirTypes
<1>3. \A t \in Set : \A f \in holds'[t] : \E u \in Set : f \in Contents[u] /\ t \in {u, SlugSet[u]}
  BY <1>2 DEF SourceInv
<1>4. \A j \in Id : \A f \in kept'[j] : \E u \in Set : f \in Contents[u] /\ slug'[j] = SlugSet[u]
  <2>1. \A f \in holds[s] : \E u \in Set : f \in Contents[u] /\ SlugSet[s] = SlugSet[u]
    BY <1>1, FoldersAssumption DEF SourceInv
  <2>2. \A j \in Id \ {i} : \A f \in kept[j] : \E u \in Set : f \in Contents[u] /\ slug[j] = SlugSet[u]
    BY DEF SourceInv
  <2> QED
    BY <1>2, <2>1, <2>2
<1>5. \A t, u \in Set : t # u => holds'[t] \cap holds'[u] = {}
  BY <1>2 DEF SourceInv
<1>6. ASSUME NEW t \in Set, SlugSet[t] # t, NEW j \in Id PROVE holds'[t] \cap kept'[j] = {}
  <2>1. CASE t = s
    BY <1>2, <2>1
  <2>2. CASE t # s /\ j = i
    BY <1>1, <1>2, <2>2 DEF SourceInv
  <2>3. CASE t # s /\ j # i
    BY <1>2, <1>6, <2>3 DEF SourceInv
  <2> QED
    BY <2>1, <2>2, <2>3
<1>7. ASSUME NEW q \in Proc, proc'[q].step \in {"check", "copy"}
      PROVE  kept'[proc'[q].id] = {} \/ proc'[q].set = slug'[proc'[q].id]
  <2>1. q # p /\ proc'[q] = proc[q]
    BY <1>1, <1>7 DEF StepTypes, Others
  <2>2. proc[q].id \in Id /\ proc[q].id # i
    <3>1. proc[q].id \in Id
      BY <1>7, <2>1, IdOf
    <3> QED
      BY <1>1, <2>1, <3>1 DEF WorkInv
  <2> QED
    BY <1>2, <1>7, <2>1, <2>2 DEF SourceInv
<1> QED
  BY <1>3, <1>4, <1>5, <1>6, <1>7 DEF SourceInv

LEMMA SourceCopies ==
  ASSUME ProcTypes, DirTypes, SourceInv, NEW p \in Proc, StepTypes(p), NEW f \in File, Copies(p, f)
  PROVE  SourceInv'
<1> DEFINE s == proc[p].set  i == proc[p].id
<1>1. /\ s \in Set /\ i \in Id /\ proc[p].step = "copy" /\ f \in kept[i] /\ s = slug[i]
      /\ holds' = [holds EXCEPT ![s] = @ \cup {f}] /\ UNCHANGED <<kept, slug>>
  BY DEF Copies, At, ProcTypes, SourceInv
<1>2. /\ holds'[s] = holds[s] \cup {f}
      /\ \A t \in Set \ {s} : holds'[t] = holds[t]
  BY <1>1 DEF DirTypes
<1>3. PICK h \in Set : f \in Contents[h] /\ s = SlugSet[h]
  BY <1>1 DEF SourceInv
<1>4. SlugSet[s] = s
  BY <1>3, FoldersAssumption
<1>5. \A t \in Set : \A g \in holds'[t] : \E u \in Set : g \in Contents[u] /\ t \in {u, SlugSet[u]}
  BY <1>2, <1>3 DEF SourceInv
<1>6. \A t \in Set \ {s} : f \notin holds[t]
  <2>1. SUFFICES ASSUME NEW t \in Set \ {s}, f \in holds[t] PROVE FALSE
    OBVIOUS
  <2>2. t = h
    BY <1>3, <2>1, HomeIsOne
  <2>3. SlugSet[t] # t
    BY <1>3, <2>1, <2>2
  <2> QED
    BY <1>1, <2>1, <2>3 DEF SourceInv
<1>7. \A t, u \in Set : t # u => holds'[t] \cap holds'[u] = {}
  BY <1>1, <1>2, <1>6 DEF SourceInv
<1>8. \A t \in Set : SlugSet[t] # t => \A j \in Id : holds'[t] \cap kept'[j] = {}
  BY <1>1, <1>2, <1>4 DEF SourceInv
<1>9. \A q \in Proc : proc'[q].step \in {"check", "copy"} =>
        kept'[proc'[q].id] = {} \/ proc'[q].set = slug'[proc'[q].id]
  <2>1. proc'[p].set = s /\ proc'[p].id = i
    BY DEF Copies
  <2> QED
    BY <1>1, <2>1 DEF SourceInv, StepTypes, Others
<1> QED
  BY <1>1, <1>5, <1>7, <1>8, <1>9 DEF SourceInv

LEMMA SourceDrops ==
  ASSUME ProcTypes, DirTypes, SourceInv, NEW p \in Proc, StepTypes(p),
         DropsTarget(p) \/ RemovesRun(p)
  PROVE  SourceInv'
<1>1. /\ holds' \in [Set -> SUBSET File] /\ \A s \in Set : holds'[s] \subseteq holds[s]
      /\ \A i \in Id : kept'[i] \subseteq kept[i]
      /\ \A i \in Id : kept'[i] = {} \/ slug'[i] = slug[i]
      /\ proc'[p].step = "idle"
  BY IdleType DEF DropsTarget, RemovesRun, DirTypes
<1>2. ASSUME NEW q \in Proc, proc'[q].step \in {"check", "copy"}
      PROVE  kept'[proc'[q].id] = {} \/ proc'[q].set = slug'[proc'[q].id]
  <2>1. q # p /\ proc'[q] = proc[q] /\ proc[q].id \in Id
    BY <1>1, <1>2, IdOf DEF StepTypes, Others
  <2>2. kept[proc[q].id] = {} \/ proc[q].set = slug[proc[q].id]
    BY <1>2, <2>1 DEF SourceInv
  <2> QED
    BY <1>1, <2>1, <2>2
<1>3. \A i \in Id : \A f \in kept'[i] : \E t \in Set : f \in Contents[t] /\ slug'[i] = SlugSet[t]
  <2>1. SUFFICES ASSUME NEW i \in Id, NEW f \in kept'[i]
                 PROVE  \E t \in Set : f \in Contents[t] /\ slug'[i] = SlugSet[t]
    OBVIOUS
  <2>2. f \in kept[i] /\ slug'[i] = slug[i]
    BY <1>1, <2>1
  <2> QED
    BY <2>2 DEF SourceInv
<1>4. \A s \in Set : \A f \in holds'[s] : \E t \in Set : f \in Contents[t] /\ s \in {t, SlugSet[t]}
  BY <1>1 DEF SourceInv
<1>5. \A s, t \in Set : s # t => holds'[s] \cap holds'[t] = {}
  BY <1>1 DEF SourceInv
<1>6. \A s \in Set : SlugSet[s] # s => \A i \in Id : holds'[s] \cap kept'[i] = {}
  BY <1>1 DEF SourceInv
<1> QED
  BY <1>2, <1>3, <1>4, <1>5, <1>6 DEF SourceInv

\* A process has copied f out of run i and is still at it.
CopiedOut(i, f) == \E r \in Proc : proc[r].id = i /\ f \in proc[r].copied

\* A plan file is in two places only while a reset is copying it, unless
\* somebody crossed its run.
CopyInv ==
  /\ \A i \in Id, s \in Set : \A f \in kept[i] \cap holds[s] : f \in crossed \/ CopiedOut(i, f)
  /\ \A i, k \in Id : i # k => \A f \in kept[i] \cap kept[k] :
       f \in crossed \/ CopiedOut(i, f) \/ CopiedOut(k, f)

\* A plan file of a run is safe there, or in input/, or in another run.
SafeInv ==
  \A i \in Id : \A f \in kept[i] :
    \/ f \in dropped
    \/ \E s \in Set : f \in holds[s]
    \/ \E j \in Id : f \in kept[j] /\ ~CopiedOut(j, f)

\* Only a reset that ends withdraws its copies, and what is left of its run then
\* is crossed; only a copy adds one.
LEMMA CopiedOutStep ==
  ASSUME ProcTypes, DirTypes, WorkInv, NEW p \in Proc, StepTypes(p)
  PROVE  /\ \A i \in Id, f \in File :
              CopiedOut(i, f) => \/ CopiedOut(i, f)'
                                 \/ f \in kept[i] => f \in crossed'
                                 \/ RemovesRun(p) /\ proc[p].id = i
         /\ \A i \in Id, f \in File :
              CopiedOut(i, f)' => CopiedOut(i, f) \/ (Copies(p, f) /\ proc[p].id = i)
<1>1. \A q \in Proc \ {p} : proc'[q] = proc[q]
  BY DEF StepTypes, Others
<1>2. ASSUME NEW i \in Id, NEW f \in File, CopiedOut(i, f), ~CopiedOut(i, f)', f \in kept[i],
             f \notin crossed', ~(RemovesRun(p) /\ proc[p].id = i)
      PROVE  FALSE
  <2>1. proc[p].id = i /\ f \in proc[p].copied /\ ~(proc'[p].id = i /\ f \in proc'[p].copied)
    BY <1>1, <1>2 DEF CopiedOut
  <2>2. Quits(p)
    <3>1. ~Stays(p) /\ ~TakesSet(p) /\ ~DropsTarget(p) /\ ~RemovesRun(p)
      BY <1>2, <2>1 DEF Stays, TakesSet, DropsTarget
    <3>2. \A j \in Id : ~Joins(p, j)
      BY <2>1 DEF Joins
    <3>3. \A g \in File : ~Copies(p, g)
      BY <2>1 DEF Copies
    <3> QED
      BY <3>1, <3>2, <3>3 DEF StepTypes, Kinds
  <2>3. f \notin crossed /\ place[i] # proc[p].dir
    BY <1>2, <2>1, <2>2 DEF Quits, Quiet, Here
  <2>4. proc[p].step \in OnRun
    BY <2>1 DEF ProcTypes, OnRun
  <2> QED
    BY <1>2, <2>1, <2>3, <2>4 DEF WorkInv
<1>3. ASSUME NEW i \in Id, NEW f \in File, CopiedOut(i, f)', ~CopiedOut(i, f)
      PROVE  Copies(p, f) /\ proc[p].id = i
  <2>1. proc'[p].id = i /\ f \in proc'[p].copied /\ ~(proc[p].id = i /\ f \in proc[p].copied)
    BY <1>1, <1>3 DEF CopiedOut
  <2>2. ~Stays(p) /\ ~Quits(p) /\ ~TakesSet(p) /\ ~DropsTarget(p) /\ ~RemovesRun(p)
    BY <2>1, IdleType DEF Stays, Quits, TakesSet, DropsTarget, RemovesRun
  <2>3. \A j \in Id : ~Joins(p, j)
    BY <2>1 DEF Joins
  <2>4. PICK g \in File : Copies(p, g)
    BY <2>2, <2>3 DEF StepTypes, Kinds
  <2>5. f = g /\ proc[p].id = i
    BY <2>1, <2>4 DEF Copies
  <2> QED
    BY <2>4, <2>5
<1> QED
  BY <1>2, <1>3

LEMMA CopyNext ==
  ASSUME ProcTypes, DirTypes, WorkInv, SourceInv, CopyInv, NEW p \in Proc, StepTypes(p)
  PROVE  CopyInv'
<1>1. CASE UNCHANGED <<holds, kept>> /\ crossed \subseteq crossed'
  BY <1>1, CopiedOutStep DEF CopyInv, DirTypes, RemovesRun
<1>2. CASE TakesSet(p)
  <2> DEFINE s == proc[p].set  i == proc[p].id
  <2>1. /\ s \in Set /\ i \in Id /\ crossed' = crossed
        /\ kept'[i] = holds[s] /\ holds'[s] = {}
        /\ \A j \in Id \ {i} : kept'[j] = kept[j]
        /\ \A t \in Set \ {s} : holds'[t] = holds[t]
    BY <1>2 DEF TakesSet, DirTypes, ProcTypes
  <2>2. \A j \in Id \ {i} : \A f \in File : CopiedOut(j, f) => CopiedOut(j, f)'
    BY <1>2 DEF TakesSet, StepTypes, Others, CopiedOut
  <2>3. ASSUME NEW j \in Id, NEW t \in Set, NEW f \in kept'[j] \cap holds'[t]
        PROVE  f \in crossed' \/ CopiedOut(j, f)'
    <3>1. t # s /\ f \in holds[t] /\ f \in File
      BY <2>1, <2>3 DEF DirTypes
    <3>2. j # i
      BY <2>1, <2>3, <3>1 DEF SourceInv
    <3> QED
      BY <2>1, <2>2, <2>3, <3>1, <3>2 DEF CopyInv
  <2>4. ASSUME NEW j \in Id, NEW k \in Id, j # k, NEW f \in kept'[j] \cap kept'[k]
        PROVE  f \in crossed' \/ CopiedOut(j, f)' \/ CopiedOut(k, f)'
    <3>1. f \in File
      BY <2>4 DEF StepTypes, DirTypes
    <3>2. CASE j # i /\ k # i
      BY <2>1, <2>2, <2>4, <3>1, <3>2 DEF CopyInv
    <3>3. CASE j = i
      <4>1. f \in kept[k] \cap holds[s] /\ k # i
        BY <2>1, <2>4, <3>3
      <4> QED
        BY <2>1, <2>2, <3>1, <4>1 DEF CopyInv
    <3>4. CASE k = i
      <4>1. f \in kept[j] \cap holds[s] /\ j # i
        BY <2>1, <2>4, <3>4
      <4> QED
        BY <2>1, <2>2, <3>1, <4>1 DEF CopyInv
    <3> QED
      BY <3>2, <3>3, <3>4
  <2> QED
    BY <2>3, <2>4 DEF CopyInv
<1>3. ASSUME NEW g \in File, Copies(p, g) PROVE CopyInv'
  <2> DEFINE s == proc[p].set  i == proc[p].id
  <2>1. /\ i \in Id /\ g \in kept[i] /\ g \notin proc[p].copied /\ s \in Set
        /\ holds'[s] = holds[s] \cup {g} /\ \A t \in Set \ {s} : holds'[t] = holds[t]
        /\ UNCHANGED <<kept, crossed>> /\ proc'[p].id = i /\ proc'[p].copied = proc[p].copied \cup {g}
    BY <1>3 DEF Copies, DirTypes, ProcTypes
  <2>2. \A j \in Id, f \in File : CopiedOut(j, f) => CopiedOut(j, f)'
    BY <2>1 DEF StepTypes, Others, CopiedOut
  <2>3. CopiedOut(i, g) => g \in crossed
    <3>1. SUFFICES ASSUME NEW r \in Proc, proc[r].id = i, g \in proc[r].copied PROVE g \in crossed
      BY DEF CopiedOut
    <3>2. r # p
      BY <2>1, <3>1
    <3> QED
      BY <2>1, <3>1, <3>2 DEF WorkInv
  <2>4. ASSUME NEW j \in Id, NEW t \in Set, NEW f \in kept'[j] \cap holds'[t]
        PROVE  f \in crossed' \/ CopiedOut(j, f)'
    <3>1. f \in File /\ f \in kept[j]
      BY <2>1, <2>4 DEF DirTypes
    <3>2. CASE f \in holds[t]
      BY <2>1, <2>2, <3>1, <3>2 DEF CopyInv
    <3>3. CASE f \notin holds[t]
      <4>1. f = g
        BY <2>1, <2>4, <3>3
      <4>2. CASE j = i
        BY <2>1, <4>1, <4>2 DEF CopiedOut
      <4>3. CASE j # i
        <5>1. g \in crossed \/ CopiedOut(i, g) \/ CopiedOut(j, g)
          BY <2>1, <3>1, <4>1, <4>3 DEF CopyInv
        <5> QED
          BY <2>1, <2>2, <2>3, <4>1, <5>1
      <4> QED
        BY <4>2, <4>3
    <3> QED
      BY <3>2, <3>3
  <2>5. \A j, k \in Id : j # k => \A f \in kept'[j] \cap kept'[k] :
          f \in crossed' \/ CopiedOut(j, f)' \/ CopiedOut(k, f)'
    BY <2>1, <2>2 DEF CopyInv, DirTypes
  <2> QED
    BY <2>4, <2>5 DEF CopyInv
<1>4. CASE DropsTarget(p)
  <2>1. /\ crossed' = crossed /\ kept' = kept /\ \A s \in Set : holds'[s] \subseteq holds[s]
    BY <1>4 DEF DropsTarget, DirTypes
  <2>2. \A j \in Id, f \in File : CopiedOut(j, f) => CopiedOut(j, f)'
    BY <1>4 DEF DropsTarget, StepTypes, Others, CopiedOut
  <2> QED
    BY <2>1, <2>2 DEF CopyInv, DirTypes
<1>5. CASE RemovesRun(p)
  <2> DEFINE i == proc[p].id
  <2>1. /\ crossed' = crossed /\ holds' = holds /\ kept'[i] = {} /\ i \in Id
        /\ \A j \in Id \ {i} : kept'[j] = kept[j]
    BY <1>5 DEF RemovesRun, DirTypes
  <2>2. \A j \in Id \ {i}, f \in File : CopiedOut(j, f) => CopiedOut(j, f)'
    BY <1>5 DEF RemovesRun, StepTypes, Others, CopiedOut
  <2> QED
    BY <2>1, <2>2 DEF CopyInv, DirTypes
<1> QED
  BY <1>1, <1>2, <1>3, <1>4, <1>5 DEF StepTypes, Kinds, Stays, Quits, Joins, Quiet

\* Everything the commands maintain between them.
FoldersInv == ProcTypes /\ DirTypes /\ WorkInv /\ SourceInv /\ CopyInv /\ SafeInv

\* Where a file that leaves its run goes: a reset or a delete of the run takes
\* away what is elsewhere, or what counts as dropped.
LEMMA RemovedIsSafe ==
  ASSUME ProcTypes, DirTypes, SafeInv, NEW p \in Proc, StepTypes(p), RemovesRun(p),
         NEW i \in Id, NEW f \in kept[i]
  PROVE  \/ f \in dropped'
         \/ \E s \in Set : f \in holds'[s]
         \/ \E j \in Id : f \in kept'[j] /\ ~CopiedOut(j, f)'
<1> DEFINE g == proc[p].id
<1>1. /\ g \in Id /\ holds' = holds /\ dropped \subseteq dropped' /\ dropped' = dropped \cup (kept[g] \ proc[p].copied)
      /\ \A j \in Id \ {g} : kept'[j] = kept[j]
  BY DEF RemovesRun, DirTypes
<1>2. \A j \in Id : CopiedOut(j, f)' => CopiedOut(j, f)
  BY IdleType DEF CopiedOut, RemovesRun, StepTypes, Others
<1>3. ASSUME NEW j \in Id, f \in kept[j], ~CopiedOut(j, f)
      PROVE  f \in dropped' \/ \E k \in Id : f \in kept'[k] /\ ~CopiedOut(k, f)'
  <2>1. CASE j = g
    <3>1. f \notin proc[p].copied
      BY <1>3, <2>1 DEF CopiedOut
    <3> QED
      BY <1>1, <1>3, <2>1, <3>1
  <2>2. CASE j # g
    BY <1>1, <1>2, <1>3, <2>2
  <2> QED
    BY <2>1, <2>2
<1> QED
  BY <1>1, <1>3 DEF SafeInv

LEMMA SafeNext ==
  ASSUME ProcTypes, DirTypes, WorkInv, SafeInv, NEW p \in Proc, StepTypes(p)
  PROVE  SafeInv'
<1>1. DirTypes'
  BY DEF StepTypes
<1>2. CASE UNCHANGED <<holds, kept, dropped>> /\ \A f \in File : ~Copies(p, f)
  <2>1. \A j \in Id, f \in File : CopiedOut(j, f)' => CopiedOut(j, f)
    BY <1>2, CopiedOutStep
  <2> QED
    BY <1>2, <2>1 DEF SafeInv, DirTypes
<1>3. CASE TakesSet(p)
  <2> DEFINE s == proc[p].set  g == proc[p].id
  <2>1. /\ s \in Set /\ g \in Id /\ proc[p].step = "claim" /\ proc[p].copied = {}
        /\ kept'[g] = holds[s] /\ dropped' = dropped
        /\ \A j \in Id \ {g} : kept'[j] = kept[j]
        /\ \A t \in Set \ {s} : holds'[t] = holds[t]
        /\ proc'[p].id = g /\ proc'[p].copied = {}
    BY <1>3 DEF TakesSet, At, DirTypes, ProcTypes
  <2>2. kept[g] = {} /\ \A q \in Proc \ {p} : proc[q].id # g
    BY <2>1 DEF WorkInv, DirTypes
  <2>3. \A j \in Id, f \in File : CopiedOut(j, f)' => CopiedOut(j, f) /\ j # g
    BY <2>1, <2>2 DEF CopiedOut, StepTypes, Others
  <2>4. SUFFICES ASSUME NEW i \in Id, NEW f \in kept'[i]
                 PROVE  \/ f \in dropped'
                        \/ \E t \in Set : f \in holds'[t]
                        \/ \E j \in Id : f \in kept'[j] /\ ~CopiedOut(j, f)'
    BY DEF SafeInv
  <2>5. f \in File
    BY <1>1, <2>4 DEF DirTypes
  <2>6. CASE f \in holds[s]
    BY <2>1, <2>3, <2>5, <2>6
  <2>7. CASE f \notin holds[s]
    <3>1. i # g /\ f \in kept[i]
      BY <2>1, <2>4, <2>7
    <3> QED
      BY <2>1, <2>2, <2>3, <2>5, <2>7, <3>1 DEF SafeInv
  <2> QED
    BY <2>6, <2>7
<1>4. ASSUME NEW g \in File, Copies(p, g) PROVE SafeInv'
  <2> DEFINE s == proc[p].set
  <2>1. /\ s \in Set /\ UNCHANGED <<kept, dropped>> /\ g \in holds'[s]
        /\ \A t \in Set : holds[t] \subseteq holds'[t]
    BY <1>4 DEF Copies, DirTypes, ProcTypes
  <2>2. \A j \in Id, f \in File : f # g /\ CopiedOut(j, f)' => CopiedOut(j, f)
    BY <1>4 DEF Copies, CopiedOut, StepTypes, Others
  <2> QED
    BY <2>1, <2>2 DEF SafeInv, DirTypes
<1>5. CASE DropsTarget(p)
  <2> DEFINE s == proc[p].set
  <2>1. /\ s \in Set /\ kept' = kept /\ dropped' = dropped \cup holds[s]
        /\ \A t \in Set \ {s} : holds'[t] = holds[t]
    BY <1>5 DEF DropsTarget, DirTypes, ProcTypes
  <2>2. \A j \in Id, f \in File : CopiedOut(j, f)' => CopiedOut(j, f)
    BY <1>5, IdleType DEF DropsTarget, CopiedOut, StepTypes, Others
  <2> QED
    BY <2>1, <2>2 DEF SafeInv, DirTypes
<1>6. CASE RemovesRun(p)
  <2>1. \A i \in Id : kept'[i] \subseteq kept[i]
    BY <1>6 DEF RemovesRun, DirTypes
  <2> QED
    BY <1>6, <2>1, RemovedIsSafe DEF SafeInv
<1> QED
  <2>1. (\E f \in File : Copies(p, f)) \/ ~\E f \in File : Copies(p, f)
    OBVIOUS
  <2> QED
    BY <1>2, <1>3, <1>4, <1>5, <1>6, <2>1 DEF StepTypes, Kinds, Stays, Quits, Joins, Quiet

LEMMA FoldersInit == Init => FoldersInv
<1> SUFFICES ASSUME Init PROVE FoldersInv
  OBVIOUS
<1>1. /\ holds = Contents /\ input = Set /\ crossed = {} /\ dropped = {}
      /\ place = [i \in Id |-> "none"] /\ kept = [i \in Id |-> {}]
      /\ ghost = [i \in Id |-> "none"] /\ slug = [i \in Id |-> Idle.set]
      /\ proc = [p \in Proc |-> Idle]
  BY DEF Init
<1>2. \A p \in Proc : proc[p].step = "idle" /\ proc[p].id = Nobody /\ proc[p].copied = {}
  BY <1>1, IdleType
<1>3. ProcTypes
  BY <1>1, IdleType DEF ProcTypes, AtCopies
<1>4. DirTypes
  BY <1>1, IdleType, FoldersAssumption DEF DirTypes, Places
<1>5. WorkInv
  BY <1>1, <1>2 DEF WorkInv, OnRun, AtCopies
<1>6. SourceInv
  BY <1>1, <1>2, FoldersAssumption DEF SourceInv
<1>7. CopyInv /\ SafeInv
  BY <1>1 DEF CopyInv, SafeInv
<1> QED
  BY <1>3, <1>4, <1>5, <1>6, <1>7 DEF FoldersInv

LEMMA FoldersStep ==
  ASSUME FoldersInv, [Next]_vars
  PROVE  FoldersInv'
<1>1. CASE UNCHANGED vars
  BY <1>1 DEF vars, FoldersInv, ProcTypes, DirTypes, WorkInv, SourceInv, CopyInv, SafeInv, CopiedOut
<1>2. ASSUME NEW p \in Proc, ProcStep(p) PROVE FoldersInv'
  <2>1. ProcTypes /\ DirTypes /\ WorkInv /\ SourceInv /\ CopyInv /\ SafeInv
    BY DEF FoldersInv
  <2>2. StepTypes(p)
    BY <1>2, <2>1, AllKinds
  <2>3. WorkInv' /\ CopyInv' /\ SafeInv'
    BY <2>1, <2>2, WorkNext, CopyNext, SafeNext
  <2>4. SourceInv'
    BY <2>1, <2>2, SourceQuiet, SourceTakes, SourceCopies, SourceDrops DEF StepTypes, Kinds
  <2> QED
    BY <2>2, <2>3, <2>4 DEF FoldersInv, StepTypes
<1> QED
  BY <1>1, <1>2 DEF Next

LEMMA FoldersAlways == Spec => []FoldersInv
BY FoldersInit, FoldersStep, PTL DEF Spec

\* Two engines never drive the same plan file, unless commands crossed for a run
\* that had it or a reset was cut short that had copied it: a file is in two
\* runs only while a reset is still copying it out of one of them, and whoever
\* drives that run has been crossed by the reset (claim_input, reset_run).
THEOREM OneRunPerPlan == Spec => []OnePlanOneRun
<1>1. FoldersInv => OnePlanOneRun
  <2>1. SUFFICES ASSUME ProcTypes, DirTypes, WorkInv, CopyInv,
                        NEW p \in Proc, NEW q \in Proc, p # q,
                        proc[p].step \in Engine, proc[q].step \in Engine,
                        NEW f \in kept[proc[p].id] \cap kept[proc[q].id]
                 PROVE  f \in crossed
    BY DEF FoldersInv, OnePlanOneRun
  <2>2. /\ proc[p].id \in Id /\ proc[q].id \in Id
        /\ proc[p].copied = {} /\ proc[q].copied = {}
    BY <2>1, IdOf DEF Engine, ProcTypes, AtCopies
  <2>3. CASE proc[p].id = proc[q].id
    BY <2>1, <2>2, <2>3 DEF WorkInv
  <2>4. CASE proc[p].id # proc[q].id
    <3>1. f \in crossed \/ CopiedOut(proc[p].id, f) \/ CopiedOut(proc[q].id, f)
      BY <2>1, <2>2, <2>4 DEF CopyInv
    <3>2. CopiedOut(proc[p].id, f) => f \in crossed
      BY <2>1, <2>2 DEF WorkInv, CopiedOut
    <3>3. CopiedOut(proc[q].id, f) => f \in crossed
      BY <2>1, <2>2 DEF WorkInv, CopiedOut
    <3> QED
      BY <3>1, <3>2, <3>3
  <2> QED
    BY <2>3, <2>4
<1> QED
  BY <1>1, FoldersAlways, PTL

\* No plan file is lost: whatever is launched, killed, resumed and reset at the
\* same time, a file that was in input/ or in a run stays in one of them, unless
\* it counts as dropped (claim_input, reset_run, _remove_run_dir).
THEOREM PlansStay == Spec => PlanKept
<1>1. ASSUME FoldersInv, Next PROVE Present \subseteq Present' \cup dropped'
  <2>1. PICK p \in Proc : ProcStep(p)
    BY <1>1 DEF Next
  <2>2. /\ ProcTypes /\ DirTypes /\ WorkInv /\ SafeInv
    BY <1>1 DEF FoldersInv
  <2>3. StepTypes(p)
    BY <2>1, <2>2, AllKinds
  <2>4. SUFFICES /\ \A s \in Set : \A f \in holds[s] : f \in Present' \cup dropped'
                 /\ \A i \in Id : \A f \in kept[i] : f \in Present' \cup dropped'
    BY DEF Present
  <2>5. /\ \A s \in Set : holds'[s] \subseteq Present'
        /\ \A i \in Id : kept'[i] \subseteq Present'
    BY DEF Present
  <2>6. CASE UNCHANGED <<holds, kept>>
    BY <2>5, <2>6
  <2>7. CASE TakesSet(p)
    <3> DEFINE s == proc[p].set  i == proc[p].id
    <3>1. /\ i \in Id /\ proc[p].step = "claim" /\ kept'[i] = holds[s]
          /\ \A j \in Id \ {i} : kept'[j] = kept[j]
          /\ \A t \in Set \ {s} : holds'[t] = holds[t]
      BY <2>2, <2>7 DEF TakesSet, At, DirTypes
    <3>2. kept[i] = {}
      BY <2>2, <3>1 DEF WorkInv, DirTypes
    <3> QED
      BY <2>5, <3>1, <3>2
  <2>8. ASSUME NEW f \in File, Copies(p, f) PROVE Present \subseteq Present'
    <3>1. kept' = kept /\ \A t \in Set : holds[t] \subseteq holds'[t]
      BY <2>2, <2>8 DEF Copies, DirTypes
    <3> QED
      BY <2>5, <3>1 DEF Present
  <2>9. CASE DropsTarget(p)
    <3>1. /\ kept' = kept /\ dropped' = dropped \cup holds[proc[p].set]
          /\ \A t \in Set \ {proc[p].set} : holds'[t] = holds[t]
      BY <2>2, <2>9 DEF DropsTarget, DirTypes
    <3> QED
      BY <2>5, <3>1
  <2>10. CASE RemovesRun(p)
    <3>1. holds' = holds
      BY <2>10 DEF RemovesRun
    <3>2. \A i \in Id : \A f \in kept[i] : f \in Present' \cup dropped'
      BY <2>2, <2>3, <2>5, <2>10, RemovedIsSafe
    <3> QED
      BY <2>5, <3>1, <3>2
  <2> QED
    BY <2>3, <2>6, <2>7, <2>8, <2>9, <2>10 DEF StepTypes, Kinds, Stays, Quits, Joins, Quiet, Present
<1>2. UNCHANGED vars => Present' = Present
  BY DEF vars, Present
<1>3. FoldersInv /\ [Next]_vars => [Present \subseteq Present' \cup dropped']_vars
  BY <1>1
<1> QED
  BY <1>3, FoldersAlways, PTL DEF Spec, PlanKept
=============================================================================
