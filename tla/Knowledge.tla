----------------------------- MODULE Knowledge -----------------------------
(***************************************************************************)
(* What tripll learns from reviews and from its own runs: the findings of  *)
(* a pull request, which sync fetches, an LLM gate flags and the operator  *)
(* triages; the learnings file the reviewer reads; and the rules that      *)
(* onboarding and post-mortems propose and the operator activates.  The    *)
(* commands are processes of their own on one SQLite store and one         *)
(* directory of rule files, without a lock; a wave of any run may propose. *)
(***************************************************************************)
EXTENDS FiniteSets

CONSTANTS
  Finding,   \* finding ids, a digest of rule, file and message
  Check,     \* those that come from a check run; the others are comments
  PrOf,      \* PrOf[f]: the pull request f is raised on
  Rule,      \* rule slugs
  Derivable, \* the rules the evaluation of the repository yields
  Wave,      \* waves that may end, of this run or a later one
  Slug       \* Slug[w]: the rule that the post-mortem message of w names

ASSUME KnowledgeAssumption ==
  /\ Check \subseteq Finding /\ Derivable \subseteq Rule
  /\ DOMAIN PrOf = Finding /\ Slug \in [Wave -> Rule]

Decided == {"accepted", "rejected", "deferred", "fixed"}
FindingStates == Decided \cup {"none", "open", "baseline_candidate"}

VARIABLES
  store,     \* store[f]: the state of the Finding node
  gate,      \* the rows a running gate has read; empty when none runs
  exporting, \* a triage has stored a rejection and not yet exported it
  withdrawn, \* the findings learnings.md lists as known non-issues
  torn,      \* history: rejections stored by a write that exported nothing
  rules      \* rules[r]: the state in the rule's file

kvars == <<store, gate, exporting, withdrawn, torn, rules>>

NoRows == [f \in {} |-> "none"]
Rejected == {f \in Finding : store[f] = "rejected"}

KInit ==
  /\ store = [f \in Finding |-> "none"]
  /\ gate = NoRows /\ exporting = FALSE
  /\ withdrawn = {} /\ torn = {}
  /\ rules = [r \in Rule |-> "none"]

-----------------------------------------------------------------------------
(* Findings *)

\* A raised comment is open.  A check run is open when it failed, deferred when
\* its output looks like the infrastructure's fault, and fixed otherwise: when
\* it passed, but also when it was cancelled or has not ended.
Normalized(f) == IF f \in Check THEN {"open", "fixed", "deferred"} ELSE {"open"}

\* sync upserts every column of what GitHub shows of the pull request, the
\* state included; what GitHub no longer shows stays as it is.
Sync(p) ==
  \E shown \in SUBSET {f \in Finding : PrOf[f] = p} :
    \E fetched \in [shown -> {"open", "fixed", "deferred"}] :
      /\ \A f \in shown : fetched[f] \in Normalized(f)
      /\ store' = [f \in Finding |-> IF f \in shown THEN fetched[f] ELSE store[f]]
      /\ torn' = torn \ shown
      /\ UNCHANGED <<gate, exporting, withdrawn, rules>>

\* The gate reads the findings of one pull request, or all, before it asks.
GateReads ==
  /\ gate = NoRows
  /\ \E rows \in {Finding} \cup {{f \in Finding : PrOf[f] = PrOf[g]} : g \in Finding} :
       gate' = [f \in {g \in rows : store[g] # "none"} |-> store[f]]
  /\ UNCHANGED <<store, exporting, withdrawn, torn, rules>>

\* Broken: a verdict on a decided finding too.
VerdictsOnAll(state) == {"baseline_candidate", "open"}

\* A verdict flags a finding and never touches a decided one.
Verdicts(state) ==
  IF state \in Decided THEN {state} ELSE {"baseline_candidate", "open"}

\* All the rows read are written back, the skipped ones too, over whatever the
\* store holds by then.
GateWrites ==
  /\ gate # NoRows
  /\ \E judged \in [DOMAIN gate -> FindingStates] :
       /\ \A f \in DOMAIN gate : judged[f] \in Verdicts(gate[f])
       /\ store' = [f \in Finding |-> IF f \in DOMAIN gate THEN judged[f] ELSE store[f]]
  /\ gate' = NoRows
  /\ torn' = (torn \ DOMAIN gate) \cup
       {f \in DOMAIN gate : gate[f] = "rejected" /\ (f \in torn \/ store[f] # "rejected")}
  /\ UNCHANGED <<exporting, withdrawn, rules>>

\* One finding without an answer, or a kill, and nothing is written.
GateFails ==
  /\ gate # NoRows
  /\ gate' = NoRows
  /\ UNCHANGED <<store, exporting, withdrawn, torn, rules>>

\* Broken: exports what was listed before the rejection is stored.
TriageListsFirst(f, state) ==
  /\ ~exporting /\ store[f] # "none"
  /\ store' = [store EXCEPT ![f] = state]
  /\ withdrawn' = IF state = "rejected" THEN Rejected ELSE withdrawn
  /\ torn' = torn \ {f}
  /\ UNCHANGED <<gate, exporting, rules>>

\* The operator decides; a rejection goes on to export.
Triage(f, state) ==
  /\ ~exporting /\ store[f] # "none"
  /\ store' = [store EXCEPT ![f] = state]
  /\ exporting' = (state = "rejected")
  /\ torn' = torn \ {f}
  /\ UNCHANGED <<gate, withdrawn, rules>>

\* The learnings file is rebuilt from all the findings and rules: the second
\* half of a rejection.
ExportAfterTriage ==
  /\ exporting
  /\ exporting' = FALSE
  /\ withdrawn' = Rejected
  /\ torn' = {}
  /\ UNCHANGED <<store, gate, rules>>

\* The export-learnings command.
ExportLearnings ==
  /\ ~exporting
  /\ withdrawn' = Rejected
  /\ torn' = {}
  /\ UNCHANGED <<store, gate, exporting, rules>>

\* A triage killed between the two, or whose export fails.
TriageDies ==
  /\ exporting
  /\ exporting' = FALSE
  /\ torn' = Rejected \ withdrawn
  /\ UNCHANGED <<store, gate, withdrawn, rules>>

-----------------------------------------------------------------------------
(* Rules *)

\* Broken: derive without its check for an active rule.
DeriveOverAll(force) ==
  \E found \in SUBSET Derivable :
    /\ rules' = [r \in Rule |->
         IF r \in found /\ (rules[r] = "none" \/ force) THEN "proposed" ELSE rules[r]]
    /\ UNCHANGED <<store, gate, exporting, withdrawn, torn>>

\* derive proposes what the evaluation finds; with force it replaces every file
\* that is not active, a retired rule's too.
Derive(force) ==
  \E found \in SUBSET Derivable :
    /\ rules' = [r \in Rule |->
         IF r \in found /\ (rules[r] = "none" \/ (force /\ rules[r] # "active"))
           THEN "proposed" ELSE rules[r]]
    /\ UNCHANGED <<store, gate, exporting, withdrawn, torn>>

\* Whether the contract or the agent was wrong, from the last attempt's outcome
\* and whether its evidence names a scope breach.
Verdict(outcome, breach) ==
  CASE breach -> "agent-diverged"
    [] ~breach /\ outcome \in {"failed", "scope_breach"} -> "contract-too-vague"
    [] OTHER -> "external"

\* A wave ends: its post-mortem proposes a rule over the file of that slug.
WaveEnds(w) ==
  \E outcome \in {"done", "failed", "blocked", "scope_breach", "unverified", "timed_out"},
     breach \in BOOLEAN :
    /\ rules' = IF Verdict(outcome, breach) = "external" THEN rules
                ELSE [rules EXCEPT ![Slug[w]] = "proposed"]
    /\ UNCHANGED <<store, gate, exporting, withdrawn, torn>>

\* The operator's commands, refused without TRIPLL_OPERATOR.
Promote(r) ==
  /\ rules[r] = "proposed"
  /\ rules' = [rules EXCEPT ![r] = "active"]
  /\ UNCHANGED <<store, gate, exporting, withdrawn, torn>>

Retire(r) ==
  /\ rules[r] # "none"
  /\ rules' = [rules EXCEPT ![r] = "retired"]
  /\ UNCHANGED <<store, gate, exporting, withdrawn, torn>>

-----------------------------------------------------------------------------
KNext ==
  \/ \E f \in Finding : Sync(PrOf[f])
  \/ GateReads \/ GateWrites \/ GateFails
  \/ \E f \in Finding, state \in Decided : Triage(f, state)
  \/ ExportAfterTriage \/ ExportLearnings \/ TriageDies
  \/ \E force \in BOOLEAN : Derive(force)
  \/ \E w \in Wave : WaveEnds(w)
  \/ \E r \in Rule : Promote(r) \/ Retire(r)

KSpec == KInit /\ [][KNext]_kvars

-----------------------------------------------------------------------------
\* The gate never undoes a decision it could have seen (gate_findings,
\* apply_gate_verdict): a gate that writes changes a decided finding only when
\* the decision is newer than the rows it read.
GateKeepsTriage ==
  [][(gate # NoRows /\ gate' = NoRows) =>
       \A f \in DOMAIN gate :
         (store[f] \in Decided /\ gate[f] = store[f]) => store'[f] = store[f]]_kvars

\* A finding the operator withdrew is one the reviewer is told about
\* (triage_and_export): with no export under way learnings.md lists every
\* rejected finding, those aside that a killed triage or a late gate stored.
RejectedIsWithdrawn ==
  ~exporting => \A f \in Rejected : f \in withdrawn \/ f \in torn

\* Onboarding never takes an active rule away, however it is run and whatever it
\* finds (derive_rules): a rule leaves the briefs only when the operator retires
\* it or when a post-mortem proposes a rule of its name.
ActiveStays ==
  [][\A r \in Rule : (rules[r] = "active" /\ rules'[r] # "active") =>
       \/ Retire(r)
       \/ \E w \in Wave : Slug[w] = r /\ WaveEnds(w)]_kvars
=============================================================================
