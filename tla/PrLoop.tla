------------------------------- MODULE PrLoop -------------------------------
(***************************************************************************)
(* The PR phase of a run: deliver (push the integration branch, open the   *)
(* pull request), the fix loop over the open findings, and the human merge *)
(* gate.  Each shepherd call is a process of its own; what lasts is the    *)
(* idempotency store of the run, the loop's LangGraph checkpoint and the   *)
(* gate's marker files.  An idempotency key is written before its effect,  *)
(* and a call that finds the key does nothing.                             *)
(***************************************************************************)
EXTENDS Naturals, FiniteSets

CONSTANTS
  Finding,   \* what CI and reviewers may find
  RunStore,  \* does the run directory have a graph store of its own?
  Trouble    \* what may go wrong in this instance

\* "refused": git or gh fails; "die": the process dies between two steps.
Troubles == {"refused", "die"}

ASSUME PrAssumption == RunStore \in BOOLEAN /\ Trouble \subseteq Troubles

VARIABLES
  \* what lasts
  keys,      \* idempotency.db
  node,      \* the node the loop's checkpoint says is next; "start", "end"
  held,      \* the findings in the loop's channel that it takes for open
  pending,   \* merge-gate-pending.json exists
  approved,  \* merge-approved.json exists
  \* GitHub and the graph store
  pushed,    \* the integration branch is on the remote
  prs,       \* how many pull requests were opened
  prOpen,    \* is one of them open?
  open,      \* the findings that are open in the graph store
  \* the process
  call       \* what a shepherd call is at; "none" when none runs

pvars == <<keys, node, held, pending, approved, pushed, prs, prOpen, open, call>>

PInit ==
  /\ keys = {} /\ node = "start" /\ held = {}
  /\ pending = FALSE /\ approved = FALSE
  /\ pushed = FALSE /\ prs = 0 /\ prOpen = FALSE /\ open \in SUBSET Finding
  /\ call = "none"

gateVars   == <<pending, approved>>
remoteVars == <<pushed, prs, prOpen, open>>
loopVars   == <<node, held>>

-----------------------------------------------------------------------------
(* deliver.                                                                *)

StartDeliver ==
  /\ call = "none" /\ call' = "push"
  /\ UNCHANGED <<keys, loopVars, gateVars, remoteVars>>

\* run_commit_node: the key, then the effect, then the next action.
RecordPush ==
  /\ call = "push"
  /\ keys' = keys \cup {"push"}
  /\ call' = IF "push" \in keys THEN "open_pr" ELSE "pushing"
  /\ UNCHANGED <<loopVars, gateVars, remoteVars>>

PerformPush ==
  /\ call = "pushing"
  /\ \/ pushed' = TRUE /\ call' = "open_pr"
     \/ "refused" \in Trouble /\ call' = "none" /\ UNCHANGED pushed
  /\ UNCHANGED <<keys, loopVars, gateVars, prs, prOpen, open>>

\* Mutant: the key is recorded when the effect has succeeded.
RecordOpenLater ==
  /\ call = "open_pr"
  /\ call' = IF "open_pr" \in keys THEN "none" ELSE "opening"
  /\ UNCHANGED <<keys, loopVars, gateVars, remoteVars>>

RecordOpen ==
  /\ call = "open_pr"
  /\ keys' = keys \cup {"open_pr"}
  /\ call' = IF "open_pr" \in keys THEN "none" ELSE "opening"
  /\ UNCHANGED <<loopVars, gateVars, remoteVars>>

\* gh pr create wants the branch on the remote and no other open pull request
\* from it, and prints a URL where the caller expects JSON: the call raises
\* although the pull request is there.
PerformOpen ==
  /\ call = "opening"
  /\ \/ /\ pushed /\ ~prOpen
        /\ prs' = prs + 1 /\ prOpen' = TRUE
     \/ /\ ~pushed \/ prOpen \/ "refused" \in Trouble
        /\ UNCHANGED <<prs, prOpen>>
  /\ call' = "none"
  /\ UNCHANGED <<keys, loopVars, gateVars, pushed, open>>

-----------------------------------------------------------------------------
(* investigate_and_fix: one call runs the loop up to its next interrupt.   *)

\* A new thread is seeded with the findings that are open now, one that was
\* interrupted goes on; one that has ended only returns what it holds.
StartLoop ==
  /\ call = "none" /\ node # "end"
  /\ call' = "loop"
  /\ IF node = "start" THEN held' = open /\ node' = "push"
                       ELSE UNCHANGED loopVars
  /\ UNCHANGED <<keys, gateVars, remoteVars>>

AtNode(n) == call = "loop" /\ node = n
MoveOn(n) == node' = n /\ UNCHANGED call

\* The loop's push has no run directory, so its key is in memory only: HEAD of
\* wherever the call was made is pushed once per process.
LoopPush ==
  /\ AtNode("push")
  /\ \/ MoveOn("poll")
     \/ "refused" \in Trouble /\ call' = "none" /\ UNCHANGED node
  /\ UNCHANGED <<keys, held, gateVars, remoteVars>>

\* Mutant: the findings are those of the seed.
PollSeed ==
  /\ AtNode("poll")
  /\ MoveOn(IF held = {} THEN "merge_gate" ELSE "investigate")
  /\ UNCHANGED <<keys, held, gateVars, remoteVars>>

\* The findings are read again only from a store in the run directory.
Poll ==
  /\ AtNode("poll")
  /\ held' = IF RunStore THEN open ELSE held
  /\ MoveOn(IF held' = {} THEN "merge_gate" ELSE "investigate")
  /\ UNCHANGED <<keys, gateVars, remoteVars>>

\* One investigator and one fixer per finding; what they change is not pushed.
Investigate ==
  /\ AtNode("investigate") /\ MoveOn("fix")
  /\ UNCHANGED <<keys, held, gateVars, remoteVars>>

Fix ==
  /\ AtNode("fix") /\ MoveOn("re_verify")
  /\ UNCHANGED <<keys, held, gateVars, remoteVars>>

\* re_verify verifies nothing; the call is interrupted after it.
ReVerify ==
  /\ AtNode("re_verify")
  /\ node' = (IF held = {} THEN "merge_gate" ELSE "poll")
  /\ call' = "none"
  /\ UNCHANGED <<keys, held, gateVars, remoteVars>>

MergeGate ==
  /\ AtNode("merge_gate")
  /\ pending' = TRUE
  /\ node' = "end" /\ call' = "none"
  /\ UNCHANGED <<keys, held, approved, remoteVars>>

-----------------------------------------------------------------------------
(* Everybody else.                                                         *)

ShepherdDies ==
  /\ "die" \in Trouble /\ call # "none"
  /\ call' = "none"
  /\ UNCHANGED <<keys, loopVars, gateVars, remoteVars>>

\* findings sync: CI and reviewers report something, or find it gone.
FindingsSync ==
  /\ \E f \in Finding : open' \in {open \cup {f}, open \ {f}}
  /\ open' # open
  /\ UNCHANGED <<keys, loopVars, gateVars, pushed, prs, prOpen, call>>

\* A human closes the pull request without merging it.
ClosePr ==
  /\ prOpen /\ prOpen' = FALSE
  /\ UNCHANGED <<keys, loopVars, gateVars, pushed, prs, open, call>>

\* shepherd --phase merge parks whatever the findings are.
ParkNow ==
  /\ call = "none"
  /\ pending' = TRUE
  /\ UNCHANGED <<keys, loopVars, approved, remoteVars, call>>

\* pr approve-merge; merging itself is left to the human.
ApproveMerge ==
  /\ pending /\ ~approved
  /\ approved' = TRUE
  /\ UNCHANGED <<keys, loopVars, pending, remoteVars, call>>

DeliverStep == RecordPush \/ PerformPush \/ RecordOpen \/ PerformOpen
LoopStep ==
  LoopPush \/ Poll \/ Investigate \/ Fix \/ ReVerify \/ MergeGate

PType ==
  /\ keys \subseteq {"push", "open_pr"}
  /\ node \in {"start", "push", "poll", "investigate", "fix", "re_verify",
               "merge_gate", "end"}
  /\ held \subseteq Finding /\ open \subseteq Finding
  /\ pending \in BOOLEAN /\ approved \in BOOLEAN /\ pushed \in BOOLEAN
  /\ prs \in Nat /\ prOpen \in BOOLEAN
  /\ call \in {"none", "push", "pushing", "open_pr", "opening", "loop"}

\* Deliver may be called again and again, be cut off anywhere and find its pull
\* request closed by a human: it never opens a second one.
AtMostOnePr == prs <= 1
=============================================================================
