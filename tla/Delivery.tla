------------------------------ MODULE Delivery ------------------------------
(***************************************************************************)
(* tripll run --integrate --deliver, from the outer loop's drive of a run  *)
(* to the merge gate of its pull request: OuterRun, then Integration and   *)
(* PrLoop's deliver in the process of the first command, then the          *)
(* shepherd calls of an operator.  A command that is paused, fails or dies *)
(* takes the request to integrate with it: resume has no such option.      *)
(***************************************************************************)
EXTENDS OuterRun, Integration, PrLoop

VARIABLE first  \* the first command's process is alive

dvars == <<vars, ivars, pvars, first>>

DInit == Init /\ IInit /\ PInit /\ first = TRUE

\* The outer loop; the first command ends with it unless the run was filed as
\* done.
RunPart ==
  /\ Next
  /\ first' = (first /\ ~(pc' = "down" /\ loc' # "processed"))
  /\ UNCHANGED <<ivars, pvars>>

\* _finalize_run_result: a done run is integrated by the command that ran it.
BeginIntegration ==
  /\ first /\ pc = "down" /\ loc = "processed"
  /\ CreateBranch
  /\ UNCHANGED <<vars, pvars, first>>

IntegrationPart ==
  /\ first
  /\ IStep
  /\ UNCHANGED <<vars, pvars, first>>

IntegrationDies ==
  /\ first /\ Kill
  /\ first' = FALSE
  /\ UNCHANGED <<vars, pvars>>

\* _run_deliver follows in the same process; an operator can call it again,
\* whatever became of the integration.
BeginDeliver ==
  /\ ipc \in {"finished", "raised"}
  /\ StartDeliver
  /\ first' = FALSE
  /\ UNCHANGED <<vars, ivars>>

\* The operator shepherds a run that has been filed.
BeginLoop ==
  /\ loc # "processing"
  /\ StartLoop
  /\ UNCHANGED <<vars, ivars, first>>

PrPart ==
  /\ \/ DeliverStep \/ LoopStep \/ ShepherdDies
     \/ ClosePr \/ ApproveMerge
     \/ loc # "processing" /\ (ParkNow \/ FindingsSync)
  /\ UNCHANGED <<vars, ivars, first>>

\* A run that nobody can do anything more for.
Idle == pc = "down" /\ UNCHANGED dvars

DNext ==
  \/ RunPart \/ BeginIntegration \/ IntegrationPart \/ IntegrationDies
  \/ BeginDeliver \/ BeginLoop \/ PrPart \/ Idle

DSpec == DInit /\ [][DNext]_dvars

\* A shepherd call runs on, and the operator calls for the loop ever again.
ShepherdFairness ==
  /\ WF_dvars(PrPart /\ (DeliverStep \/ LoopStep))
  /\ SF_dvars(BeginLoop)

FairDelivery == DSpec /\ ShepherdFairness

-----------------------------------------------------------------------------
DeliveryTypes == TypeOK /\ IType /\ PType /\ first \in BOOLEAN

\* Once a filed run's findings are gone for good, an operator who keeps calling
\* shepherd sees it parked at the merge gate, unless pushes keep failing or the
\* process keeps dying.
CleanRunParks ==
  <>[](loc # "processing" /\ open = {}) =>
    \/ <>pending
    \/ []<><<ShepherdDies>>_dvars
    \/ []<><<LoopPush /\ call' = "none">>_dvars
=============================================================================
