---------------------------- MODULE RunContract ----------------------------
(***************************************************************************)
(* What a run promises its operator, whatever the driver does inside:      *)
(* waves are worked on only after the waves they depend on, never two that *)
(* clash at the same time; finished work stays finished and is not done    *)
(* again; the run is declared done only when every required wave is        *)
(* finished and declared failed only when some required wave is not; a     *)
(* failed run may be reopened, a done one may not.                         *)
(***************************************************************************)
EXTENDS FiniteSets

CONSTANTS
  Node,      \* the waves
  Deps,      \* Deps[n]: the waves n depends on
  Clash,     \* pairs of waves that must not be worked on together
  Required,  \* the waves the verdict is about
  Gate       \* waves that an approval finishes without work

VARIABLES
  outcome,   \* "open", "done" or "failed"
  finished,  \* the waves that are finished
  working    \* the waves being worked on

cvars == <<outcome, finished, working>>

CInit == outcome = "open" /\ finished = {} /\ working = {}

Begin(S) ==
  /\ outcome = "open" /\ working = {}
  /\ S \cap finished = {}
  /\ \A n \in S : Deps[n] \subseteq finished
  /\ \A m, n \in S : m # n => <<m, n>> \notin Clash
  /\ working' = S
  /\ UNCHANGED <<outcome, finished>>

Finish(n) ==
  /\ n \in working
  /\ finished' = finished \cup {n}
  /\ working' = working \ {n}
  /\ UNCHANGED outcome

\* The work on some waves ends without a result: given up, paused or lost.
Abandon(S) ==
  /\ S \subseteq working
  /\ working' = working \ S
  /\ UNCHANGED <<outcome, finished>>

PassGate ==
  /\ outcome = "open" /\ working = {}
  /\ finished' = finished \cup Gate
  /\ UNCHANGED <<outcome, working>>

Succeed ==
  /\ outcome = "open" /\ working = {}
  /\ Required \subseteq finished
  /\ outcome' = "done"
  /\ UNCHANGED <<finished, working>>

Fail ==
  /\ outcome = "open" /\ working = {}
  /\ ~(Required \subseteq finished)
  /\ outcome' = "failed"
  /\ UNCHANGED <<finished, working>>

Reopen ==
  /\ outcome = "failed"
  /\ outcome' = "open"
  /\ UNCHANGED <<finished, working>>

CNext ==
  \/ \E S \in SUBSET Node : Begin(S) \/ Abandon(S)
  \/ \E n \in Node : Finish(n)
  \/ PassGate \/ Succeed \/ Fail \/ Reopen

CSpec == CInit /\ [][CNext]_cvars
=============================================================================
