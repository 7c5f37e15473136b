---------------------------- MODULE MCSerialRun ----------------------------
(***************************************************************************)
(* Instances of SerialRun for TLC: a human-gate wave g and three waves, of *)
(* which the prompt lists the middle one first.                            *)
(***************************************************************************)
EXTENDS SerialRun, TLC

CONSTANTS g, a, b, c

ListB    == <<b>>
GatedTopo == <<g, a, b, c>>

\* All but an operator who resumes without looking at a pending review.
Everything == EnvEvents \ {"eager"}
=============================================================================
