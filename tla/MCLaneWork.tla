---------------------------- MODULE MCLaneWork ----------------------------
(***************************************************************************)
(* Instances of LaneWork for TLC: two waves and two attempts.              *)
(***************************************************************************)
EXTENDS LaneWork, TLC

CONSTANTS a, b

Everything == EnvEvents
=============================================================================
