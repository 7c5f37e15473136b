----------------------------- MODULE MCWaveRun -----------------------------
(***************************************************************************)
(* An instance of WaveRun for TLC: a human-gate wave g; lanes a, b and d   *)
(* in the first batch, of which a and b clash and d needs a; and, in the   *)
(* second batch, a wave c that needs both a and b.                         *)
(***************************************************************************)
EXTENDS WaveRunInv, TLC

CONSTANTS g, a, b, c, d

GatedDeps == g :> {} @@ a :> {g} @@ b :> {g} @@ d :> {a} @@ c :> {a, b}
TwoBatches == << {a, b, d}, {c} >>
GatedRank == g :> 0 @@ a :> 1 @@ b :> 2 @@ d :> 3 @@ c :> 4
LanesClash == {<<a, b>>, <<b, a>>}

Everything == EnvEvents
=============================================================================
