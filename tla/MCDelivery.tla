---------------------------- MODULE MCDelivery ----------------------------
(***************************************************************************)
(* Instances of Delivery for TLC: two waves, in two lanes or in one.       *)
(***************************************************************************)
EXTENDS Delivery, TLC

CONSTANTS a, b, l, m, f

OneEach    == (l :> <<a>>) @@ (m :> <<b>>)
Both       == (l :> <<a, b>>)
ThreeSteps == <<<<l>>, <<m>>, <<l, m>>>>
OneStep    == <<<<l>>>>
Everything == EnvEvents
AllFaults  == Faults
AllTroubles == Troubles
=============================================================================
