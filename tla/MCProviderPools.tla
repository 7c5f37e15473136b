-------------------------- MODULE MCProviderPools --------------------------
(***************************************************************************)
(* Three waves and two providers: one wave that may fail over, one bound   *)
(* to each provider.                                                       *)
(***************************************************************************)
EXTENDS ProviderPools, TLC

CONSTANTS w1, w2, w3, claude, cursor

Chains == w1 :> <<claude, cursor>> @@ w2 :> <<claude>> @@ w3 :> <<cursor>>
Wide   == claude :> 2 @@ cursor :> 1
=============================================================================
