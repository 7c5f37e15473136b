---------------------------- MODULE MCKnowledge ----------------------------
(***************************************************************************)
(* Instances of Knowledge for TLC.                                         *)
(***************************************************************************)
EXTENDS Knowledge, TLC

CONSTANTS ci, comment, lint, docs, wA

\* One pull request each.
TwoPrs == (ci :> 1) @@ (comment :> 2)
\* The post-mortem of wA names lint.
OneSlug == (wA :> lint)
=============================================================================
