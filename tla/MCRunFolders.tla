---------------------------- MODULE MCRunFolders ----------------------------
(***************************************************************************)
(* Instances of RunFolders for TLC.                                        *)
(***************************************************************************)
EXTENDS RunFolders, TLC

CONSTANTS mine, other, f1, f2, f3, r1, r2, p1, p2

\* The slug of other ("My_Set") is the name of mine ("my-set").
OneSlug == (mine :> mine) @@ (other :> mine)
Plans   == (mine :> {f1, f2}) @@ (other :> {f3})
Symmetric == Permutations(Id) \cup Permutations(Proc) \cup Permutations({f1, f2})
=============================================================================
