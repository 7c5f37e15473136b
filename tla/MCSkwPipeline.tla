--------------------------- MODULE MCSkwPipeline ---------------------------
(***************************************************************************)
(* Three plans: the first has two waves and a gate after the first of      *)
(* them, and allows four turns; the others have one wave each.  The agents *)
(* work in the tree that has the branch, in the root while a worktree has  *)
(* it, or in the root when no tree does.                                   *)
(***************************************************************************)
EXTENDS SkwPipeline

ThreePlans == 1 .. 3
Lengths == <<2, 1, 1>>
Gates == <<{1}, {}, {}>>
Turns == <<4, 1, 2>>

Checkouts == {<<"root", "root">>, <<"worktree", "worktree">>,
              <<"worktree", "root">>, <<"nowhere", "root">>}
Configured ==
  {[home |-> c[1], desk |-> c[2], commit |-> TRUE, push |-> TRUE] :
     c \in Checkouts}
    \cup {[home |-> "root", desk |-> "root", commit |-> b, push |-> ~b] :
            b \in BOOLEAN}
Verdicts == {"pass", "changes_required"}
=============================================================================
