-------------------------- MODULE MCAgentDispatch --------------------------
(***************************************************************************)
(* Instances of AgentDispatch for TLC: the lines an agent may write.       *)
(***************************************************************************)
EXTENDS AgentDispatch, TLC

Says(kind, words, error) == [kind |-> kind, words |-> words, error |-> error]
SomeLines ==
  {Says("talk", {"long"}, FALSE), Says("talk", {"auth"}, FALSE), Says("tool", {}, FALSE),
   Says("event", {}, FALSE), Says("result", {}, FALSE), Says("result", {"limit"}, TRUE)}
=============================================================================
