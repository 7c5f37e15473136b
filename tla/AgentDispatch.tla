--------------------------- MODULE AgentDispatch ---------------------------
(***************************************************************************)
(* The dispatches of one wave: each runs a command-line agent as a child   *)
(* in the wave's worktree and reads its output line by line, or asks an    *)
(* HTTP backend; the outcome is read off the exit code and the text, put   *)
(* into a failure class, and the attempt loop charges it, gives it back or *)
(* stops.  The child may write, hang, leave its output to a descendant or  *)
(* die at any time; the session may be interrupted or killed, and resumed. *)
(***************************************************************************)
EXTENDS Naturals, Sequences

CONSTANTS
  Line,        \* the lines an agent may write: [kind, words, error]
  PipeSize,    \* lines the pipe holds
  MaxToolUses, \* the runaway guard's ceiling
  MaxAttempts, \* the engine's attempts per wave
  MaxInfra,    \* infra failures in a row that are given back, and one more
  MaxDispatch, \* bound: dispatches in a behaviour
  Env          \* what may go wrong: subset of {"interrupt", "crash"}

ASSUME AgentAssumption ==
  /\ {PipeSize, MaxToolUses, MaxAttempts, MaxInfra, MaxDispatch} \subseteq Nat \ {0}
  /\ \A x \in Line : x.kind \in {"talk", "tool", "event", "result"} /\ x.words \subseteq {"limit", "auth", "long"}

VARIABLES
  par,      \* where the dispatching coroutine is
  n,        \* the number of the current dispatch
  live,     \* dispatches whose child process runs
  signalled,\* the current child has been killed and is not dead yet
  open,     \* somebody holds the writing end of its pipe
  pipe,     \* lines written and not read
  rc,       \* its exit code: "none" while it runs
  tail,     \* what the end of its output says
  result,   \* the last result event: none, or what it says
  tools,    \* tool uses counted so far
  stop,     \* why reading stopped: "none", "quota" or "runaway"
  attempts, \* attempts charged
  infra,    \* infra failures in a row
  over,     \* how the wave's session ended: "no" while it has not
  orphans   \* history: children whose engine was killed

agentVars == <<n, live, signalled, open, pipe, rc>>
readVars  == <<tail, result, tools, stop>>
loopVars  == <<attempts, infra, over>>
avars == <<par, agentVars, readVars, loopVars, orphans>>

NoResult == [words |-> {}, error |-> FALSE, some |-> FALSE]

AInit ==
  /\ par = "idle" /\ n = 0 /\ live = {} /\ signalled = FALSE
  /\ open = FALSE /\ pipe = <<>> /\ rc = "none"
  /\ tail = {} /\ result = NoResult /\ tools = 0 /\ stop = "none"
  /\ attempts = 0 /\ infra = 0 /\ over = "no"
  /\ orphans = {}

-----------------------------------------------------------------------------
(* Outcomes, and what the attempt loop makes of them.                      *)

\* parse_result: what the result event says if there is one, else the tail.
Parse(code) ==
  LET text == IF result.some THEN result.words ELSE tail IN
  CASE code = "timeout"     -> [outcome |-> "timed_out", text |-> tail, rc |-> "none"]
    [] code # "timeout" /\ "limit" \in text
                            -> [outcome |-> "quota_exhausted", text |-> text, rc |-> code]
    [] OTHER -> [outcome |-> IF code = "0" /\ ~result.error THEN "done" ELSE "failed",
                 text |-> text, rc |-> code]

\* What dispatch returns: the reason why reading stopped comes first.
Result(code) ==
  CASE stop = "quota"   -> [outcome |-> "quota_exhausted", text |-> {"limit"}, rc |-> code]
    [] stop = "runaway" -> [outcome |-> "failed", text |-> {}, rc |-> code]
    [] OTHER            -> Parse(code)

\* classify_dispatch: a short text after a non-zero exit counts as no output.
Infra(r) ==
  /\ r.outcome \in {"failed", "timed_out"}
  /\ "auth" \in r.text \/ (r.rc \notin {"none", "0"} /\ "long" \notin r.text)

\* The attempt is charged already: an infra failure gives it back until there
\* were MaxInfra in a row.  A done agent may still fail its verification.
Settle(charged, r) ==
  LET back == Infra(r) /\ infra + 1 < MaxInfra IN
  /\ par' = "idle"
  /\ attempts' = IF back THEN charged - 1 ELSE charged
  /\ infra' = IF Infra(r) THEN infra + 1 ELSE 0
  /\ \/ r.outcome = "done" /\ over' = "done"
     \/ r.outcome = "quota_exhausted" /\ over' = "paused"
     \/ r.outcome # "quota_exhausted" /\ over' = IF attempts' < MaxAttempts THEN "no" ELSE "blocked"

\* An exception out of dispatch blocks the wave at once.
Raise == par' = "idle" /\ over' = "blocked" /\ UNCHANGED <<attempts, infra>>

-----------------------------------------------------------------------------
(* A dispatch begins.                                                      *)

CanStart == par = "idle" /\ over = "no" /\ n < MaxDispatch

\* The backend is not available; the HTTP one says so by naming its API key.
Unavailable ==
  /\ CanStart
  /\ \E text \in {{}, {"auth"}} :
       Settle(attempts + 1, [outcome |-> "failed", text |-> text, rc |-> "none"])
  /\ n' = n + 1
  /\ UNCHANGED <<live, signalled, open, pipe, rc, readVars, orphans>>

StartAgent ==
  /\ CanStart
  /\ par' = "read" /\ n' = n + 1 /\ attempts' = attempts + 1
  /\ live' = live \cup {n'} /\ signalled' = FALSE
  /\ open' = TRUE /\ pipe' = <<>> /\ rc' = "none"
  /\ tail' = {} /\ result' = NoResult /\ tools' = 0 /\ stop' = "none"
  /\ UNCHANGED <<infra, over, orphans>>

StartRequest ==
  /\ CanStart
  /\ par' = "request" /\ n' = n + 1 /\ attempts' = attempts + 1
  /\ signalled' = FALSE /\ open' = FALSE /\ pipe' = <<>> /\ rc' = "none"
  /\ tail' = {} /\ result' = NoResult /\ tools' = 0 /\ stop' = "none"
  /\ UNCHANGED <<live, infra, over, orphans>>

\* The completion is empty, the call fails with what the server says, or its
\* body stalls, which is no URLError.
Answer ==
  /\ par = "request"
  /\ \/ Settle(attempts, [outcome |-> "done", text |-> {}, rc |-> "0"])
     \/ Settle(attempts, [outcome |-> "failed", text |-> {}, rc |-> "1"])
     \/ \E text \in SUBSET {"limit", "auth", "long"} :
          Settle(attempts, [outcome |-> "failed", text |-> text, rc |-> "none"])
     \/ Raise
  /\ UNCHANGED <<agentVars, readVars, orphans>>

-----------------------------------------------------------------------------
(* The agent: a child process of the engine and whatever it starts.        *)

\* The pipe outlives the child while a descendant holds it.
AgentWrites ==
  /\ par # "idle" /\ open /\ Len(pipe) < PipeSize
  /\ \E x \in Line : pipe' = Append(pipe, x)
  /\ UNCHANGED <<par, n, live, signalled, open, rc, readVars, loopVars, orphans>>

OutputCloses ==
  /\ par # "idle" /\ open /\ open' = FALSE
  /\ UNCHANGED <<par, n, live, signalled, pipe, rc, readVars, loopVars, orphans>>

AgentExits ==
  /\ n \in live \ orphans /\ ~signalled
  /\ live' = live \ {n} /\ rc' \in {"0", "1"}
  /\ UNCHANGED <<par, n, signalled, open, pipe, readVars, loopVars, orphans>>

SignalArrives ==
  /\ n \in live /\ signalled
  /\ live' = live \ {n} /\ rc' = "-9"
  /\ UNCHANGED <<par, n, signalled, open, pipe, readVars, loopVars, orphans>>

OrphanDies ==
  /\ \E k \in live \cap orphans : live' = live \ {k}
  /\ UNCHANGED <<par, n, signalled, open, pipe, rc, readVars, loopVars, orphans>>

-----------------------------------------------------------------------------
(* run_streaming.                                                          *)

\* proc.kill() does nothing to a child that is dead.
Kill == signalled' = (signalled \/ n \in live)

Scroll(words) == tail' \in {tail \cup words, words}

\* Mutant: reading stops at the ceiling without the kill.
ReadToolSparing ==
  /\ Head(pipe).kind = "tool" /\ tools' = tools + 1
  /\ IF tools' > MaxToolUses
     THEN stop' = "runaway" /\ par' = "wait"
     ELSE UNCHANGED <<stop, par>>
  /\ UNCHANGED <<result, signalled>>

ReadTool ==
  /\ Head(pipe).kind = "tool" /\ tools' = tools + 1
  /\ IF tools' > MaxToolUses
     THEN stop' = "runaway" /\ par' = "wait" /\ Kill
     ELSE UNCHANGED <<stop, par, signalled>>
  /\ UNCHANGED result

\* A rate_limit_event that blocks, or one at the threshold.
ReadLimit ==
  /\ Head(pipe).kind = "event" /\ stop' = "quota" /\ par' = "wait" /\ Kill
  /\ UNCHANGED <<tools, result>>

ReadResult ==
  /\ Head(pipe).kind = "result"
  /\ result' = [words |-> Head(pipe).words, error |-> Head(pipe).error, some |-> TRUE]
  /\ UNCHANGED <<tools, stop, par, signalled>>

ReadTalk == Head(pipe).kind = "talk" /\ UNCHANGED <<tools, stop, par, signalled, result>>

ReadLine ==
  /\ par = "read" /\ pipe # <<>>
  /\ ReadTool \/ ReadLimit \/ ReadResult \/ ReadTalk
  /\ Scroll(Head(pipe).words) /\ pipe' = Tail(pipe)
  /\ UNCHANGED <<n, live, open, rc, loopVars, orphans>>

EndOfOutput ==
  /\ par = "read" /\ pipe = <<>> /\ ~open /\ par' = "wait"
  /\ UNCHANGED <<agentVars, readVars, loopVars, orphans>>

\* A line is longer than the reader takes, or the callback cannot write its
\* event: the exception passes through the finally block.
ReadBreaks ==
  /\ par = "read" /\ pipe # <<>> /\ par' = "raise" /\ Kill
  /\ UNCHANGED <<n, live, open, pipe, rc, readVars, loopVars, orphans>>

\* Mutant: a timeout returns without the finally block.
SilenceReturns ==
  /\ par = "read" /\ pipe = <<>> /\ open /\ Settle(attempts, Result("timeout"))
  /\ UNCHANGED <<agentVars, readVars, orphans>>

\* timeout_s passed without a line.
Silence ==
  /\ par = "read" /\ pipe = <<>> /\ open /\ par' = "timeout" /\ Kill
  /\ UNCHANGED <<n, live, open, pipe, rc, readVars, loopVars, orphans>>

\* proc.wait() has no timeout of its own.
Reap ==
  /\ par \in {"wait", "timeout", "raise", "cancel"} /\ n \notin live
  /\ CASE par = "wait"    -> Settle(attempts, Result(rc))
       [] par = "timeout" -> Settle(attempts, Result("timeout"))
       [] par = "raise"   -> Raise
       [] OTHER           -> par' = "idle" /\ over' = "interrupted" /\ UNCHANGED <<attempts, infra>>
  /\ UNCHANGED <<agentVars, readVars, orphans>>

-----------------------------------------------------------------------------
(* The session.                                                            *)

\* Ctrl-C cancels the coroutine at its await; the request's thread runs on.
Interrupt ==
  /\ "interrupt" \in Env /\ par \in {"read", "wait", "request"}
  /\ IF par = "request" THEN par' = "idle" /\ over' = "interrupted" /\ UNCHANGED signalled
                        ELSE par' = "cancel" /\ Kill /\ UNCHANGED over
  /\ UNCHANGED <<n, live, open, pipe, rc, readVars, attempts, infra, orphans>>

\* The engine is killed; nothing kills its child.
EngineDies ==
  /\ "crash" \in Env /\ par # "idle"
  /\ par' = "idle" /\ over' = "interrupted"
  /\ orphans' = orphans \cup (live \cap {n})
  /\ open' = FALSE /\ pipe' = <<>> /\ UNCHANGED <<n, live, rc>>
  /\ signalled' = FALSE
  /\ UNCHANGED <<readVars, attempts, infra>>

\* resume resets the attempts of a wave that was running or is blocked, not
\* of one that waits for its quota.
Resume ==
  /\ par = "idle" /\ over \in {"blocked", "interrupted", "paused"} /\ n < MaxDispatch
  /\ attempts' = IF over = "paused" THEN attempts ELSE 0
  /\ over' = IF attempts' < MaxAttempts THEN "no" ELSE "blocked"
  /\ infra' = 0
  /\ UNCHANGED <<par, agentVars, readVars, orphans>>

Parent == ReadLine \/ EndOfOutput \/ Silence \/ Reap
ANext ==
  \/ Unavailable \/ StartAgent \/ StartRequest \/ Answer
  \/ AgentWrites \/ OutputCloses \/ AgentExits \/ SignalArrives \/ OrphanDies
  \/ Parent \/ ReadBreaks \/ Interrupt \/ EngineDies \/ Resume

\* The event loop runs its coroutine, SIGKILL arrives, a request has a timeout.
Fairness == WF_avars(Parent) /\ WF_avars(SignalArrives) /\ WF_avars(Answer)
ASpec == AInit /\ [][ANext]_avars /\ Fairness

-----------------------------------------------------------------------------
\* Only the current dispatch has an agent at work in the worktree: however a
\* dispatch ended, its child is dead before the next attempt starts, unless
\* the engine itself was killed (run_streaming's finally block).
OneAgentAtWork == live \ orphans \subseteq IF par = "idle" THEN {} ELSE {n}

\* A dispatch ends unless its agent keeps writing or has closed its output and
\* lives on: silence, a descendant that holds the pipe and every kill end it
\* (the timeout of run_streaming, which is per line).
Detached == par = "wait" /\ n \in live /\ stop = "none"
DispatchEnds == []<>(par = "idle") \/ []<><<ReadLine>>_avars \/ <>[]Detached
=============================================================================
