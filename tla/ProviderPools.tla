--------------------------- MODULE ProviderPools ---------------------------
(***************************************************************************)
(* ProviderPoolRegistry (adapters/pools.py) under the waves that use it:   *)
(* one worker per wave coroutine of _execute_node_body, which picks a      *)
(* provider before every dispatch, holds a global and a provider slot      *)
(* while it is dispatched, reports infra failures and clean dispatches,    *)
(* and gives the slots back when it ends.                                  *)
(*                                                                         *)
(* asyncio.Semaphore is fair: the global waiters are a queue.  A provider  *)
(* slot is waited for by polling.                                          *)
(***************************************************************************)
EXTENDS Integers, Sequences, FiniteSets

CONSTANTS
  Worker,      \* the coroutines of a concurrent round
  Provider,    \* the configured providers
  NoProvider,  \* no provider yet (None)
  NoWorker,    \* nobody's report
  Chain,       \* Chain[w]: the wave's provider, then its fallbacks
  GlobalLimit, \* the global ceiling (max_parallel)
  Base,        \* Base[p]: the configured max_parallel of p
  Threshold,   \* INFRA_STREAK_THRESHOLD
  MaxTries     \* most dispatches of one wave (attempts and infra retries)

ASSUME PoolAssumption ==
  /\ IsFiniteSet(Worker)
  /\ NoProvider \notin Provider
  /\ NoWorker \notin Worker
  /\ Chain \in [Worker -> Seq(Provider) \ {<<>>}]
  /\ GlobalLimit \in Nat \ {0}
  /\ Base \in [Provider -> Nat \ {0}]
  /\ Threshold \in Nat \ {0}
  /\ MaxTries \in Nat

VARIABLES
  \* the registry
  free,     \* permits left in the global semaphore
  queue,    \* workers waiting for the global semaphore, in order
  holds,    \* _holds: the provider of every hold, oldest first
  limit,    \* _effective_limits
  streak,   \* _consecutive_infra, counted up to the threshold
  coolBy,   \* whose infra report set _cooldown_until[p]; NoWorker: no cooldown
  \* the workers
  st,       \* where the coroutine stands
  prov,     \* its local pool_provider
  want,     \* the provider acquire() was called with
  tries     \* dispatches so far

registry == <<free, queue, holds, limit, streak, coolBy>>
vars == <<registry, st, prov, want, tries>>

WorkerStates == {"top", "queued", "polling", "busy", "sleeping", "gone"}

TypeOK ==
  /\ free \in 0 .. GlobalLimit
  /\ queue \in Seq(Worker)
  /\ holds \in Seq(Provider)
  /\ limit \in [Provider -> Nat]
  /\ streak \in [Provider -> 0 .. Threshold]
  /\ coolBy \in [Provider -> Worker \cup {NoWorker}]
  /\ st \in [Worker -> WorkerStates]
  /\ prov \in [Worker -> Provider \cup {NoProvider}]
  /\ want \in [Worker -> Provider \cup {NoProvider}]
  /\ tries \in [Worker -> 0 .. MaxTries]

-----------------------------------------------------------------------------
\* _pick_provider: p is the first of the chain that is not in cooldown, or
\* the primary when all are.
IsPick(w, p) ==
  LET warm == {i \in DOMAIN Chain[w] : coolBy[Chain[w][i]] = NoWorker}
  IN \/ warm = {} /\ p = Chain[w][1]
     \/ \E i \in warm : p = Chain[w][i] /\ \A j \in warm : i <= j

\* Holds on provider p: what acquire() compares with the effective limit.
HoldsOf(p) == Cardinality({i \in DOMAIN holds : holds[i] = p})

\* Mutant of ReleaseLast: the global permit is kept.
ReleaseProviderOnly ==
  IF holds = <<>>
  THEN UNCHANGED <<holds, free>>
  ELSE /\ holds' = SubSeq(holds, 1, Len(holds) - 1)
       /\ free' = free

\* release() gives back the most recent hold, whoever took it.
ReleaseLast ==
  IF holds = <<>>
  THEN UNCHANGED <<holds, free>>
  ELSE /\ holds' = SubSeq(holds, 1, Len(holds) - 1)
       /\ free' = free + 1

\* Mutant of Resized: a limit may be halved to zero.
ResizedToZero(p, k) == IF k > Base[p] THEN Base[p] ELSE k

\* _resize_provider keeps a limit within 1 .. base.
Resized(p, k) == IF k < 1 THEN 1 ELSE IF k > Base[p] THEN Base[p] ELSE k

RecordSuccess(p) ==
  /\ streak' = [streak EXCEPT ![p] = 0]
  /\ limit' = [limit EXCEPT ![p] = IF @ < Base[p] THEN Resized(p, @ + 1) ELSE @]

RecordInfra(p, w) ==
  LET hot == streak[p] + 1 >= Threshold
  IN /\ streak' = [streak EXCEPT ![p] = IF hot THEN Threshold ELSE @ + 1]
     /\ limit' = [limit EXCEPT ![p] = IF hot THEN Resized(p, @ \div 2) ELSE @]
     /\ coolBy' = [coolBy EXCEPT ![p] = IF hot THEN w ELSE @]

-----------------------------------------------------------------------------
Init ==
  /\ free = GlobalLimit
  /\ queue = <<>>
  /\ holds = <<>>
  /\ limit = Base
  /\ streak = [p \in Provider |-> 0]
  /\ coolBy = [p \in Provider |-> NoWorker]
  /\ st = [w \in Worker |-> "top"]
  /\ prov = [w \in Worker |-> NoProvider]
  /\ want = [w \in Worker |-> NoProvider]
  /\ tries = [w \in Worker |-> 0]

\* The next dispatch goes to the provider whose slots are already held.
KeepSlot(w) ==
  /\ st[w] = "top" /\ tries[w] < MaxTries
  /\ IsPick(w, prov[w])
  /\ st' = [st EXCEPT ![w] = "busy"]
  /\ tries' = [tries EXCEPT ![w] = @ + 1]
  /\ UNCHANGED <<registry, prov, want>>

\* Another provider (or the first one): release, then call acquire().
SwitchProvider(w) ==
  /\ st[w] = "top" /\ tries[w] < MaxTries
  /\ ~IsPick(w, prov[w])
  /\ IF prov[w] = NoProvider THEN UNCHANGED <<holds, free>> ELSE ReleaseLast
  /\ \E p \in Provider : IsPick(w, p) /\ want' = [want EXCEPT ![w] = p]
  /\ queue' = Append(queue, w)
  /\ st' = [st EXCEPT ![w] = "queued"]
  /\ tries' = [tries EXCEPT ![w] = @ + 1]
  /\ UNCHANGED <<limit, streak, coolBy, prov>>

TakeGlobal(w) ==
  /\ queue # <<>> /\ Head(queue) = w
  /\ free > 0
  /\ free' = free - 1
  /\ queue' = Tail(queue)
  /\ st' = [st EXCEPT ![w] = "polling"]
  /\ UNCHANGED <<holds, limit, streak, coolBy, prov, want, tries>>

\* Mutant of Admit: off by one.
AdmitOneMore(w) ==
  /\ st[w] = "polling"
  /\ HoldsOf(want[w]) <= limit[want[w]]
  /\ holds' = Append(holds, want[w])
  /\ prov' = [prov EXCEPT ![w] = want[w]]
  /\ want' = [want EXCEPT ![w] = NoProvider]
  /\ st' = [st EXCEPT ![w] = "busy"]
  /\ UNCHANGED <<free, queue, limit, streak, coolBy, tries>>

\* The poll finds room: the provider semaphore is taken and the hold noted.
Admit(w) ==
  /\ st[w] = "polling"
  /\ HoldsOf(want[w]) < limit[want[w]]
  /\ holds' = Append(holds, want[w])
  /\ prov' = [prov EXCEPT ![w] = want[w]]
  /\ want' = [want EXCEPT ![w] = NoProvider]
  /\ st' = [st EXCEPT ![w] = "busy"]
  /\ UNCHANGED <<free, queue, limit, streak, coolBy, tries>>

\* An infra failure: reported, then slept through with the slots still held.
InfraFailure(w) ==
  /\ st[w] = "busy"
  /\ RecordInfra(prov[w], w)
  /\ st' = [st EXCEPT ![w] = "sleeping"]
  /\ UNCHANGED <<free, queue, holds, prov, want, tries>>

\* The sleep is as long as the cooldown that the same report started, so that
\* cooldown is over unless another worker's report has renewed it since.
Wake(w) ==
  /\ st[w] = "sleeping"
  /\ st' = [st EXCEPT ![w] = "top"]
  /\ coolBy' = [p \in Provider |-> IF coolBy[p] = w THEN NoWorker ELSE coolBy[p]]
  /\ UNCHANGED <<free, queue, holds, limit, streak, prov, want, tries>>

\* The infra streak cap of the coroutine: retried without a report.
UnreportedFailure(w) ==
  /\ st[w] = "busy"
  /\ st' = [st EXCEPT ![w] = "top"]
  /\ UNCHANGED <<registry, prov, want, tries>>

\* A dispatch that reached the agent, to be retried ...
Retry(w) ==
  /\ st[w] = "busy"
  /\ RecordSuccess(prov[w])
  /\ st' = [st EXCEPT ![w] = "top"]
  /\ UNCHANGED <<free, queue, holds, coolBy, prov, want, tries>>

\* The finally block of the coroutine.
End(w) ==
  /\ st' = [st EXCEPT ![w] = "gone"]
  /\ prov' = [prov EXCEPT ![w] = NoProvider]
  /\ IF prov[w] = NoProvider THEN UNCHANGED <<holds, free>> ELSE ReleaseLast

\* ... or the last one.
Complete(w) ==
  /\ st[w] = "busy"
  /\ RecordSuccess(prov[w])
  /\ End(w)
  /\ UNCHANGED <<queue, coolBy, want, tries>>

\* The coroutine ends without a report: the adapter raised, or at the top of
\* the loop no attempt or no budget is left.
GiveUp(w) ==
  /\ st[w] \in {"busy", "top"}
  /\ End(w)
  /\ UNCHANGED <<queue, limit, streak, coolBy, want, tries>>

\* The next round starts when every coroutine has ended; the registry lives on.
NextRound ==
  /\ \A w \in Worker : st[w] = "gone"
  /\ st' = [w \in Worker |-> "top"]
  /\ tries' = [w \in Worker |-> 0]
  /\ UNCHANGED <<registry, prov, want>>

Step(w) ==
  \/ KeepSlot(w) \/ SwitchProvider(w) \/ TakeGlobal(w) \/ Admit(w)
  \/ InfraFailure(w) \/ Wake(w) \/ UnreportedFailure(w) \/ Retry(w)
  \/ Complete(w) \/ GiveUp(w)

Next == NextRound \/ \E w \in Worker : Step(w)

Spec == Init /\ [][Next]_vars

\* The event loop runs every coroutine that can go on: dispatches time out,
\* sleeps and polls return.
FairSpec == Spec /\ \A w \in Worker : WF_vars(Step(w))

-----------------------------------------------------------------------------
\* The workers that own a hold, and those that own a global permit.
Owners  == {w \in Worker : st[w] \in {"top", "busy", "sleeping"} /\ prov[w] # NoProvider}
Holders == Owners \cup {w \in Worker : st[w] = "polling"}

\* The global ceiling: never more coroutines past the global semaphore than
\* max_parallel, and no permit is lost or invented, although release() may
\* give back another worker's hold.
GlobalCeiling == free + Cardinality(Holders) = GlobalLimit

\* _holds has one entry per worker that owns a slot.
HoldsCounted == Len(holds) = Cardinality(Owners)

\* A poll that finds fewer holds than the effective limit never blocks on the
\* provider semaphore, which has base - holds permits: throttling moves the
\* effective limit, never the semaphore.
LimitWithinBase ==
  \A p \in Provider : limit[p] \in 1 .. Base[p] /\ HoldsOf(p) <= Base[p]

\* A worker that asked for a slot is dispatched (whatever slots polls hold,
\* and whichever provider they wait for).
EveryoneServed ==
  \A w \in Worker : st[w] = "queued" ~> st[w] = "busy"

-----------------------------------------------------------------------------
(* The inductive invariant behind the ceilings.                            *)

\* Whoever is in the queue waits, once; a waiting worker knows what it wants,
\* a dispatched one what it holds, and one that has ended holds nothing.
Places ==
  /\ \A i \in DOMAIN queue : st[queue[i]] = "queued"
  /\ \A i, j \in DOMAIN queue : queue[i] = queue[j] => i = j
  /\ \A w \in Worker :
       /\ st[w] \in {"queued", "polling"} => want[w] \in Provider
       /\ st[w] \in {"busy", "sleeping"} => prov[w] \in Provider
       /\ st[w] = "gone" => prov[w] = NoProvider

PoolInv ==
  /\ TypeOK
  /\ Places
  /\ GlobalCeiling
  /\ HoldsCounted
  /\ LimitWithinBase
=============================================================================
