-------------------------- MODULE Dispatch_proofs ---------------------------
(***************************************************************************)
(* Proofs about one dispatch of a wave: the permit it takes from the       *)
(* provider pools (ProviderPools) and the agent it runs (AgentDispatch).   *)
(***************************************************************************)
EXTENDS ProviderPools, AgentDispatch, FiniteSetTheorems, SequenceTheorems, TLAPS

-----------------------------------------------------------------------------
(***************************************************************************)
(* The global ceiling of the provider pools and the bounds of the provider *)
(* limits hold for any number of workers, providers and permits, although  *)
(* release() may give back another worker's hold: what is counted is right *)
(* even when the wrong entry is removed.                                   *)
(***************************************************************************)

\* The counted sets are finite.
LEMMA Finite ==
  /\ IsFiniteSet(Owners) /\ IsFiniteSet(Holders)
  /\ Cardinality(Owners) \in Nat /\ Cardinality(Holders) \in Nat
<1>1. Owners \in SUBSET Worker /\ Holders \in SUBSET Worker
  BY DEF Owners, Holders
<1>2. IsFiniteSet(Owners) /\ IsFiniteSet(Holders)
  BY <1>1, PoolAssumption, FS_Subset
<1> QED
  BY <1>2, FS_CardinalityType

\* What is left of a sequence without its last element.
LEMMA FrontFacts ==
  ASSUME NEW S, NEW s \in Seq(S), s # <<>>
  PROVE  /\ SubSeq(s, 1, Len(s) - 1) \in Seq(S)
         /\ Len(SubSeq(s, 1, Len(s) - 1)) = Len(s) - 1
         /\ \A i \in 1 .. Len(s) - 1 : SubSeq(s, 1, Len(s) - 1)[i] = s[i]
<1>1. Len(s) \in Nat \ {0}
  OBVIOUS
<1>2. \A i \in 1 .. Len(s) - 1 : s[i] \in S
  BY <1>1
<1>3. 1 \in Int /\ Len(s) - 1 \in Int
  BY <1>1
<1>4. /\ SubSeq(s, 1, Len(s) - 1) \in Seq(S)
      /\ Len(SubSeq(s, 1, Len(s) - 1))
           = IF 1 <= Len(s) - 1 THEN (Len(s) - 1) - 1 + 1 ELSE 0
      /\ \A i \in 1 .. (Len(s) - 1) - 1 + 1 : SubSeq(s, 1, Len(s) - 1)[i] = s[1 + i - 1]
  BY <1>2, <1>3, SubSeqProperties
<1>5. Len(SubSeq(s, 1, Len(s) - 1)) = Len(s) - 1
  <2>1. PICK l : l = Len(SubSeq(s, 1, Len(s) - 1))
    OBVIOUS
  <2>2. l = IF 1 <= Len(s) - 1 THEN (Len(s) - 1) - 1 + 1 ELSE 0
    BY <1>4, <2>1, Zenon
  <2>3. PICK k \in Nat \ {0} : k = Len(s)
    BY <1>1
  <2>4. l = IF 1 <= k - 1 THEN (k - 1) - 1 + 1 ELSE 0
    BY <2>2, <2>3, Zenon
  <2>5. l = k - 1
    BY ONLY <2>4
  <2> QED
    BY <2>1, <2>3, <2>5, Zenon
<1>6. (Len(s) - 1) - 1 + 1 = Len(s) - 1 /\ \A i \in 1 .. Len(s) - 1 : 1 + i - 1 = i
  BY <1>1
<1> QED
  BY <1>4, <1>5, <1>6

\* A worker that owns a slot can release one, and the counts go down by one.
LEMMA ReleaseEffect ==
  ASSUME PoolInv, NEW w \in Owners, ReleaseLast
  PROVE  /\ holds' \in Seq(Provider)
         /\ Len(holds') = Len(holds) - 1
         /\ free' = free + 1
         /\ \A p \in Provider :
              {i \in DOMAIN holds' : holds'[i] = p} \subseteq {i \in DOMAIN holds : holds[i] = p}
<1> USE DEF PoolInv, TypeOK
<1>1. Cardinality(Owners) # 0
  BY Finite, FS_EmptySet
<1>2. holds # <<>> /\ Len(holds) \in Nat \ {0}
  BY <1>1, Finite, SMT DEF HoldsCounted
<1>3. holds' = SubSeq(holds, 1, Len(holds) - 1) /\ free' = free + 1
  BY <1>2 DEF ReleaseLast
<1>4. /\ holds' \in Seq(Provider) /\ Len(holds') = Len(holds) - 1
      /\ \A i \in 1 .. Len(holds) - 1 : holds'[i] = holds[i]
  BY <1>2, <1>3, FrontFacts
<1>5. DOMAIN holds' = 1 .. Len(holds) - 1 /\ DOMAIN holds = 1 .. Len(holds)
  BY <1>4
<1>6. \A i \in DOMAIN holds' : i \in DOMAIN holds /\ holds'[i] = holds[i]
  <2>1. \A i \in 1 .. Len(holds) - 1 : i \in 1 .. Len(holds)
    BY <1>2
  <2> QED
    BY <1>4, <1>5, <2>1, Zenon
<1> QED
  BY <1>3, <1>4, <1>6

\* The number of holds on a provider.
LEMMA HoldsOfType ==
  ASSUME TypeOK
  PROVE  \A p \in Provider :
           /\ IsFiniteSet({i \in DOMAIN holds : holds[i] = p})
           /\ HoldsOf(p) \in Nat
<1> SUFFICES ASSUME NEW p \in Provider
             PROVE  /\ IsFiniteSet({i \in DOMAIN holds : holds[i] = p})
                    /\ HoldsOf(p) \in Nat
  OBVIOUS
<1>1. DOMAIN holds = 1 .. Len(holds) /\ Len(holds) \in Nat
  BY DEF TypeOK
<1>2. IsFiniteSet(1 .. Len(holds))
  BY <1>1, FS_Interval
<1>3. {i \in DOMAIN holds : holds[i] = p} \subseteq 1 .. Len(holds)
  BY <1>1
<1> QED
  BY <1>2, <1>3, FS_Subset, FS_CardinalityType DEF HoldsOf

\* Removing a hold can only lower the count of a provider.
LEMMA ReleaseLowers ==
  ASSUME PoolInv, NEW w \in Owners, ReleaseLast
  PROVE  \A p \in Provider : HoldsOf(p)' <= HoldsOf(p) /\ HoldsOf(p)' \in Nat
<1> SUFFICES ASSUME NEW p \in Provider
             PROVE  HoldsOf(p)' <= HoldsOf(p) /\ HoldsOf(p)' \in Nat
  OBVIOUS
<1>1. {i \in DOMAIN holds' : holds'[i] = p} \subseteq {i \in DOMAIN holds : holds[i] = p}
  BY ReleaseEffect
<1> QED
  BY <1>1, HoldsOfType, FS_Subset, FS_CardinalityType DEF HoldsOf, PoolInv

\* Adding a hold raises the count of its provider by one and no other.
LEMMA AdmitRaises ==
  ASSUME TypeOK, NEW q \in Provider, holds' = Append(holds, q)
  PROVE  /\ HoldsOf(q)' = HoldsOf(q) + 1
         /\ \A p \in Provider \ {q} : HoldsOf(p)' = HoldsOf(p)
<1>1. holds \in Seq(Provider) /\ Len(holds) \in Nat
  BY DEF TypeOK
<1>2. /\ DOMAIN holds = 1 .. Len(holds) /\ DOMAIN holds' = 1 .. Len(holds) + 1
      /\ \A i \in 1 .. Len(holds) : holds'[i] = holds[i]
      /\ holds'[Len(holds) + 1] = q
  BY <1>1
<1>3. /\ {i \in DOMAIN holds' : holds'[i] = q}
           = {i \in DOMAIN holds : holds[i] = q} \cup {Len(holds) + 1}
      /\ Len(holds) + 1 \notin {i \in DOMAIN holds : holds[i] = q}
  BY <1>1, <1>2
<1>4. \A p \in Provider \ {q} :
        {i \in DOMAIN holds' : holds'[i] = p} = {i \in DOMAIN holds : holds[i] = p}
  BY <1>1, <1>2
<1>5. HoldsOf(q)' = HoldsOf(q) + 1
  BY <1>3, HoldsOfType, FS_AddElement DEF HoldsOf
<1> QED
  BY <1>4, <1>5 DEF HoldsOf

\* Every limit stays within 1 .. base, whatever is reported.
LEMMA ResizedBounds ==
  ASSUME NEW p \in Provider, NEW k \in Nat
  PROVE  Resized(p, k) \in 1 .. Base[p]
BY PoolAssumption, SMT DEF Resized

\* One more try stays within the ceiling on tries when the guard holds.
LEMMA OneMoreTry ==
  ASSUME NEW f \in [Worker -> 0 .. MaxTries], NEW w \in Worker, f[w] < MaxTries
  PROVE  [f EXCEPT ![w] = f[w] + 1] \in [Worker -> 0 .. MaxTries]
<1>1. f[w] \in 0 .. MaxTries /\ MaxTries \in Nat
  BY PoolAssumption
<1>2. f[w] + 1 \in 0 .. MaxTries
  BY <1>1, SMT
<1> QED
  BY <1>2, Zenon

\* A step of one worker leaves the others where they are.
LEMMA OneWorker ==
  ASSUME TypeOK, NEW w \in Worker, Step(w)
  PROVE  \A v \in Worker \ {w} : st'[v] = st[v] /\ prov'[v] = prov[v]
BY SMT DEF TypeOK, Step, KeepSlot, SwitchProvider, TakeGlobal, Admit, InfraFailure,
   Wake, UnreportedFailure, Retry, Complete, GiveUp, End

\* Two sets of workers that differ in one worker at most.
LEMMA CountMove ==
  ASSUME NEW S, IsFiniteSet(S), NEW T, IsFiniteSet(T), NEW x, S \ {x} = T \ {x}
  PROVE  Cardinality(T) = Cardinality(S)
           + (IF x \in T THEN 1 ELSE 0) - (IF x \in S THEN 1 ELSE 0)
<1>1. Cardinality(S \ {x}) = IF x \in S THEN Cardinality(S) - 1 ELSE Cardinality(S)
  BY FS_RemoveElement
<1>2. Cardinality(T \ {x}) = IF x \in T THEN Cardinality(T) - 1 ELSE Cardinality(T)
  BY FS_RemoveElement
<1>3. Cardinality(S) \in Nat /\ Cardinality(T) \in Nat
  BY FS_CardinalityType
<1> QED
  BY <1>1, <1>2, <1>3

\* A step of one worker changes the counted sets by that worker at most.
LEMMA Counts ==
  ASSUME TypeOK, NEW w \in Worker, Step(w)
  PROVE  /\ Cardinality(Owners') = Cardinality(Owners)
              + (IF w \in Owners' THEN 1 ELSE 0) - (IF w \in Owners THEN 1 ELSE 0)
         /\ Cardinality(Holders') = Cardinality(Holders)
              + (IF w \in Holders' THEN 1 ELSE 0) - (IF w \in Holders THEN 1 ELSE 0)
<1>1. \A v \in Worker \ {w} : (v \in Owners' <=> v \in Owners) /\ (v \in Holders' <=> v \in Holders)
  BY OneWorker, SMT DEF Owners, Holders
<1>2. Owners \cup Holders \cup Owners' \cup Holders' \subseteq Worker
  BY DEF Owners, Holders
<1>3. Owners' \ {w} = Owners \ {w} /\ Holders' \ {w} = Holders \ {w}
  BY <1>1, <1>2
<1>4. IsFiniteSet(Owners') /\ IsFiniteSet(Holders')
  BY <1>2, PoolAssumption, FS_Subset
<1>5. Cardinality(Owners') = Cardinality(Owners)
        + (IF w \in Owners' THEN 1 ELSE 0) - (IF w \in Owners THEN 1 ELSE 0)
  BY <1>3, <1>4, Finite, CountMove, Zenon
<1>6. Cardinality(Holders') = Cardinality(Holders)
        + (IF w \in Holders' THEN 1 ELSE 0) - (IF w \in Holders THEN 1 ELSE 0)
  BY <1>3, <1>4, Finite, CountMove, Zenon
<1> QED
  BY <1>5, <1>6, Zenon

-----------------------------------------------------------------------------
(* The ceilings.                                                           *)

\* Giving slots back, if there are any.
LEMMA GiveBack ==
  ASSUME PoolInv, NEW w \in Worker, Step(w),
         st[w] \in {"top", "busy"}, w \notin Holders',
         IF prov[w] = NoProvider THEN UNCHANGED <<holds, free>> ELSE ReleaseLast
  PROVE  GlobalCeiling' /\ HoldsCounted'
<1> USE DEF PoolInv
<1>1. w \notin Owners'
  BY DEF Holders
<1>2. CASE prov[w] = NoProvider
  <2>1. w \notin Owners /\ w \notin Holders
    BY <1>2 DEF Owners, Holders
  <2> QED
    BY <1>1, <1>2, <2>1, Counts, Finite, SMT DEF GlobalCeiling, HoldsCounted
<1>3. CASE prov[w] # NoProvider
  <2>1. w \in Owners /\ w \in Holders
    BY <1>3 DEF Owners, Holders
  <2>2. Len(holds') = Len(holds) - 1 /\ free' = free + 1
    BY <1>3, <2>1, ReleaseEffect
  <2>3. TypeOK
    OBVIOUS
  <2>4. /\ Cardinality(Owners') = Cardinality(Owners) + 0 - 1
        /\ Cardinality(Holders') = Cardinality(Holders) + 0 - 1
    BY <1>1, <2>1, <2>3, Counts, Zenon
  <2>5. free \in Nat /\ Cardinality(Holders) \in Nat /\ GlobalLimit \in Nat
    BY <2>3, Finite, PoolAssumption DEF TypeOK
  <2>6. Cardinality(Owners) \in Nat
    BY <2>3, Finite
  <2>7. GlobalCeiling'
    BY <2>2, <2>4, <2>5, SMT DEF GlobalCeiling
  <2>8. HoldsCounted'
    BY <2>2, <2>4, <2>6, SMT DEF HoldsCounted
  <2> QED
    BY <2>7, <2>8
<1> QED
  BY <1>2, <1>3

\* Every step moves at most one worker in or out of the counted sets, and the
\* semaphore and the holds with it.
LEMMA CeilingStep ==
  ASSUME PoolInv, [Next]_vars
  PROVE  GlobalCeiling' /\ HoldsCounted'
<1> USE DEF PoolInv
<1>1. ASSUME NEW w \in Worker, Step(w)
      PROVE  GlobalCeiling' /\ HoldsCounted'
  <2>1. CASE \/ KeepSlot(w) \/ InfraFailure(w) \/ Wake(w) \/ UnreportedFailure(w)
             \/ Retry(w)
    <3>1. (w \in Owners' <=> w \in Owners) /\ (w \in Holders' <=> w \in Holders)
      BY <2>1, SMT DEF KeepSlot, InfraFailure, Wake, UnreportedFailure, Retry,
         Owners, Holders, TypeOK
    <3>2. free' = free /\ holds' = holds
      BY <2>1 DEF KeepSlot, InfraFailure, Wake, UnreportedFailure, Retry, registry
    <3> QED
      BY <1>1, <3>1, <3>2, Counts, Finite, SMT DEF GlobalCeiling, HoldsCounted
  <2>2. CASE TakeGlobal(w)
    <3>1. st[w] = "queued"
      BY <2>2 DEF TakeGlobal, Places, TypeOK
    <3>2. st'[w] = "polling" /\ free' = free - 1 /\ holds' = holds
      BY <2>2 DEF TakeGlobal, TypeOK
    <3>3. w \notin Owners /\ w \notin Holders /\ w \notin Owners' /\ w \in Holders'
      BY <3>1, <3>2 DEF Owners, Holders
    <3> QED
      BY <1>1, <3>2, <3>3, Counts, Finite, SMT DEF GlobalCeiling, HoldsCounted, TypeOK
  <2>3. CASE Admit(w)
    <3>1. want[w] \in Provider /\ want[w] # NoProvider
      BY <2>3, PoolAssumption DEF Admit, Places
    <3>2. st[w] = "polling" /\ st'[w] = "busy" /\ prov'[w] = want[w] /\ free' = free
      BY <2>3 DEF Admit, TypeOK
    <3>3. w \notin Owners /\ w \in Holders /\ w \in Owners' /\ w \in Holders'
      BY <3>1, <3>2 DEF Owners, Holders
    <3>4. Len(holds') = Len(holds) + 1
      BY <2>3, <3>1 DEF Admit, TypeOK
    <3> QED
      BY <1>1, <3>2, <3>3, <3>4, Counts, Finite, SMT DEF GlobalCeiling, HoldsCounted, TypeOK
  <2>4. CASE SwitchProvider(w)
    <3>1. st[w] = "top" /\ st'[w] = "queued"
      BY <2>4 DEF SwitchProvider, TypeOK
    <3>2. w \notin Holders'
      BY <3>1 DEF Owners, Holders
    <3> QED
      BY <1>1, <2>4, <3>1, <3>2, GiveBack DEF SwitchProvider
  <2>5. CASE Complete(w) \/ GiveUp(w)
    <3>1. st[w] \in {"top", "busy"} /\ st'[w] = "gone"
      BY <2>5 DEF Complete, GiveUp, End, TypeOK
    <3>2. w \notin Holders'
      BY <3>1 DEF Owners, Holders
    <3> QED
      BY <1>1, <2>5, <3>1, <3>2, GiveBack DEF Complete, GiveUp, End
  <2> QED
    BY <1>1, <2>1, <2>2, <2>3, <2>4, <2>5 DEF Step
<1>2. CASE NextRound
  <2>1. Owners' = Owners /\ Holders' = Holders
    BY <1>2, SMT DEF NextRound, Places, Owners, Holders, TypeOK
  <2> QED
    BY <1>2, <2>1 DEF NextRound, registry, GlobalCeiling, HoldsCounted
<1>3. CASE UNCHANGED vars
  BY <1>3 DEF vars, registry, GlobalCeiling, HoldsCounted, Owners, Holders
<1> QED
  BY <1>1, <1>2, <1>3 DEF Next

\* A report moves a limit, within its bounds, and no hold.
LEMMA ReportLimits ==
  ASSUME PoolInv, NEW p \in Provider, NEW w \in Worker, RecordSuccess(p) \/ RecordInfra(p, w)
  PROVE  /\ limit' \in [Provider -> Nat]
         /\ \A q \in Provider : limit'[q] \in 1 .. Base[q]
<1> USE DEF PoolInv, LimitWithinBase, TypeOK
<1>1. \/ limit' = limit
      \/ \E k \in Nat : limit' = [limit EXCEPT ![p] = Resized(p, k)]
  <2>1. limit[p] \in Nat /\ limit[p] + 1 \in Nat /\ limit[p] \div 2 \in Nat
    BY SMT
  <2>2. \/ limit' = limit
        \/ limit' = [limit EXCEPT ![p] = Resized(p, limit[p] + 1)]
        \/ limit' = [limit EXCEPT ![p] = Resized(p, limit[p] \div 2)]
    BY DEF RecordSuccess, RecordInfra
  <2> QED
    BY <2>1, <2>2
<1>2. ASSUME NEW k \in Nat, limit' = [limit EXCEPT ![p] = Resized(p, k)]
      PROVE  /\ limit' \in [Provider -> Nat]
             /\ \A q \in Provider : limit'[q] \in 1 .. Base[q]
  <2>1. Resized(p, k) \in 1 .. Base[p] /\ Base[p] \in Nat
    BY ResizedBounds, PoolAssumption
  <2> QED
    BY <1>2, <2>1
<1> QED
  BY <1>1, <1>2

\* The provider limits: an admission is below the effective limit, which is
\* at most the configured one; a release lowers the count.
LEMMA LimitStep ==
  ASSUME PoolInv, [Next]_vars
  PROVE  LimitWithinBase' /\ limit' \in [Provider -> Nat]
<1> USE DEF PoolInv, LimitWithinBase
<1>1. ASSUME UNCHANGED <<limit, holds>>
      PROVE  LimitWithinBase' /\ limit' \in [Provider -> Nat]
  BY <1>1 DEF HoldsOf, TypeOK
<1>2. ASSUME NEW w \in Worker, Admit(w)
      PROVE  LimitWithinBase' /\ limit' \in [Provider -> Nat]
  <2>1. PICK q \in Provider : q = want[w]
    BY <1>2 DEF Admit, Places
  <2>2. HoldsOf(q) < limit[q] /\ holds' = Append(holds, q) /\ limit' = limit
    BY <1>2, <2>1 DEF Admit
  <2>3. /\ HoldsOf(q)' = HoldsOf(q) + 1
        /\ \A p \in Provider \ {q} : HoldsOf(p)' = HoldsOf(p)
    BY <2>2, AdmitRaises
  <2>4. HoldsOf(q) \in Nat /\ limit[q] \in 1 .. Base[q] /\ Base[q] \in Nat
    BY HoldsOfType, PoolAssumption
  <2>5. HoldsOf(q)' <= Base[q]
    BY <2>2, <2>3, <2>4
  <2>6. \A p \in Provider : HoldsOf(p)' <= Base[p]
    BY <2>3, <2>5
  <2> QED
    BY <2>2, <2>6 DEF TypeOK
<1>3. ASSUME NEW w \in Worker, st[w] \in {"top", "busy"},
             IF prov[w] = NoProvider THEN UNCHANGED <<holds, free>> ELSE ReleaseLast
      PROVE  \A p \in Provider : HoldsOf(p)' <= Base[p]
  <2>1. CASE prov[w] = NoProvider
    BY <1>3, <2>1 DEF HoldsOf
  <2>2. CASE prov[w] # NoProvider
    <3>1. w \in Owners
      BY <1>3, <2>2 DEF Owners
    <3>2. PICK v \in Owners : v = w
      BY <3>1
    <3>3. \A p \in Provider : HoldsOf(p)' <= HoldsOf(p) /\ HoldsOf(p)' \in Nat
      BY <1>3, <2>2, <3>2, ReleaseLowers
    <3>4. \A p \in Provider : HoldsOf(p) <= Base[p] /\ HoldsOf(p) \in Nat /\ Base[p] \in Nat
      BY HoldsOfType, PoolAssumption
    <3> QED
      BY <3>3, <3>4
  <2> QED
    BY <2>1, <2>2
<1>4. ASSUME NEW w \in Worker, InfraFailure(w) \/ Retry(w)
      PROVE  LimitWithinBase' /\ limit' \in [Provider -> Nat]
  <2>1. prov[w] \in Provider /\ holds' = holds
    BY <1>4 DEF InfraFailure, Retry, Places
  <2>2. RecordSuccess(prov[w]) \/ RecordInfra(prov[w], w)
    BY <1>4 DEF InfraFailure, Retry
  <2> QED
    BY <2>1, <2>2, ReportLimits DEF HoldsOf
<1>5. ASSUME NEW w \in Worker, Complete(w)
      PROVE  LimitWithinBase' /\ limit' \in [Provider -> Nat]
  <2>1. prov[w] \in Provider /\ RecordSuccess(prov[w])
    BY <1>5 DEF Complete, Places
  <2> QED
    BY <1>3, <1>5, <2>1, ReportLimits DEF Complete, End
<1>6. ASSUME NEW w \in Worker, SwitchProvider(w) \/ GiveUp(w)
      PROVE  LimitWithinBase' /\ limit' \in [Provider -> Nat]
  <2>1. limit' = limit
    BY <1>6 DEF SwitchProvider, GiveUp
  <2> QED
    BY <1>3, <1>6, <2>1 DEF SwitchProvider, GiveUp, End, TypeOK
<1>7. ASSUME NEW w \in Worker, KeepSlot(w) \/ TakeGlobal(w) \/ Wake(w) \/ UnreportedFailure(w)
      PROVE  UNCHANGED <<limit, holds>>
  BY <1>7 DEF KeepSlot, TakeGlobal, Wake, UnreportedFailure, registry
<1>8. NextRound \/ UNCHANGED vars => UNCHANGED <<limit, holds>>
  BY DEF NextRound, vars, registry
<1> QED
  BY <1>1, <1>2, <1>4, <1>5, <1>6, <1>7, <1>8 DEF Next, Step

\* A picked provider is a configured one.
LEMMA PickInProvider ==
  ASSUME NEW w \in Worker, NEW p, IsPick(w, p)
  PROVE  p \in Provider
<1>1. Chain[w] \in Seq(Provider) /\ Chain[w] # <<>>
  BY PoolAssumption
<1>2. \A i \in DOMAIN Chain[w] : Chain[w][i] \in Provider
  BY <1>1
<1>3. 1 \in DOMAIN Chain[w]
  BY <1>1
<1> QED
  BY <1>2, <1>3, Zenon DEF IsPick

\* A worker joins at the tail of a queue it is not in: no entry is repeated.
LEMMA JoinQueue ==
  ASSUME NEW q \in Seq(Worker), NEW w \in Worker,
         \A i \in DOMAIN q : q[i] # w,
         \A i, j \in DOMAIN q : q[i] = q[j] => i = j
  PROVE  /\ \A i, j \in DOMAIN Append(q, w) : Append(q, w)[i] = Append(q, w)[j] => i = j
         /\ \A i \in DOMAIN Append(q, w) :
              Append(q, w)[i] = w \/ (i \in DOMAIN q /\ Append(q, w)[i] = q[i])
<1>1. /\ DOMAIN Append(q, w) = 1 .. Len(q) + 1 /\ DOMAIN q = 1 .. Len(q) /\ Len(q) \in Nat
      /\ Append(q, w)[Len(q) + 1] = w
      /\ \A i \in 1 .. Len(q) : Append(q, w)[i] = q[i]
  OBVIOUS
<1>2. \A i \in DOMAIN Append(q, w) : i = Len(q) + 1 \/ i \in DOMAIN q
  BY <1>1
<1> QED
  BY <1>1, <1>2, Zenon

\* The queue stays a queue and workers stay in their places.
LEMMA PlacesStep ==
  ASSUME PoolInv, [Next]_vars
  PROVE  Places'
<1> USE DEF PoolInv, TypeOK
<1>1. ASSUME NEW w \in Worker, Step(w)
      PROVE  Places'
  <2>1. CASE SwitchProvider(w)
    <3>1. /\ queue' = Append(queue, w) /\ st[w] = "top" /\ st' = [st EXCEPT ![w] = "queued"]
          /\ prov' = prov
      BY <2>1 DEF SwitchProvider
    <3>2. \A i \in DOMAIN queue : queue[i] # w
      BY <3>1 DEF Places
    <3>3. /\ \A i, j \in DOMAIN queue' : queue'[i] = queue'[j] => i = j
          /\ \A i \in DOMAIN queue' :
               queue'[i] = w \/ (i \in DOMAIN queue /\ queue'[i] = queue[i])
      <4>1. queue \in Seq(Worker) /\ \A i, j \in DOMAIN queue : queue[i] = queue[j] => i = j
        BY DEF Places
      <4> QED
        BY <3>1, <3>2, <4>1, JoinQueue, Zenon
    <3>4. \A i \in DOMAIN queue' : st'[queue'[i]] = "queued"
      <4>1. \A v \in Worker : v = w \/ st[v] = "queued" => st'[v] = "queued"
        BY <3>1
      <4>2. \A i \in DOMAIN queue : queue[i] \in Worker /\ st[queue[i]] = "queued"
        BY DEF Places
      <4> QED
        BY <3>3, <4>1, <4>2, Zenon
    <3>5. PICK p \in Provider : want' = [want EXCEPT ![w] = p]
      BY <2>1 DEF SwitchProvider
    <3>6. ASSUME NEW v \in Worker
          PROVE  /\ st'[v] \in {"queued", "polling"} => want'[v] \in Provider
                 /\ st'[v] \in {"busy", "sleeping"} => prov'[v] \in Provider
                 /\ st'[v] = "gone" => prov'[v] = NoProvider
      <4>1. CASE v = w
        <5>1. st'[w] = "queued" /\ want'[w] \in Provider
          BY <3>1, <3>5
        <5> QED
          BY <4>1, <5>1, Zenon
      <4>2. CASE v # w
        <5>1. st'[v] = st[v] /\ want'[v] = want[v] /\ prov'[v] = prov[v]
          BY <3>1, <3>5, <4>2
        <5>2. /\ st[v] \in {"queued", "polling"} => want[v] \in Provider
              /\ st[v] \in {"busy", "sleeping"} => prov[v] \in Provider
              /\ st[v] = "gone" => prov[v] = NoProvider
          BY Zenon DEF Places
        <5> QED
          BY <5>1, <5>2, Zenon
      <4> QED
        BY <4>1, <4>2
    <3> QED
      BY <3>3, <3>4, <3>6, Zenon DEF Places
  <2>2. CASE TakeGlobal(w)
    <3>1. /\ queue # <<>> /\ Head(queue) = w /\ queue' = Tail(queue)
          /\ st' = [st EXCEPT ![w] = "polling"] /\ want' = want /\ prov' = prov
      BY <2>2 DEF TakeGlobal
    <3>2. /\ DOMAIN queue = 1 .. Len(queue) /\ DOMAIN queue' = 1 .. Len(queue) - 1
          /\ Len(queue) \in Nat \ {0} /\ queue[1] = w
          /\ \A i \in 1 .. Len(queue) - 1 : queue'[i] = queue[i + 1]
      BY <3>1, SMT
    <3>3. 1 \in DOMAIN queue /\ \A i \in DOMAIN queue' : i + 1 \in DOMAIN queue /\ i + 1 # 1
      BY <3>2
    <3>4. st[w] = "queued" /\ want[w] \in Provider
      BY <3>2, <3>3, Zenon DEF Places
    <3>5. \A i \in DOMAIN queue' :
            queue'[i] # w /\ st[queue'[i]] = "queued" /\ queue'[i] \in Worker
      <4>1. \A i \in DOMAIN queue : st[queue[i]] = "queued" /\ queue[i] \in Worker
        BY DEF Places
      <4>2. \A i \in DOMAIN queue : queue[i] = queue[1] => i = 1
        BY <3>3, Zenon DEF Places
      <4> SUFFICES ASSUME NEW i \in DOMAIN queue'
                   PROVE  queue'[i] # w /\ st[queue'[i]] = "queued" /\ queue'[i] \in Worker
        OBVIOUS
      <4>3. i + 1 \in DOMAIN queue /\ i + 1 # 1 /\ queue'[i] = queue[i + 1]
        BY <3>2, <3>3
      <4> QED
        BY <3>2, <4>1, <4>2, <4>3, Zenon
    <3>6. \A i \in DOMAIN queue' : st'[queue'[i]] = "queued"
      BY <3>1, <3>5
    <3>7. \A i, j \in DOMAIN queue' : queue'[i] = queue'[j] => i = j
      <4> SUFFICES ASSUME NEW i \in DOMAIN queue', NEW j \in DOMAIN queue',
                          queue'[i] = queue'[j]
                   PROVE  i = j
        OBVIOUS
      <4>1. /\ i + 1 \in DOMAIN queue /\ queue'[i] = queue[i + 1]
            /\ j + 1 \in DOMAIN queue /\ queue'[j] = queue[j + 1]
        BY <3>2, <3>3
      <4>2. i + 1 = j + 1
        BY <4>1, Zenon DEF Places
      <4> QED
        BY <3>2, <4>2
    <3> QED
      BY <3>1, <3>4, <3>6, <3>7, SMT DEF Places
  <2>3. CASE KeepSlot(w) \/ Admit(w) \/ InfraFailure(w) \/ Wake(w) \/ UnreportedFailure(w)
             \/ Retry(w) \/ Complete(w) \/ GiveUp(w)
    <3>1. queue' = queue /\ st[w] # "queued" /\ st'[w] \in WorkerStates
      BY <2>3 DEF KeepSlot, Admit, InfraFailure, Wake, UnreportedFailure, Retry,
         Complete, GiveUp, End, registry, WorkerStates
    <3>2. \A v \in Worker \ {w} : st'[v] = st[v] /\ prov'[v] = prov[v] /\ want'[v] = want[v]
      BY <2>3, SMT DEF KeepSlot, Admit, InfraFailure, Wake, UnreportedFailure, Retry,
         Complete, GiveUp, End
    <3>3. \A i \in DOMAIN queue : queue[i] \in Worker \ {w}
      BY <3>1, SMT DEF Places
    <3>4. /\ \A i \in DOMAIN queue' : st'[queue'[i]] = "queued"
          /\ \A i, j \in DOMAIN queue' : queue'[i] = queue'[j] => i = j
      BY <3>1, <3>2, <3>3, SMT DEF Places
    <3>5. /\ st'[w] \notin {"queued", "polling"}
          /\ st'[w] \in {"busy", "sleeping"} => prov'[w] \in Provider
          /\ st'[w] = "gone" => prov'[w] = NoProvider
      <4>1. CASE KeepSlot(w)
        <5>1. prov[w] \in Provider
          BY <4>1, PickInProvider DEF KeepSlot
        <5> QED
          BY <4>1, <5>1 DEF KeepSlot
      <4>2. CASE Admit(w)
        BY <4>2 DEF Admit, Places
      <4>3. CASE InfraFailure(w) \/ Wake(w) \/ UnreportedFailure(w) \/ Retry(w)
        BY <4>3, SMT DEF InfraFailure, Wake, UnreportedFailure, Retry, Places
      <4>4. CASE Complete(w) \/ GiveUp(w)
        BY <4>4 DEF Complete, GiveUp, End
      <4> QED
        BY <2>3, <4>1, <4>2, <4>3, <4>4
    <3> QED
      BY <3>2, <3>4, <3>5 DEF Places
  <2> QED
    BY <1>1, <2>1, <2>2, <2>3 DEF Step
<1>2. CASE NextRound
  <2>1. queue' = queue /\ \A w \in Worker : st[w] = "gone" /\ st'[w] = "top"
    BY <1>2 DEF NextRound, registry
  <2>2. \A i \in DOMAIN queue : queue[i] \in Worker
    OBVIOUS
  <2>3. ASSUME NEW i \in DOMAIN queue PROVE FALSE
    <3>1. st[queue[i]] = "queued" /\ queue[i] \in Worker
      BY <2>2 DEF Places
    <3>2. st[queue[i]] = "gone"
      BY <2>1, <3>1
    <3> QED
      BY <3>1, <3>2
  <2> QED
    BY <2>1, <2>3 DEF Places
<1>3. CASE UNCHANGED vars
  BY <1>3 DEF vars, registry, Places
<1> QED
  BY <1>1, <1>2, <1>3 DEF Next

\* Types: the queue and the holds are extended with workers and configured
\* providers; the semaphore never goes below zero nor above its size.
LEMMA TypeStep ==
  ASSUME PoolInv, [Next]_vars
  PROVE  TypeOK'
<1> USE DEF PoolInv, TypeOK, WorkerStates
<1>1. limit' \in [Provider -> Nat]
  BY LimitStep
<1>2. free' \in Nat /\ holds' \in Seq(Provider) => free' \in 0 .. GlobalLimit
  <2>1. Holders' \in SUBSET Worker
    BY DEF Holders, Owners
  <2>2. IsFiniteSet(Holders')
    BY <2>1, PoolAssumption, FS_Subset
  <2>3. Cardinality(Holders') \in Nat
    BY <2>2, FS_CardinalityType
  <2> QED
    BY <2>3, CeilingStep, PoolAssumption, SMT DEF GlobalCeiling
<1>3. ASSUME NEW w \in Worker, st[w] \in {"top", "busy"},
             IF prov[w] = NoProvider THEN UNCHANGED <<holds, free>> ELSE ReleaseLast
      PROVE  free' \in Nat /\ holds' \in Seq(Provider)
  <2>1. CASE prov[w] = NoProvider
    BY <1>3, <2>1
  <2>2. CASE prov[w] # NoProvider
    <3>1. w \in Owners
      BY <1>3, <2>2 DEF Owners
    <3>2. PICK v \in Owners : v = w
      BY <3>1
    <3>3. free' = free + 1 /\ holds' \in Seq(Provider)
      BY <1>3, <2>2, <3>2, ReleaseEffect
    <3> QED
      BY <3>3
  <2> QED
    BY <2>1, <2>2
<1>7. 0 \in 0 .. Threshold
  BY PoolAssumption
<1>4. ASSUME NEW w \in Worker, Step(w)
      PROVE  TypeOK'
  <2>1. CASE KeepSlot(w)
    <3>1. st' \in [Worker -> WorkerStates]
      BY <2>1 DEF KeepSlot
    <3>2. tries' \in [Worker -> 0 .. MaxTries]
      BY <2>1, OneMoreTry DEF KeepSlot
    <3> QED
      BY <2>1, <3>1, <3>2 DEF KeepSlot, registry
  <2>2. CASE SwitchProvider(w)
    <3>1. free' \in 0 .. GlobalLimit /\ holds' \in Seq(Provider)
      BY <1>2, <1>3, <2>2 DEF SwitchProvider
    <3>2. queue' \in Seq(Worker)
      BY <2>2 DEF SwitchProvider
    <3>3. want' \in [Worker -> Provider \cup {NoProvider}]
      BY <2>2 DEF SwitchProvider
    <3>4. st' \in [Worker -> WorkerStates]
      BY <2>2 DEF SwitchProvider
    <3>5. tries' \in [Worker -> 0 .. MaxTries]
      BY <2>2, OneMoreTry DEF SwitchProvider
    <3> QED
      BY <2>2, <3>1, <3>2, <3>3, <3>4, <3>5 DEF SwitchProvider
  <2>3. CASE TakeGlobal(w)
    <3>1. queue' \in Seq(Worker)
      BY <2>3 DEF TakeGlobal
    <3>2. free' \in 0 .. GlobalLimit
      BY <2>3, PoolAssumption, SMT DEF TakeGlobal
    <3> QED
      BY <2>3, <3>1, <3>2 DEF TakeGlobal
  <2>4. CASE Admit(w)
    BY <2>4 DEF Admit, Places
  <2>5. CASE InfraFailure(w)
    <3>1. prov[w] \in Provider
      BY <2>5 DEF InfraFailure, Places
    <3>2. streak' \in [Provider -> 0 .. Threshold]
      BY <2>5, <3>1, PoolAssumption, SMT DEF InfraFailure, RecordInfra
    <3>3. coolBy' \in [Provider -> Worker \cup {NoWorker}]
      BY <2>5, <3>1 DEF InfraFailure, RecordInfra
    <3> QED
      BY <1>1, <2>5, <3>2, <3>3 DEF InfraFailure
  <2>6. CASE Wake(w)
    BY <2>6 DEF Wake
  <2>7. CASE UnreportedFailure(w)
    BY <2>7 DEF UnreportedFailure, registry
  <2>8. CASE Retry(w)
    <3>1. streak' \in [Provider -> 0 .. Threshold]
      BY <1>7, <2>8 DEF Retry, RecordSuccess
    <3> QED
      BY <1>1, <2>8, <3>1 DEF Retry
  <2>9. CASE Complete(w)
    <3>1. streak' \in [Provider -> 0 .. Threshold]
      BY <1>7, <2>9 DEF Complete, RecordSuccess
    <3>2. free' \in 0 .. GlobalLimit /\ holds' \in Seq(Provider)
      BY <1>2, <1>3, <2>9 DEF Complete, End
    <3> QED
      BY <1>1, <2>9, <3>1, <3>2 DEF Complete, End
  <2>10. CASE GiveUp(w)
    <3>1. free' \in 0 .. GlobalLimit /\ holds' \in Seq(Provider)
      BY <1>2, <1>3, <2>10 DEF GiveUp, End
    <3> QED
      BY <2>10, <3>1 DEF GiveUp, End
  <2> QED
    BY <1>4, <2>1, <2>2, <2>3, <2>4, <2>5, <2>6, <2>7, <2>8, <2>9, <2>10 DEF Step
<1>5. CASE NextRound
  BY <1>5, PoolAssumption DEF NextRound, registry
<1>6. CASE UNCHANGED vars
  BY <1>6 DEF vars, registry
<1> QED
  BY <1>4, <1>5, <1>6 DEF Next

\* At the start nobody holds anything.
LEMMA InitInv == Init => PoolInv
<1> SUFFICES ASSUME Init PROVE PoolInv
  OBVIOUS
<1> USE PoolAssumption DEF Init
<1>1. TypeOK
  BY DEF TypeOK, WorkerStates
<1>2. Places
  BY DEF Places
<1>3. Owners = {} /\ Holders = {}
  BY DEF Owners, Holders
<1>4. Cardinality(Owners) = 0 /\ Cardinality(Holders) = 0
  BY <1>3, FS_EmptySet
<1>5. GlobalCeiling /\ HoldsCounted
  BY <1>4 DEF GlobalCeiling, HoldsCounted
<1>6. \A p \in Provider : HoldsOf(p) = 0
  <2>1. \A p \in Provider : {i \in DOMAIN holds : holds[i] = p} = {}
    OBVIOUS
  <2> QED
    BY <2>1, FS_EmptySet DEF HoldsOf
<1>7. LimitWithinBase
  BY <1>6 DEF LimitWithinBase
<1> QED
  BY <1>1, <1>2, <1>5, <1>7 DEF PoolInv

\* The inductive invariant: types, places, counts and limits together.
THEOREM Invariance == Spec => []PoolInv
<1>1. PoolInv /\ [Next]_vars => PoolInv'
  BY TypeStep, PlacesStep, CeilingStep, LimitStep DEF PoolInv
<1> QED
  BY <1>1, InitInv, PTL DEF Spec

\* The registry and the workers keep their types; in particular the global
\* semaphore never holds more permits than max_parallel.
THEOREM TypeCorrect == Spec => []TypeOK
<1>1. PoolInv => TypeOK
  BY DEF PoolInv
<1> QED
  BY <1>1, Invariance, PTL

\* pools.py acquire/release: the permits out and the permits in add up to
\* max_parallel, for any number of waves, whichever hold a release removes.
THEOREM CeilingHolds == Spec => []GlobalCeiling
<1>1. PoolInv => GlobalCeiling
  BY DEF PoolInv
<1> QED
  BY <1>1, Invariance, PTL

\* _holds has as many entries as there are waves with a slot.
THEOREM HoldsMatchOwners == Spec => []HoldsCounted
<1>1. PoolInv => HoldsCounted
  BY DEF PoolInv
<1> QED
  BY <1>1, Invariance, PTL

\* Throttling keeps every effective limit in 1 .. base and the recorded holds
\* of a provider within its configured ceiling.
THEOREM LimitsBounded == Spec => []LimitWithinBase
<1>1. PoolInv => LimitWithinBase
  BY DEF PoolInv
<1> QED
  BY <1>1, Invariance, PTL

-----------------------------------------------------------------------------
(***************************************************************************)
(* Proofs about the dispatches of one wave, for any lines an agent may     *)
(* write, any size of the pipe and any limits.                             *)
(***************************************************************************)

AtWork == live \ orphans

\* Between dispatches and during a request no child is at work; otherwise only
\* the current one is.
WorkInv ==
  /\ par \in {"idle", "request"} => AtWork = {}
  /\ AtWork \subseteq {n}

LEMMA WorkInit == AInit => WorkInv
BY DEF AInit, WorkInv, AtWork

LEMMA WorkNext == WorkInv /\ [ANext]_avars => WorkInv'
<1> SUFFICES ASSUME WorkInv, [ANext]_avars PROVE WorkInv'
  OBVIOUS
<1> USE DEF WorkInv, AtWork
<1>1. CASE Unavailable
  BY <1>1 DEF Unavailable, CanStart, Settle
<1>2. CASE StartAgent
  <2>1. AtWork = {} /\ live' = live \cup {n'} /\ orphans' = orphans /\ par' = "read"
    BY <1>2 DEF StartAgent, CanStart
  <2> QED
    BY <2>1
<1>3. CASE StartRequest
  <2>1. AtWork = {} /\ live' = live /\ orphans' = orphans
    BY <1>3 DEF StartRequest, CanStart
  <2> QED
    BY <2>1
<1>4. CASE Answer
  BY <1>4 DEF Answer, agentVars
<1>5. CASE AgentWrites \/ OutputCloses
  BY <1>5 DEF AgentWrites, OutputCloses
<1>6. CASE AgentExits \/ SignalArrives \/ OrphanDies
  BY <1>6 DEF AgentExits, SignalArrives, OrphanDies
<1>7. CASE ReadLine
  <2>1. par = "read" /\ par' \in {"read", "wait"} /\ UNCHANGED <<n, live, orphans>>
    BY <1>7 DEF ReadLine, ReadTool, ReadLimit, ReadResult, ReadTalk
  <2> QED
    BY <2>1
<1>8. CASE EndOfOutput \/ Silence \/ ReadBreaks
  BY <1>8 DEF EndOfOutput, Silence, ReadBreaks, agentVars
<1>9. CASE Reap
  <2>1. n \notin live /\ UNCHANGED <<n, live, orphans>>
    BY <1>9 DEF Reap, agentVars
  <2> QED
    BY <2>1
<1>10. CASE Interrupt
  BY <1>10 DEF Interrupt
<1>11. CASE EngineDies
  BY <1>11 DEF EngineDies
<1>12. CASE Resume \/ UNCHANGED avars
  BY <1>12 DEF Resume, avars, agentVars
<1> QED
  BY <1>1, <1>2, <1>3, <1>4, <1>5, <1>6, <1>7, <1>8, <1>9, <1>10, <1>11, <1>12
     DEF ANext, Parent

\* However dispatches end, by an answer, a timeout, a kill, an exception or an
\* interrupt, no second agent works in the wave's worktree beside the current
\* one, except children of an engine that was itself killed.
THEOREM OneAtWork == ASpec => []OneAgentAtWork
<1>1. AInit => WorkInv
  BY WorkInit
<1>2. WorkInv /\ [ANext]_avars => WorkInv'
  BY WorkNext
<1>3. WorkInv => OneAgentAtWork
  BY DEF WorkInv, AtWork, OneAgentAtWork
<1> QED
  BY <1>1, <1>2, <1>3, PTL DEF ASpec
=============================================================================
