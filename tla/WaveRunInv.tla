----------------------------- MODULE WaveRunInv -----------------------------
(***************************************************************************)
(* The inductive invariant of WaveRun: why its safety properties hold.     *)
(* The driver's in-memory sets mirror the ledger while a session lasts,    *)
(* each coroutine's position determines the state of its wave's row, and   *)
(* the batches behind the current one are settled.                         *)
(***************************************************************************)
EXTENDS WaveRun

\* The phases in which the driver works from its done and blocked sets.
Draining == {"round", "gather", "file"}

\* Coroutines exist only inside a gather, one per wave in flight; outside the
\* batch loop the driver's sets are empty.
Shape ==
  /\ pc # "gather" => flight = {}
  /\ \A n \in Node : n \in flight <=> at[n] # "idle"
  /\ pc \notin Draining => done = {} /\ blocked = {}
  /\ pc = "gather" => batch <= Len(Batches)
  /\ pc = "file" => batch > Len(Batches)

\* The retry budget in memory is the one in the ledger, and a dispatch that
\* runs has been counted.
Budget ==
  /\ RetryBudgetAgrees
  /\ \A n \in flight : at[n] = "running" => used[n] > 0

\* What a coroutine's position says of its wave's row in the ledger.
RowAt(h, w, u) ==
  CASE h = "loop"     -> /\ w \notin TerminalWaveStates
                         /\ u < MaxAttempts => w \notin StaleStates
    [] h = "running"  -> w = "running"
    [] h = "cooldown" -> w = "queued"
    [] h = "gauntlet" -> w = "quality_loop"
    [] h = "verify"   -> w = "verifying"
    [] h = "done"     -> w = "done"
    [] h = "blocked"  -> w \notin StaleStates \cup {"done"}
    [] OTHER          -> w \notin StaleStates \cup {"done", "blocked"}

Rows ==
  /\ \A n \in flight : RowAt(at[n], wave[n], used[n])
  /\ \A n \in Node : wave[n] # "deferred"

\* While batches are drained, the driver's sets mirror the ledger for every
\* wave that is not in flight, and a wave in flight is in neither.
Mirror ==
  pc \in Draining =>
    /\ \A n \in Node \ flight :
         /\ n \in done <=> wave[n] = "done"
         /\ wave[n] = "blocked" => n \in blocked
    /\ flight \cap (done \cup blocked) = {}
    /\ \A n \in flight : Deps[n] \subseteq done

\* A wave's row claims a live dispatch only while its coroutine works, or
\* after a crash of an active run that nobody has resumed yet.
Quiet ==
  pc # "down" \/ runState # "active" =>
    \A n \in Node \ flight : wave[n] \notin StaleStates

\* The batches behind the current one are settled, and the verdict follows
\* from what is blocked.
Settled ==
  /\ pc \in Draining =>
       \A i \in 1 .. Len(Batches) : i < batch => Batches[i] \subseteq done \cup blocked
  /\ pc \in {"round", "gather"} => runState = "active"
  /\ pc = "file" => runState = IF blocked = {} THEN "done" ELSE "failed"
  /\ loc # "processing" => pc = "down"

\* What is blocked belongs to a batch and is not done; before the Pre-0 gate
\* has been approved nothing has been dispatched.
Pending ==
  /\ \A n \in Node : wave[n] = "blocked" => n \in BatchNodes
  /\ \A n \in blocked : n \in BatchNodes /\ wave[n] # "done"
  /\ flight \subseteq BatchNodes
  /\ Pre0 /\ ~approved =>
       /\ pc \in {"down", "recover", "gate"}
       /\ \A n \in Node : wave[n] # "done"

IInv ==
  /\ TypeOK
  /\ Shape
  /\ Budget
  /\ Rows
  /\ Mirror
  /\ Quiet
  /\ Settled
  /\ DoneRunIsComplete
  /\ FiledByVerdict
  /\ NoClashInFlight
  /\ Pending
=============================================================================
