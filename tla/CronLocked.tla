----------------------------- MODULE CronLocked -----------------------------
(***************************************************************************)
(* locked() of openclaw/cron/service/locked.py: cron operations that share *)
(* a store path are chained, each behind the last one of its state and the *)
(* last one of its store.  A call makes two tasks: next_future (_run) and  *)
(* keep_alive, which settles after it and is what the next call waits for. *)
(***************************************************************************)
EXTENDS Naturals

CONSTANTS
  States,     \* cron service states
  Stores,     \* store paths
  StorePath,  \* state.deps.store_path of each state
  MaxOps      \* calls of locked() (bound)

ASSUME Workload == StorePath \in [States -> Stores] /\ MaxOps \in Nat

VARIABLES
  owner,       \* the state each call comes from (the workload, chosen once)
  run,         \* next_future of each call: where _run is suspended, or how it ended
  keep,        \* keep_alive of each call
  awaited,     \* what each call found: its state_op and store_op (0 is None)
  op,          \* state.op
  storeLocks,  \* _GLOBAL_STORE_LOCKS
  asked        \* history: calls that their own caller or their own fn cancelled

vars == <<owner, run, keep, awaited, op, storeLocks, asked>>

Ops == 1..MaxOps
Waiting == {"stateOp", "storeOp"}
Ended == {"returned", "cancelled"}
store(i) == StorePath[owner[i]]

Init ==
  /\ owner \in [Ops -> States]
  /\ run = [i \in Ops |-> "none"]
  /\ keep = [i \in Ops |-> "none"]
  /\ awaited = [i \in Ops |-> [state |-> 0, store |-> 0]]
  /\ op = [s \in States |-> 0]
  /\ storeLocks = [p \in Stores |-> 0]
  /\ asked = {}

\* Fault: the call is chained behind its own state only.
LockedPerState(i) ==
  /\ run[i] = "none"
  /\ \A j \in Ops : j < i => run[j] # "none"
  /\ awaited' = [awaited EXCEPT ![i] = [state |-> op[owner[i]], store |-> 0]]
  /\ run' = [run EXCEPT ![i] = "stateOp"]
  /\ keep' = [keep EXCEPT ![i] = "pending"]
  /\ op' = [op EXCEPT ![owner[i]] = i]
  /\ UNCHANGED <<owner, storeLocks, asked>>

\* The i-th call: both chains are read and extended without a suspension between.
locked(i) ==
  /\ run[i] = "none"
  /\ \A j \in Ops : j < i => run[j] # "none"
  /\ awaited' = [awaited EXCEPT ![i] = [state |-> op[owner[i]], store |-> storeLocks[store(i)]]]
  /\ run' = [run EXCEPT ![i] = "stateOp"]
  /\ keep' = [keep EXCEPT ![i] = "pending"]
  /\ op' = [op EXCEPT ![owner[i]] = i]
  /\ storeLocks' = [storeLocks EXCEPT ![store(i)] = i]
  /\ UNCHANGED <<owner, asked>>

\* How the keep_alive of an earlier call stands; there may be none.
KeepAliveOf(before) == IF before = 0 THEN "done" ELSE keep[before]

\* Fault: CancelledError is caught like any other exception.
Swallow(i, before, next) ==
  /\ KeepAliveOf(before) # "pending"
  /\ run' = [run EXCEPT ![i] = next]

\* _run waits for an earlier keep_alive and goes on.  Only `except Exception` guards the
\* wait, and CancelledError is no Exception: a cancelled predecessor ends this task too.
Await(i, before, next) ==
  /\ KeepAliveOf(before) # "pending"
  /\ run' = [run EXCEPT ![i] = IF KeepAliveOf(before) = "cancelled" THEN "cancelled" ELSE next]

StateOpSettles(i) ==
  /\ run[i] = "stateOp"
  /\ Await(i, awaited[i].state, "storeOp")
  /\ UNCHANGED <<owner, keep, awaited, op, storeLocks, asked>>

StoreOpSettles(i) ==
  /\ run[i] = "storeOp"
  /\ Await(i, awaited[i].store, "fn")
  /\ UNCHANGED <<owner, keep, awaited, op, storeLocks, asked>>

\* fn returns or raises an Exception, or it ends with CancelledError: its caller cancelled
\* the call while it ran, or something it awaited was cancelled.
FnEnds(i) ==
  /\ run[i] = "fn"
  /\ \E end \in Ended : /\ run' = [run EXCEPT ![i] = end]
                        /\ asked' = IF end = "cancelled" THEN asked \cup {i} ELSE asked
  /\ UNCHANGED <<owner, keep, awaited, op, storeLocks>>

\* The caller is cancelled while the call waits; the shields keep this from its predecessors.
Cancel(i) ==
  /\ run[i] \in Waiting
  /\ run' = [run EXCEPT ![i] = "cancelled"]
  /\ asked' = asked \cup {i}
  /\ UNCHANGED <<owner, keep, awaited, op, storeLocks>>

\* Fault: keep_alive never settles when the call was cancelled.
KeepAliveOnReturn(i) ==
  /\ keep[i] = "pending"
  /\ run[i] = "returned"
  /\ keep' = [keep EXCEPT ![i] = "done"]
  /\ UNCHANGED <<owner, run, awaited, op, storeLocks, asked>>

_keep_alive(i) ==
  /\ keep[i] = "pending"
  /\ run[i] \in Ended
  /\ keep' = [keep EXCEPT ![i] = IF run[i] = "cancelled" THEN "cancelled" ELSE "done"]
  /\ UNCHANGED <<owner, run, awaited, op, storeLocks, asked>>

\* Steps the event loop takes by itself, fn included.
TaskStep(i) == StateOpSettles(i) \/ StoreOpSettles(i) \/ FnEnds(i) \/ _keep_alive(i)

Next == \E i \in Ops : locked(i) \/ TaskStep(i) \/ Cancel(i)

Spec == Init /\ [][Next]_vars

\* Ready tasks are scheduled, and every fn ends.
FairSpec == Spec /\ \A i \in Ops : WF_vars(TaskStep(i))

-----------------------------------------------------------------------------
(* Properties.                                                             *)

TypeOK ==
  /\ owner \in [Ops -> States]
  /\ run \in [Ops -> {"none", "fn"} \cup Waiting \cup Ended]
  /\ keep \in [Ops -> {"none", "pending", "done", "cancelled"}]
  /\ awaited \in [Ops -> [state : {0} \cup Ops, store : {0} \cup Ops]]
  /\ op \in [States -> {0} \cup Ops]
  /\ storeLocks \in [Stores -> {0} \cup Ops]
  /\ asked \in SUBSET Ops

Status(i) == CASE run[i] = "none" -> "none"
               [] run[i] \in Waiting -> "waiting"
               [] run[i] = "fn" -> "running"
               [] OTHER -> "over"

Serial == INSTANCE SerialExecutor
  WITH Keys <- Stores, key <- [i \in Ops |-> store(i)], status <- [i \in Ops |-> Status(i)]

\* "Serializes cron operations per store path while preserving state-local operation
\* ordering": whatever is cancelled and whatever fails, operations on one store run one at
\* a time and in the order of the calls.
Serialized == Serial!SerialSpec

\* No fn of a store runs while another one does, in particular not when a call between
\* them was cancelled while it waited.
StoreExclusive == Serial!Exclusive

\* Every call comes to an end (its fn having run, or cancelled): nobody waits for ever.
EveryCallSettles == \A i \in Ops : (run[i] # "none") ~> (run[i] \in Ended)

\* A call waits for the operations before it "to settle" and then runs: it ends without a
\* run only when its own caller cancels it.
OnlyCancelledCallsAreSkipped == \A i \in Ops : run[i] = "cancelled" => i \in asked
=============================================================================
