-------------------------- MODULE StoreWriterQueue --------------------------
(***************************************************************************)
(* openclaw/shared/store_writer_queue.py: run_queued_store_write puts a    *)
(* write in the queue of its store and schedules _drain_store_writer_queue,*)
(* which starts _do_drain unless one is under way.  A step goes from one   *)
(* suspension of a task to the next: a write's fn is the only thing        *)
(* _do_drain waits for.                                                    *)
(***************************************************************************)
EXTENDS Naturals, Sequences, FiniteSets

CONSTANTS
  Stores,  \* store paths
  MaxOps   \* writes (bound)

ASSUME Workload == MaxOps \in Nat

Ops == 1..MaxOps

VARIABLES
  path,      \* the store path of each write (the workload, chosen once)
  queues,    \* stores that have an entry in the queues dict
  pending,   \* queue["pending"]
  draining,  \* queue["drainPromise"] is set
  scheduled, \* _drain_store_writer_queue tasks that have not begun
  starting,  \* _do_drain tasks that have not begun
  writing,   \* writes whose fn a _do_drain awaits
  future,    \* the future each caller waits for
  lost       \* history: writes whose fn ended with CancelledError

vars == <<path, queues, pending, draining, scheduled, starting, writing, future, lost>>

Init ==
  /\ path \in [Ops -> Stores]
  /\ queues = {}
  /\ pending = [p \in Stores |-> <<>>]
  /\ draining = [p \in Stores |-> FALSE]
  /\ scheduled = [p \in Stores |-> 0]
  /\ starting = [p \in Stores |-> 0]
  /\ writing = {}
  /\ future = [i \in Ops |-> "none"]
  /\ lost = {}

\* The i-th write.
run_queued_store_write(i) ==
  /\ future[i] = "none"
  /\ \A j \in Ops : j < i => future[j] # "none"
  /\ queues' = queues \cup {path[i]}
  /\ pending' = [pending EXCEPT ![path[i]] = Append(@, i)]
  /\ scheduled' = [scheduled EXCEPT ![path[i]] = @ + 1]
  /\ future' = [future EXCEPT ![i] = "pending"]
  /\ UNCHANGED <<path, draining, starting, writing, lost>>

\* Fault: a scheduled drain does not look whether one is under way.
DrainAnyway(p) ==
  /\ scheduled[p] > 0
  /\ scheduled' = [scheduled EXCEPT ![p] = @ - 1]
  /\ starting' = IF p \in queues THEN [starting EXCEPT ![p] = @ + 1] ELSE starting
  /\ draining' = [draining EXCEPT ![p] = @ \/ p \in queues]
  /\ UNCHANGED <<path, queues, pending, writing, future, lost>>

\* A scheduled drain begins: it ends at once if there is no queue, waits for the drain that
\* is under way, or starts one.
_drain_store_writer_queue(p) ==
  /\ scheduled[p] > 0
  /\ scheduled' = [scheduled EXCEPT ![p] = @ - 1]
  /\ starting' = IF p \in queues /\ ~draining[p] THEN [starting EXCEPT ![p] = @ + 1] ELSE starting
  /\ draining' = [draining EXCEPT ![p] = @ \/ p \in queues]
  /\ UNCHANGED <<path, queues, pending, writing, future, lost>>

\* Fault: _do_drain ends without a look at what was queued meanwhile.
FinallyForgets(p, done) ==
  /\ draining' = [draining EXCEPT ![p] = FALSE]
  /\ queues' = queues \ {p}
  /\ writing' = writing \ done
  /\ UNCHANGED <<pending, scheduled>>

\* The finally clause of _do_drain; its last write was `done`.
Finally(p, done) ==
  /\ draining' = [draining EXCEPT ![p] = FALSE]
  /\ writing' = writing \ done
  /\ \/ /\ pending[p] # <<>>
        /\ scheduled' = [scheduled EXCEPT ![p] = @ + 1]
        /\ UNCHANGED queues
     \/ /\ pending[p] = <<>>
        /\ queues' = queues \ {p}
        /\ UNCHANGED scheduled
  /\ UNCHANGED pending

\* The while loop of _do_drain takes the next write and awaits its fn.
TakeNext(p, done) ==
  /\ pending[p] # <<>>
  /\ writing' = (writing \ done) \cup {Head(pending[p])}
  /\ pending' = [pending EXCEPT ![p] = Tail(@)]
  /\ UNCHANGED <<queues, draining, scheduled>>

\* _do_drain begins; it always finds a write (NoIdleQueue).
DoDrainBegins(p) ==
  /\ starting[p] > 0
  /\ starting' = [starting EXCEPT ![p] = @ - 1]
  /\ TakeNext(p, {})
  /\ UNCHANGED <<path, future, lost>>

\* The fn of a write ends.  resolve and reject raise InvalidStateError when the caller has
\* cancelled its future, and CancelledError passes `except Exception`: both end this drain.
FnEnds(i) ==
  /\ i \in writing
  /\ \/ /\ future[i] # "cancelled"
        /\ \E end \in {"resolved", "rejected"} : future' = [future EXCEPT ![i] = end]
        /\ TakeNext(path[i], {i}) \/ (pending[path[i]] = <<>> /\ Finally(path[i], {i}))
        /\ UNCHANGED lost
     \/ /\ future[i] = "cancelled"
        /\ Finally(path[i], {i})
        /\ UNCHANGED <<future, lost>>
     \/ /\ lost' = lost \cup {i}
        /\ Finally(path[i], {i})
        /\ UNCHANGED future
  /\ UNCHANGED <<path, starting>>

\* The caller of a write is cancelled; the write stays in the queue.
CancelCaller(i) ==
  /\ future[i] = "pending"
  /\ future' = [future EXCEPT ![i] = "cancelled"]
  /\ UNCHANGED <<path, queues, pending, draining, scheduled, starting, writing, lost>>

\* What the event loop does by itself, fn included.
TaskStep ==
  \/ \E p \in Stores : _drain_store_writer_queue(p) \/ DoDrainBegins(p)
  \/ \E i \in Ops : FnEnds(i)

Next == TaskStep \/ \E i \in Ops : run_queued_store_write(i) \/ CancelCaller(i)

Spec == Init /\ [][Next]_vars

\* The event loop schedules ready tasks in turn, and every fn ends.
FairSpec ==
  /\ Spec
  /\ \A p \in Stores : WF_vars(_drain_store_writer_queue(p)) /\ WF_vars(DoDrainBegins(p))
  /\ \A i \in Ops : WF_vars(FnEnds(i))

-----------------------------------------------------------------------------
(* Properties.                                                             *)

Queued(i) == \E n \in DOMAIN pending[path[i]] : pending[path[i]][n] = i

Status(i) ==
  IF future[i] = "none" THEN "none"
  ELSE IF i \in writing THEN "running"
  ELSE IF Queued(i) THEN "waiting" ELSE "over"

Serial == INSTANCE SerialExecutor
  WITH Keys <- Stores, key <- path, status <- [i \in Ops |-> Status(i)]

\* "Store writer queue serializes file writes within one process": one fn of a store at a
\* time and in the order of the calls, through failures, cancelled callers and drains that
\* die and are replaced.
WritesSerialized == Serial!SerialSpec

\* Every write that was queued is executed, also behind a write whose failure ended the drain.
EveryWriteRuns == \A i \in Ops : (future[i] # "none") ~> (Status(i) = "over")

\* A caller waits for ever only when the fn of its own write ended with CancelledError.
EveryCallerAnswered ==
  \A i \in Ops : (future[i] # "none") ~> (future[i] \in {"resolved", "rejected", "cancelled"} \/ i \in lost)

\* The queues dict holds no entry of a store that has nothing to write, every entry with
\* something to write has a drain scheduled or under way, and no drain starts in vain.
NoIdleQueue ==
  \A p \in Stores :
    /\ p \in queues <=> draining[p] \/ pending[p] # <<>>
    /\ pending[p] # <<>> => draining[p] \/ scheduled[p] > 0
    /\ starting[p] > 0 => pending[p] # <<>>
=============================================================================
