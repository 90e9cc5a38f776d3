--------------------------- MODULE SerialExecutor ---------------------------
(***************************************************************************)
(* What the process-local serializers of the program promise: operations   *)
(* on one key run one at a time, in the order in which they were asked     *)
(* for.  An operation may be given up before it runs.  Operations are      *)
(* numbered in the order of the calls.                                     *)
(***************************************************************************)
EXTENDS Naturals

CONSTANTS Keys, MaxOps

VARIABLES key, status

Ops == 1..MaxOps
Statuses == {"none", "waiting", "running", "over"}

SerialVars == <<key, status>>

SerialInit == key \in [Ops -> Keys] /\ status = [i \in Ops |-> "none"]

Goes(i, from, to) ==
  /\ status[i] = from
  /\ status' = [status EXCEPT ![i] = to]
  /\ UNCHANGED key

Arrive(i) == Goes(i, "none", "waiting") /\ \A j \in Ops : j < i => status[j] # "none"
Drop(i) == Goes(i, "waiting", "over")
Begin(i) == Goes(i, "waiting", "running") /\ \A j \in Ops : j < i /\ key[j] = key[i] => status[j] = "over"
End(i) == Goes(i, "running", "over")

\* One operation ends and the next one of its key begins, in one step.
Handover(i, j) ==
  /\ status[i] = "running" /\ status[j] = "waiting" /\ key[i] = key[j]
  /\ \A k \in Ops : k < j /\ key[k] = key[j] /\ k # i => status[k] = "over"
  /\ status' = [status EXCEPT ![i] = "over", ![j] = "running"]
  /\ UNCHANGED key

SerialNext ==
  \/ \E i \in Ops : Arrive(i) \/ Drop(i) \/ Begin(i) \/ End(i)
  \/ \E i, j \in Ops : Handover(i, j)

SerialSpec == SerialInit /\ [][SerialNext]_SerialVars

\* Two operations on one key never run at the same time.
Exclusive == \A i, j \in Ops : status[i] = "running" /\ status[j] = "running" /\ key[i] = key[j] => i = j
=============================================================================
