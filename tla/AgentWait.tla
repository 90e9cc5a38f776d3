------------------------------ MODULE AgentWait ------------------------------
(***************************************************************************)
(* A caller of Agent.waitForIdle beside the agent: the run's promise and   *)
(* the coroutine that would resolve it.                                    *)
(***************************************************************************)
EXTENDS AgentLoop

VARIABLES
  promise,  \* _active_run["promise"] of the latest run: "none", "pending" or "resolved"
  waiter    \* the caller: "away", "waiting" or "returned"

waitVars == <<vars, promise, waiter>>

WaitInit == Init /\ promise = "none" /\ waiter = "away"

\* _finish_run calls the async function _resolve without awaiting it: a coroutine object
\* is made and dropped, and the future keeps its state.
PromiseAfterFinish == promise

\* A step of the agent, with what it does to the promise.
AgentStep ==
  /\ Next
  /\ promise' = CASE Idle /\ pc' # "idle" -> "pending"
                  [] ~Idle /\ pc' = "idle" -> PromiseAfterFinish
                  [] OTHER -> promise
  /\ UNCHANGED waiter

waitForIdle ==
  /\ waiter = "away"
  /\ waiter' = IF Idle THEN "returned" ELSE "waiting"
  /\ UNCHANGED <<vars, promise>>

WaiterWakes ==
  /\ waiter = "waiting"
  /\ promise = "resolved"
  /\ waiter' = "returned"
  /\ UNCHANGED <<vars, promise>>

WaitNext == AgentStep \/ waitForIdle \/ WaiterWakes

WaitSpec ==
  /\ WaitInit
  /\ [][WaitNext]_waitVars
  /\ WF_waitVars(RunStep /\ AgentStep)
  /\ WF_waitVars(WaiterWakes)

\* A caller that waits for the run to complete returns once it has: agent.py tells a caller
\* that meets a running agent to "wait for completion".
WaitForIdleReturns == (waiter = "waiting") ~> (waiter = "returned")
=============================================================================
