---------------------------- MODULE AgentHarness ----------------------------
(***************************************************************************)
(* CoreAgentHarness: the phases that exclude one another, the turns, the   *)
(* session writes that are put off while the harness is busy, and the      *)
(* queues of steering and next-turn messages.                              *)
(*                                                                         *)
(* The agent loop itself is the subject of AgentLoop; here it is whatever  *)
(* calls back into the harness: polls, turn ends, and at last agent_end or *)
(* an exception.  Session, hooks and listeners suspend for any time and    *)
(* may raise.                                                              *)
(***************************************************************************)
EXTENDS Naturals, Sequences, SequencesExt

CONSTANTS
  MaxCalls,    \* calls of prompt, compact and navigate_tree
  MaxWrites,   \* append_message, set_model, set_thinking_level
  MaxMsgs,     \* steering messages
  MaxNext,     \* next-turn messages
  MaxAborts,   \* calls of abort
  MaxFaults,   \* exceptions
  Serial       \* callers start a call only when the previous one has returned

ASSUME Bounds ==
  /\ {MaxCalls, MaxWrites, MaxMsgs, MaxNext, MaxAborts, MaxFaults} \subseteq Nat
  /\ Serial \in BOOLEAN

Calls == 1..MaxCalls

VARIABLES
  phase,       \* _phase
  controller,  \* the call whose controller is _run_abort_controller, 0 for None
  pending,     \* _pending_session_writes
  session,     \* the writes the session has appended, in order
  issued,      \* number of writes asked for so far
  deferred,    \* history: those that went to pending
  direct,      \* writes a caller is appending itself
  refused,     \* history: those for which the session raised, to the caller
  steerQueue,  \* _steer_queue
  aborts,      \* number of times abort() has replaced that list
  steered,     \* number of messages accepted by steer()
  delivered,   \* steering messages handed to the loop
  cleared,     \* steering messages returned by abort() as cleared
  dropped,     \* steering messages put back into a list that abort() had replaced
  lost,        \* steering messages in the hands of a poll that was cancelled
  nextQueue,   \* _next_turn_queue
  nextCount,   \* number of messages accepted by next_turn()
  started,     \* next-turn messages that a turn has begun with
  faults,      \* exceptions so far
  pc,          \* where a call is suspended
  then,        \* what it does after the flush it is in
  write,       \* the write its flush is appending, 0 for none
  held         \* messages it has taken out of a queue: [msgs, mode, list]

callVars == <<pc, then, write, held>>
writeVars == <<pending, session, issued, deferred, direct, refused>>
steerVars == <<steerQueue, aborts, steered, delivered, cleared, dropped, lost>>
nextVars == <<nextQueue, nextCount, started>>
vars == <<phase, controller, writeVars, steerVars, nextVars, faults, callVars>>

NotBegun == {"none"}
Over == {"returned", "raised"}
Active(c) == pc[c] \notin NotBegun \cup Over

\* The part of a turn in which run_agent_loop is at work.
InLoop(c) == pc[c] \in {"loop", "polled"} \/ (pc[c] = "writing" /\ then[c] \in {"loop", "ended"})

Nothing == [msgs |-> <<>>, mode |-> "all", list |-> 0]

Fault == faults < MaxFaults /\ faults' = faults + 1

-----------------------------------------------------------------------------
(* Flushing the pending writes *)

\* Fault: every flush makes the harness idle.
ContinueIdle(c, what) ==
  /\ pc' = [pc EXCEPT ![c] = IF what = "ended" THEN "tail" ELSE what]
  /\ write' = [write EXCEPT ![c] = 0]
  /\ phase' = "idle"
  /\ controller' = IF what \in Over THEN 0 ELSE controller

\* What follows a flush: back to the loop; after agent_end, the phase is idle while
\* its listeners are told; in the finally clauses of _execute_turn and prompt, the
\* controller is dropped and the phase is idle.
Continue(c, what) ==
  /\ pc' = [pc EXCEPT ![c] = IF what = "ended" THEN "tail" ELSE what]
  /\ write' = [write EXCEPT ![c] = 0]
  /\ phase' = IF what = "loop" THEN phase ELSE "idle"
  /\ controller' = IF what \in Over THEN 0 ELSE controller

\* _flush_pending_session_writes from its loop condition on, with the writes ws.
Flush(c, ws, what) ==
  /\ then' = [then EXCEPT ![c] = what]
  /\ IF ws = <<>>
       THEN Continue(c, what)
       ELSE /\ pc' = [pc EXCEPT ![c] = "writing"]
            /\ write' = [write EXCEPT ![c] = Head(ws)]
            /\ UNCHANGED <<phase, controller>>

\* An exception inside the loop: _emit_run_failure reports it, which flushes again
\* and ends with another agent_end, or fails too; then only the finally clauses run.
\* (A failure while a failure is reported would always take the second way.)
Unwind(c) ==
  \/ Flush(c, pending, "ended")
  \/ Flush(c, pending, "raised")

\* An exception in a flush: one in the finally clauses ends the call.
FlushRaises(c) ==
  IF then[c] \in Over
    THEN /\ Continue(c, "raised")
         /\ UNCHANGED then
    ELSE Unwind(c)

\* The session has appended the write, and the one that is first by now is removed: the
\* same, unless another call has flushed meanwhile; pop(0) raises when there is none.
WriteDone(c) ==
  /\ pc[c] = "writing"
  /\ session' = Append(session, write[c])
  /\ IF pending = <<>>
       THEN /\ FlushRaises(c)
            /\ UNCHANGED pending
       ELSE /\ pending' = Tail(pending)
            /\ Flush(c, Tail(pending), then[c])
  /\ UNCHANGED <<issued, deferred, direct, refused, steerVars, nextVars, faults, held>>

\* Fault: the write is removed before it is appended.
WriteFailsPopped(c) ==
  /\ pc[c] = "writing"
  /\ pending # <<>>
  /\ Fault
  /\ pending' = Tail(pending)
  /\ IF then[c] \in Over
       THEN /\ Continue(c, "raised")
            /\ UNCHANGED then
       ELSE Flush(c, Tail(pending), "ended")
  /\ UNCHANGED <<session, issued, deferred, direct, refused, steerVars, nextVars, held>>

\* append_message raises in the session: the write stays first in the queue.
WriteFails(c) ==
  /\ pc[c] = "writing"
  /\ Fault
  /\ FlushRaises(c)
  /\ UNCHANGED <<writeVars, steerVars, nextVars, held>>

-----------------------------------------------------------------------------
(* A turn: prompt, skill, prompt_from_template *)

MayCall(c) ==
  /\ pc[c] = "none"
  /\ \A d \in Calls : d < c => pc[d] # "none"
  /\ Serial => \A d \in Calls : ~Active(d)
  /\ phase = "idle"

Prompt(c) ==
  /\ MayCall(c)
  /\ phase' = "turn"
  /\ pc' = [pc EXCEPT ![c] = "createState"]
  /\ UNCHANGED <<controller, writeVars, steerVars, nextVars, faults, then, write, held>>

\* _create_turn_state has returned; _execute_turn takes the next-turn messages.
CreateStateDone(c) ==
  /\ pc[c] = "createState"
  /\ pc' = [pc EXCEPT ![c] = IF nextQueue = <<>> THEN "beforeStart" ELSE "announce"]
  /\ held' = [held EXCEPT ![c] = [Nothing EXCEPT !.msgs = nextQueue]]
  /\ nextQueue' = <<>>
  /\ UNCHANGED <<phase, controller, writeVars, steerVars, nextCount, started, faults,
                 then, write>>

\* Fault: the phase is not reset.
PromptFailsBusy(c) ==
  /\ pc' = [pc EXCEPT ![c] = "raised"]
  /\ held' = [held EXCEPT ![c] = Nothing]
  /\ UNCHANGED <<phase, controller, writeVars, steerVars, nextCount, started, then, write>>

\* An exception before the run: no flush, the phase is idle again.
PromptFails(c) ==
  /\ phase' = "idle"
  /\ pc' = [pc EXCEPT ![c] = "raised"]
  /\ held' = [held EXCEPT ![c] = Nothing]
  /\ UNCHANGED <<controller, writeVars, steerVars, nextCount, started, then, write>>

\* _create_turn_state raises, or a skill or template is unknown.
CreateStateFails(c) ==
  /\ pc[c] = "createState"
  /\ Fault
  /\ PromptFails(c)
  /\ UNCHANGED nextQueue

AnnounceDone(c) ==
  /\ pc[c] = "announce"
  /\ pc' = [pc EXCEPT ![c] = "beforeStart"]
  /\ UNCHANGED <<phase, controller, writeVars, steerVars, nextVars, faults, then, write,
                 held>>

\* Fault: the messages go back to the end.
AnnounceFailsBehind(c) ==
  /\ pc[c] = "announce"
  /\ Fault
  /\ PromptFails(c)
  /\ nextQueue' = nextQueue \o held[c].msgs

\* A listener of queue_update raises: the messages go back to the front.
AnnounceFails(c) ==
  /\ pc[c] = "announce"
  /\ Fault
  /\ PromptFails(c)
  /\ nextQueue' = held[c].msgs \o nextQueue

\* Fault: the controller is not installed.
BeforeStartUncontrolled(c) ==
  /\ pc[c] = "beforeStart"
  /\ pc' = [pc EXCEPT ![c] = "loop"]
  /\ started' = started \o held[c].msgs
  /\ held' = [held EXCEPT ![c] = Nothing]
  /\ UNCHANGED <<phase, controller, writeVars, steerVars, nextQueue, nextCount, faults,
                 then, write>>

\* before_agent_start has returned: the controller is installed and the loop runs.
BeforeStartDone(c) ==
  /\ pc[c] = "beforeStart"
  /\ controller' = c
  /\ pc' = [pc EXCEPT ![c] = "loop"]
  /\ started' = started \o held[c].msgs
  /\ held' = [held EXCEPT ![c] = Nothing]
  /\ UNCHANGED <<phase, writeVars, steerVars, nextQueue, nextCount, faults, then, write>>

\* before_agent_start raises: the next-turn messages it was to begin with are gone.
BeforeStartFails(c) ==
  /\ pc[c] = "beforeStart"
  /\ Fault
  /\ PromptFails(c)
  /\ UNCHANGED nextQueue

-----------------------------------------------------------------------------
(* The loop's calls into the harness *)

\* turn_end and prepareNextTurn flush.
Save(c) ==
  /\ pc[c] = "loop"
  /\ pending # <<>>
  /\ Flush(c, pending, "loop")
  /\ UNCHANGED <<writeVars, steerVars, nextVars, faults, held>>

\* _drain_queued_messages takes messages and announces it.
Poll(c, mode) ==
  /\ pc[c] = "loop"
  /\ steerQueue # <<>>
  /\ pc' = [pc EXCEPT ![c] = "polled"]
  /\ LET n == IF mode = "all" THEN Len(steerQueue) ELSE 1
     IN /\ held' = [held EXCEPT ![c] = [msgs |-> SubSeq(steerQueue, 1, n), mode |-> mode,
                                        list |-> aborts]]
        /\ steerQueue' = SubSeq(steerQueue, n + 1, Len(steerQueue))
  /\ UNCHANGED <<phase, controller, writeVars, aborts, steered, delivered, cleared,
                 dropped, lost, nextVars, faults, then, write>>

PollDone(c) ==
  /\ pc[c] = "polled"
  /\ pc' = [pc EXCEPT ![c] = "loop"]
  /\ delivered' = delivered \o held[c].msgs
  /\ held' = [held EXCEPT ![c] = Nothing]
  /\ UNCHANGED <<phase, controller, writeVars, steerQueue, aborts, steered, cleared,
                 dropped, lost, nextVars, faults, then, write>>

\* Fault: the messages are not put back.
PollFailsLosing(c) ==
  /\ pc[c] = "polled"
  /\ Fault
  /\ held' = [held EXCEPT ![c] = Nothing]
  /\ Unwind(c)
  /\ UNCHANGED <<writeVars, steerVars, nextVars>>

\* A listener of queue_update raises: the messages are put back into the list they
\* were taken from, which is no longer the queue when abort() was called meanwhile.
PollFails(c) ==
  LET msgs == held[c].msgs
      same == held[c].list = aborts
  IN /\ pc[c] = "polled"
     /\ Fault
     /\ steerQueue' = IF ~same THEN steerQueue
                      ELSE IF held[c].mode = "all" THEN steerQueue \o msgs
                      ELSE msgs \o steerQueue
     /\ dropped' = IF same THEN dropped ELSE dropped \cup ToSet(msgs)
     /\ held' = [held EXCEPT ![c] = Nothing]
     /\ Unwind(c)
     /\ UNCHANGED <<writeVars, aborts, steered, delivered, cleared, lost, nextVars>>

\* Fault: agent_end does not flush.
AgentEndUnflushed(c) ==
  /\ pc[c] = "loop"
  /\ Continue(c, "ended")
  /\ UNCHANGED <<writeVars, steerVars, nextVars, faults, then, held>>

\* The loop emits agent_end, itself or through _emit_run_failure.
AgentEnd(c) ==
  /\ pc[c] = "loop"
  /\ Flush(c, pending, "ended")
  /\ UNCHANGED <<writeVars, steerVars, nextVars, faults, held>>

\* Fault: the turn waits for its steering queue to be empty.
TailWaitsForQueue(c) ==
  /\ pc[c] = "tail"
  /\ steerQueue = <<>>
  /\ Flush(c, pending, "returned")
  /\ UNCHANGED <<writeVars, steerVars, nextVars, faults, held>>

\* The listeners of agent_end and settled have returned.
TailDone(c) ==
  /\ pc[c] = "tail"
  /\ Flush(c, pending, "returned")
  /\ UNCHANGED <<writeVars, steerVars, nextVars, faults, held>>

\* One of them raises.
TailFails(c) ==
  /\ pc[c] = "tail"
  /\ Fault
  /\ Unwind(c)
  /\ UNCHANGED <<writeVars, steerVars, nextVars, held>>

\* The caller of prompt() is cancelled.  CancelledError is no Exception: nothing is
\* put back and no failure is reported, only the finally clauses run.
Cancel(c) ==
  /\ Fault
  /\ \/ /\ pc[c] \in {"createState", "announce", "beforeStart"}
        /\ PromptFails(c)
     \/ /\ pc[c] = "writing" /\ then[c] \in Over
        /\ Continue(c, "raised")
        /\ UNCHANGED <<writeVars, steerVars, nextCount, started, then, held>>
     \/ /\ InLoop(c) \/ pc[c] = "tail"
        /\ Flush(c, pending, "raised")
        /\ lost' = lost \cup ToSet(held[c].msgs)
        /\ held' = [held EXCEPT ![c] = Nothing]
        /\ UNCHANGED <<writeVars, steerQueue, aborts, steered, delivered, cleared,
                       dropped, nextCount, started>>
  /\ UNCHANGED nextQueue

-----------------------------------------------------------------------------
(* compact and navigate_tree *)

BeginWork(c, what) ==
  /\ MayCall(c)
  /\ phase' = what
  /\ pc' = [pc EXCEPT ![c] = what]
  /\ UNCHANGED <<controller, writeVars, steerVars, nextVars, faults, then, write, held>>

\* It returns, raises or is cancelled; the pending writes stay.
EndWork(c) ==
  /\ pc[c] \in {"compaction", "branch_summary"}
  /\ phase' = "idle"
  /\ \E end \in Over : pc' = [pc EXCEPT ![c] = end]
  /\ UNCHANGED <<controller, writeVars, steerVars, nextVars, faults, then, write, held>>

-----------------------------------------------------------------------------
(* Calls that do not change the phase *)

\* append_message, set_model, set_thinking_level: straight to the session when
\* idle, put off otherwise.
Write ==
  /\ issued < MaxWrites
  /\ issued' = issued + 1
  /\ IF phase = "idle"
       THEN /\ direct' = direct \cup {issued'}
            /\ UNCHANGED <<pending, deferred>>
       ELSE /\ pending' = Append(pending, issued')
            /\ deferred' = deferred \cup {issued'}
            /\ UNCHANGED direct
  /\ UNCHANGED <<phase, controller, session, refused, steerVars, nextVars, faults, callVars>>

DirectWriteDone(w) ==
  /\ direct' = direct \ {w}
  /\ session' = Append(session, w)
  /\ UNCHANGED <<phase, controller, pending, issued, deferred, refused, steerVars,
                 nextVars, faults, callVars>>

DirectWriteFails(w) ==
  /\ Fault
  /\ direct' = direct \ {w}
  /\ refused' = refused \cup {w}
  /\ UNCHANGED <<phase, controller, pending, session, issued, deferred, steerVars,
                 nextVars, callVars>>

steer ==
  /\ phase # "idle"
  /\ steered < MaxMsgs
  /\ steered' = steered + 1
  /\ steerQueue' = Append(steerQueue, steered')
  /\ UNCHANGED <<phase, controller, writeVars, aborts, delivered, cleared, dropped,
                 lost, nextVars, faults, callVars>>

next_turn ==
  /\ nextCount < MaxNext
  /\ nextCount' = nextCount + 1
  /\ nextQueue' = Append(nextQueue, nextCount')
  /\ UNCHANGED <<phase, controller, writeVars, steerVars, started, faults, callVars>>

\* abort() gives the queues new lists and returns what the old ones held.
abort ==
  /\ aborts < MaxAborts
  /\ aborts' = aborts + 1
  /\ cleared' = cleared \cup ToSet(steerQueue)
  /\ steerQueue' = <<>>
  /\ UNCHANGED <<phase, controller, writeVars, steered, delivered, dropped, lost, nextVars,
                 faults, callVars>>

-----------------------------------------------------------------------------

Init ==
  /\ phase = "idle"
  /\ controller = 0
  /\ pending = <<>> /\ session = <<>>
  /\ issued = 0 /\ deferred = {} /\ direct = {} /\ refused = {}
  /\ steerQueue = <<>> /\ aborts = 0 /\ steered = 0
  /\ delivered = <<>> /\ cleared = {} /\ dropped = {} /\ lost = {}
  /\ nextQueue = <<>> /\ nextCount = 0 /\ started = <<>>
  /\ faults = 0
  /\ pc = [c \in Calls |-> "none"]
  /\ then = [c \in Calls |-> "loop"]
  /\ write = [c \in Calls |-> 0]
  /\ held = [c \in Calls |-> Nothing]

\* Steps that end a suspension of a call.
Progress(c) ==
  \/ CreateStateDone(c)
  \/ AnnounceDone(c)
  \/ BeforeStartDone(c)
  \/ PollDone(c)
  \/ WriteDone(c)
  \/ TailDone(c)
  \/ EndWork(c)

LoopStep(c) ==
  \/ Save(c)
  \/ \E mode \in {"all", "one-at-a-time"} : Poll(c, mode)

Failure(c) ==
  \/ CreateStateFails(c)
  \/ AnnounceFails(c)
  \/ BeforeStartFails(c)
  \/ PollFails(c)
  \/ WriteFails(c)
  \/ TailFails(c)
  \/ Cancel(c)

Next ==
  \/ \E c \in Calls :
       \/ Prompt(c)
       \/ \E what \in {"compaction", "branch_summary"} : BeginWork(c, what)
       \/ Progress(c)
       \/ LoopStep(c)
       \/ AgentEnd(c)
       \/ Failure(c)
  \/ Write
  \/ \E w \in direct : DirectWriteDone(w) \/ DirectWriteFails(w)
  \/ steer
  \/ next_turn
  \/ abort

Spec == Init /\ [][Next]_vars

\* Session, hooks and listeners return or raise, and the loop comes to agent_end.
FairSpec ==
  /\ Spec
  /\ \A c \in Calls : WF_vars(Progress(c)) /\ SF_vars(AgentEnd(c))

-----------------------------------------------------------------------------
(* Properties *)

CallType ==
  /\ phase \in {"idle", "turn", "compaction", "branch_summary"}
  /\ controller \in 0..MaxCalls
  /\ faults \in 0..MaxFaults
  /\ pc \in [Calls -> {"none", "createState", "announce", "beforeStart", "loop", "polled",
                       "writing", "tail", "compaction", "branch_summary", "returned", "raised"}]
  /\ then \in [Calls -> {"loop", "ended", "returned", "raised"}]
  /\ write \in [Calls -> 0..MaxWrites]
  /\ held \in [Calls -> [msgs : Seq(Nat), mode : {"all", "one-at-a-time"}, list : 0..MaxAborts]]

WriteType ==
  /\ pending \in Seq(1..MaxWrites) /\ session \in Seq(1..MaxWrites)
  /\ issued \in 0..MaxWrites
  /\ deferred \in SUBSET (1..issued)
  /\ direct \in SUBSET (1..issued) /\ refused \in SUBSET (1..issued)

SteerType ==
  /\ steerQueue \in Seq(1..MaxMsgs) /\ delivered \in Seq(1..MaxMsgs)
  /\ steered \in 0..MaxMsgs /\ aborts \in 0..MaxAborts
  /\ cleared \in SUBSET (1..steered)
  /\ dropped \in SUBSET (1..steered) /\ lost \in SUBSET (1..steered)

NextType ==
  /\ nextQueue \in Seq(1..MaxNext) /\ started \in Seq(1..MaxNext)
  /\ nextCount \in 0..MaxNext

\* The types of the variables.
TypeOK == CallType /\ WriteType /\ SteerType /\ NextType

Increasing(s) == \A i, j \in DOMAIN s : i < j => s[i] < s[j]

\* Every write is in the session or put off exactly once, unless its caller is still
\* appending it or was told that it was refused; and those that were put off reach the
\* session in the order in which they were asked for, whatever fails on the way and
\* however many writes are added while a flush is suspended
\* (_flush_pending_session_writes).
WritesOnceInOrder ==
  LET flow == session \o pending
  IN /\ \A i, j \in DOMAIN flow : i < j /\ {flow[i], flow[j]} \subseteq deferred
                                  => flow[i] < flow[j]
     /\ IsInjective(flow)
     /\ ToSet(flow) = (1..issued) \ (direct \cup refused)
     /\ ToSet(pending) \subseteq deferred /\ deferred \subseteq ToSet(flow)

\* The phase tells callers what the harness is at: "turn" until agent_end, through the
\* flushes at the ends of the loop's turns; a call that has ended, by whichever
\* exception or cancellation, leaves neither its phase nor its controller behind
\* (_flush_pending_session_writes, _execute_turn and the finally clauses).
PhaseTells ==
  /\ \A c \in Calls :
       /\ \/ pc[c] \in {"createState", "announce", "beforeStart", "loop", "polled"}
          \/ pc[c] = "writing" /\ then[c] = "loop"
          => phase = "turn"
       /\ pc[c] \in {"compaction", "branch_summary"} => phase = pc[c]
       /\ pc[c] = "tail" => phase = "idle"
  /\ (\A c \in Calls : ~Active(c)) => phase = "idle" /\ controller = 0

\* When a turn makes the harness idle at agent_end, no write is still put off: from
\* then on writes go straight to the session and would overtake it.
IdleAfterTurnIsFlushed ==
  [][\A c \in Calls : (pc[c] # "tail" /\ pc'[c] = "tail") => pending' = <<>>]_vars

\* A steering message that was accepted is in the queue, in the hands of a poll,
\* delivered, given up by an abort, or lost in a poll that was cancelled, and in one
\* of these places only.
SteeringAccounted ==
  LET inHand == UNION {ToSet(held[c].msgs) : c \in {d \in Calls : pc[d] = "polled"}}
      places == <<ToSet(steerQueue), inHand, ToSet(delivered), cleared, dropped, lost>>
  IN /\ UNION {places[i] : i \in 1..6} = 1..steered
     /\ \A i, j \in 1..6 : i # j => places[i] \cap places[j] = {}
     /\ aborts = 0 => cleared \cup dropped = {}

\* Next-turn messages begin turns in the order in which they were given, also when
\* a failed announcement has put some back (_execute_turn).
NextTurnInOrder ==
  \A c \in Calls : pc[c] \in {"announce", "beforeStart"} =>
    Increasing(started \o held[c].msgs \o nextQueue)

\* While the loop of a turn runs, abort() reaches its signal.
AbortReachesLoop == \A c \in Calls : InLoop(c) => controller = c

\* The harness never stays busy.
IdleAgain == phase # "idle" ~> phase = "idle"

\* A call of prompt, compact or navigate_tree returns or raises.
CallsEnd == \A c \in Calls : Active(c) ~> pc[c] \in Over

\* "compact() requires idle harness": no turn's loop runs during a compaction.
CompactionAlone ==
  \A c, d \in Calls : pc[c] = "compaction" => ~InLoop(d)

=============================================================================
