------------------------------ MODULE AgentLoop ------------------------------
(***************************************************************************)
(* One Agent (openclaw_packages/agent_core/agent.py) and the loop it runs  *)
(* (agent_loop.py).  Everything happens on one asyncio event loop, so the  *)
(* agent's callers act only where the run is really suspended: in the      *)
(* listeners of an event (each `await emit(...)`), in the hooks that build *)
(* a request, in the model provider's stream, or in the prepareNextTurn    *)
(* hook.  A step of the run goes from one such suspension to the next one. *)
(***************************************************************************)
EXTENDS Naturals, Sequences, FiniteSets

CONSTANTS
  MaxMsgs,       \* user messages handed to the agent (bound)
  MaxBatch,      \* messages in one prompt() call (bound)
  MaxCalls,      \* tool calls in one response (bound)
  MaxToolTurns,  \* responses that call tools (bound)
  MaxFaults      \* exceptions and cancellations that hit a run (bound)

ASSUME Bounds == {MaxMsgs, MaxBatch, MaxCalls, MaxToolTurns, MaxFaults} \subseteq Nat

VARIABLES
  messages,          \* _state._messages, the transcript
  isStreaming,       \* _state.isStreaming
  streamingMessage,  \* _state.streamingMessage
  pendingToolCalls,  \* _state.pendingToolCalls
  errorMessage,      \* _state.errorMessage is set
  steering,          \* _steering_queue
  followUps,         \* _follow_up_queue
  pc,                \* where the active run is suspended; "idle" is _active_run = None
  out,               \* events the run emits before its next decision
  aborted,           \* the active run's abort signal
  context,           \* _run_loop's current_context.messages
  added,             \* _stream_assistant_response's added_partial
  skip,              \* skipInitialSteeringPoll
  mode,              \* how the current tool batch runs
  answered,          \* tool calls of the current batch that have a result
  nextId,            \* identity of the next user message
  toolTurns, faults, \* what is used up of MaxToolTurns and MaxFaults
  discarded,         \* history: messages an interruption, a clear or a reset dropped
  escaped            \* history: a run ended without agent_end (its task raised)

agentState == <<messages, isStreaming, streamingMessage, pendingToolCalls, errorMessage>>
queues == <<steering, followUps>>
locals == <<context, added, skip, mode, answered>>
history == <<nextId, toolTurns, faults, discarded, escaped>>
vars == <<agentState, queues, pc, out, aborted, locals, history>>

-----------------------------------------------------------------------------
(* Messages.  A user message carries the entry point it came through as    *)
(* its kind.  "assistant" and "error" are provider responses (the second   *)
(* with stop_reason error or aborted), "aborted" is the AssistantMessage   *)
(* of _stop_if_aborted, "failure" the dict of _handle_run_failure.         *)

UserKinds == {"prompt", "steer", "followUp"}
Kinds == UserKinds \cup {"assistant", "error", "aborted", "failure", "toolResult", "partial"}
Message == [kind : Kinds, id : Nat, calls : Nat]

User(kind, n) == [kind |-> kind, id |-> n, calls |-> 0]
Assistant(kind, c) == [kind |-> kind, id |-> 0, calls |-> c]
ToolResult(i) == [kind |-> "toolResult", id |-> i, calls |-> 0]
Partial == Assistant("partial", 0)
NoMessage == [kind |-> "none", id |-> 0, calls |-> 0]

\* getattr(message, "role") is "assistant": only messages that are objects have the attribute.
HasAssistantRole(m) == m.kind \in {"assistant", "error", "aborted"}

Last(s) == s[Len(s)]

UserIds(s) == {s[i].id : i \in {j \in DOMAIN s : s[j].kind \in UserKinds}}

-----------------------------------------------------------------------------
(* Events.  Every message_start is followed by the message_end of the same *)
(* message, so `out` holds one entry for the pair until both are emitted.  *)

EventTypes == {"agent_start", "turn_start", "message_start", "message_end",
               "tool_execution_start", "tool_execution_end", "turn_end", "agent_end"}
Event == [type : EventTypes, msg : Message]

Bare(type) == [type |-> type, msg |-> Partial]
About(type, m) == [type |-> type, msg |-> m]
Say(ms) == [i \in DOMAIN ms |-> About("message_start", ms[i])]

\* User messages that the run has taken and not yet put in the transcript.
Undelivered(evs) ==
  {evs[i].msg.id : i \in {j \in DOMAIN evs : /\ evs[j].type \in {"message_start", "message_end"}
                                             /\ evs[j].msg.kind \in UserKinds}}

\* Fault: message_end stores the streaming message instead of the message of the event.
StoreStreamingMessage(e) ==
  /\ streamingMessage' = CASE e.type = "message_start" -> e.msg
                           [] e.type \in {"message_end", "agent_end"} -> NoMessage
                           [] OTHER -> streamingMessage
  /\ messages' = IF e.type = "message_end" THEN Append(messages, streamingMessage) ELSE messages
  /\ UNCHANGED <<pendingToolCalls, errorMessage, isStreaming>>

\* What Agent._process_events does before it calls the listeners.
_process_events(e) ==
  /\ streamingMessage' = CASE e.type = "message_start" -> e.msg
                           [] e.type \in {"message_end", "agent_end"} -> NoMessage
                           [] OTHER -> streamingMessage
  /\ messages' = IF e.type = "message_end" THEN Append(messages, e.msg) ELSE messages
  /\ pendingToolCalls' = CASE e.type = "tool_execution_start" -> pendingToolCalls \cup {e.msg.id}
                           [] e.type = "tool_execution_end" -> pendingToolCalls \ {e.msg.id}
                           [] OTHER -> pendingToolCalls
  /\ errorMessage' = (errorMessage \/ (e.type = "turn_end" /\ e.msg.kind = "failure"))
  /\ UNCHANGED isStreaming

\* Fault: a message that was started is never ended.
NoMessageEnd(evs) == Tail(evs)
AfterHead(evs) ==
  IF Head(evs).type = "message_start"
  THEN <<About("message_end", Head(evs).msg)>> \o Tail(evs)
  ELSE Tail(evs)

\* The run emits evs, one at a time, and then goes on at `next`.
Emit(evs, next) ==
  /\ _process_events(Head(evs))
  /\ out' = AfterHead(evs)
  /\ pc' = next

-----------------------------------------------------------------------------
(* _PendingMessageQueue.drain.  The mode can be set at any time, so a      *)
(* drain finds either one.                                                 *)

QueueModes == {"all", "one-at-a-time"}

\* Fault: a drain of one message does not remove it.
KeepAll(q, m) == IF m = "all" THEN <<>> ELSE q

Drained(q, m) == IF m = "all" \/ q = <<>> THEN q ELSE <<Head(q)>>
Remaining(q, m) == IF m = "all" \/ q = <<>> THEN <<>> ELSE Tail(q)

-----------------------------------------------------------------------------
(* Starting a run: prompt, continue_ and _run_with_lifecycle.              *)

Idle == pc = "idle"

\* run_agent_loop and run_agent_loop_continue up to _run_loop, with `prompts` new messages.
_run_with_lifecycle(prompts, skipPoll) ==
  /\ isStreaming' = TRUE
  /\ streamingMessage' = NoMessage
  /\ errorMessage' = FALSE
  /\ aborted' = FALSE
  /\ context' = messages \o prompts
  /\ skip' = skipPoll
  /\ out' = <<Bare("turn_start")>> \o Say(prompts)
  /\ pc' = "opening"
  /\ UNCHANGED <<messages, pendingToolCalls, added, mode, answered>>

prompt ==
  /\ Idle
  /\ \E k \in 1..MaxBatch :
       /\ nextId + k <= MaxMsgs + 1
       /\ nextId' = nextId + k
       /\ _run_with_lifecycle([i \in 1..k |-> User("prompt", nextId + i - 1)], FALSE)
  /\ UNCHANGED <<queues, toolTurns, faults, discarded, escaped>>

continue_ ==
  /\ Idle
  /\ messages # <<>>
  /\ \/ /\ HasAssistantRole(Last(messages))
        /\ steering # <<>>
        /\ \E m \in QueueModes : /\ steering' = Remaining(steering, m)
                                 /\ _run_with_lifecycle(Drained(steering, m), TRUE)
        /\ UNCHANGED followUps
     \/ /\ HasAssistantRole(Last(messages))
        /\ steering = <<>>
        /\ followUps # <<>>
        /\ \E m \in QueueModes : /\ followUps' = Remaining(followUps, m)
                                 /\ _run_with_lifecycle(Drained(followUps, m), FALSE)
        /\ UNCHANGED steering
     \/ /\ ~HasAssistantRole(Last(messages))
        /\ _run_with_lifecycle(<<>>, FALSE)
        /\ UNCHANGED queues
  /\ UNCHANGED history

-----------------------------------------------------------------------------
(* The loop.  A step that decides something is taken when every event      *)
(* before it has been handled (out is empty).                              *)

Resumes(at) == pc = at /\ out = <<>>

\* The listeners of the last event have returned; the next event is emitted.
EmitNext ==
  /\ out # <<>>
  /\ Emit(out, pc)
  /\ UNCHANGED <<queues, aborted, locals, history>>

\* _stop_if_aborted found the signal set; `lost` has just been drained.
_stop_if_aborted(lost) ==
  /\ aborted
  /\ LET m == Assistant("aborted", 0)
     IN  Emit(Say(<<m>>) \o <<About("turn_end", m), Bare("agent_end")>>, "ending")
  /\ discarded' = discarded \cup UserIds(lost)
  /\ UNCHANGED locals

\* A turn with these pending messages: the inner loop from line 286 to the check at 302.
OpenTurn(events, pending) ==
  /\ ~aborted
  /\ Emit(events \o Say(pending), "turn")
  /\ context' = context \o pending
  /\ UNCHANGED <<added, skip, mode, answered, discarded>>

\* Fault: the check before the request is missing.
CallModelUnchecked ==
  /\ pc' \in {"convert", "request"}
  /\ UNCHANGED <<agentState, out, locals, discarded>>

\* _stream_assistant_response is entered.  The hooks that build the request out of the
\* context (transformContext, convertToLlm, getApiKey) may suspend; without one that does
\* the request goes out at once.  No event is emitted before the provider answers.
CallModel ==
  /\ ~aborted
  /\ pc' \in {"convert", "request"}
  /\ UNCHANGED <<agentState, out, locals, discarded>>

\* _run_loop up to the first request: the initial steering poll.
BeginLoop ==
  /\ Resumes("opening")
  /\ \E m \in QueueModes :
       LET pending == IF skip THEN <<>> ELSE Drained(steering, m)
       IN  /\ steering' = IF skip THEN steering ELSE Remaining(steering, m)
           /\ \/ _stop_if_aborted(pending)
              \/ pending # <<>> /\ OpenTurn(<<>>, pending)
              \/ pending = <<>> /\ CallModel
  /\ UNCHANGED <<followUps, aborted, nextId, toolTurns, faults, escaped>>

StartRequest ==
  /\ Resumes("turn")
  /\ _stop_if_aborted(<<>>) \/ CallModel
  /\ UNCHANGED <<queues, aborted, nextId, toolTurns, faults, escaped>>

\* The hooks have returned and the request goes out; nobody looks at the signal again.
SendRequest ==
  /\ pc = "convert"
  /\ pc' = "request"
  /\ UNCHANGED <<agentState, queues, out, aborted, locals, history>>

\* A "start" event of the provider's stream.
StreamStart ==
  /\ pc = "request"
  /\ ~added
  /\ added' = TRUE
  /\ context' = Append(context, Partial)
  /\ _process_events(About("message_start", Partial))
  /\ UNCHANGED <<queues, pc, out, aborted, skip, mode, answered, history>>

\* A text, thinking or toolcall event: message_update shows the partial message again.
StreamUpdate ==
  /\ pc = "request"
  /\ added
  /\ streamingMessage' = Partial
  /\ UNCHANGED <<messages, isStreaming, pendingToolCalls, errorMessage>>
  /\ UNCHANGED <<queues, pc, out, aborted, locals, history>>

\* What becomes of the context when the response is complete.
\* Fault: the response is appended although its partial form is already there.
AppendFinal(m) == Append(context, m)
FinalContext(m) == IF added THEN [context EXCEPT ![Len(context)] = m] ELSE Append(context, m)

\* The stream is over; its result replaces the partial message.  A response that failed
\* on the way may hold calls as well.
StreamDone ==
  /\ pc = "request"
  /\ \E kind \in {"assistant", "error"}, c \in 0..MaxCalls :
       /\ c > 0 => toolTurns < MaxToolTurns
       /\ toolTurns' = IF c > 0 THEN toolTurns + 1 ELSE toolTurns
       /\ context' = FinalContext(Assistant(kind, c))
       /\ Emit(IF added THEN <<About("message_end", Assistant(kind, c))>>
               ELSE Say(<<Assistant(kind, c)>>), "answer")
  /\ added' = FALSE
  /\ UNCHANGED <<queues, aborted, skip, mode, answered, nextId, faults, discarded, escaped>>

-----------------------------------------------------------------------------
(* Tool calls.  _validate_tool_arguments calls itself with dicts and       *)
(* raises, which _prepare_tool_call turns into an error result, so every   *)
(* call gets an immediate result that does not terminate the batch.        *)

Calls == Last(context).calls
Results(k) == [i \in 1..k |-> ToolResult(i)]

\* Fault: a call with an immediate result never reports its end.
CallEventsNoEnd(i, m) ==
  <<About("tool_execution_start", ToolResult(i))>>
    \o (IF m = "sequential" THEN Say(<<ToolResult(i)>>) ELSE <<>>)

\* What the batch emits for its i-th call before it looks at the abort signal.
CallEvents(i, m) ==
  <<About("tool_execution_start", ToolResult(i)), About("tool_execution_end", ToolResult(i))>>
    \o (IF m = "sequential" THEN Say(<<ToolResult(i)>>) ELSE <<>>)

\* _run_loop after a response: lines 308 to 334.
Answer ==
  /\ Resumes("answer")
  /\ \/ /\ Last(context).kind = "error"
        /\ Emit(<<About("turn_end", Last(context)), Bare("agent_end")>>, "ending")
        /\ UNCHANGED locals
     \/ /\ Last(context).kind # "error" /\ Calls = 0
        /\ Emit(<<About("turn_end", Last(context))>>, "turnEnd")
        /\ answered' = 0
        /\ UNCHANGED <<context, added, skip, mode>>
     \/ /\ Last(context).kind # "error" /\ Calls > 0
        /\ \E m \in {"sequential", "parallel"} : mode' = m /\ Emit(CallEvents(1, m), "tools")
        /\ answered' = 1
        /\ UNCHANGED <<context, added, skip>>
  /\ UNCHANGED <<queues, aborted, history>>

\* The batch goes on with its next call unless the run was aborted.
NextCall ==
  /\ Resumes("tools")
  /\ answered < Calls
  /\ ~aborted
  /\ Emit(CallEvents(answered + 1, mode), "tools")
  /\ answered' = answered + 1
  /\ UNCHANGED <<queues, aborted, context, added, skip, mode, history>>

\* Fault: the batch waits for every call although an abort stopped it.
CollectAllResults ==
  /\ Resumes("tools")
  /\ mode = "parallel"
  /\ answered = Calls
  /\ Emit(Say(Results(answered)), "results")
  /\ UNCHANGED <<queues, aborted, locals, history>>

\* A parallel batch emits its result messages once all calls are finalized.
CollectResults ==
  /\ Resumes("tools")
  /\ mode = "parallel"
  /\ answered = Calls \/ aborted
  /\ Emit(Say(Results(answered)), "results")
  /\ UNCHANGED <<queues, aborted, locals, history>>

\* Fault: the results are emitted but do not join the context.
EndBatchWithoutResults ==
  /\ \/ Resumes("tools") /\ mode = "sequential" /\ (answered = Calls \/ aborted)
     \/ Resumes("results")
  /\ Emit(<<About("turn_end", Last(context))>>, "turnEnd")
  /\ UNCHANGED <<queues, aborted, locals, history>>

\* The results join the context and the turn ends.
EndBatch ==
  /\ \/ Resumes("tools") /\ mode = "sequential" /\ (answered = Calls \/ aborted)
     \/ Resumes("results")
  /\ context' = context \o Results(answered)
  /\ Emit(<<About("turn_end", Last(context))>>, "turnEnd")
  /\ UNCHANGED <<queues, aborted, added, skip, mode, answered, history>>

-----------------------------------------------------------------------------
(* Between turns.                                                          *)

\* What getFollowUpMessages returns to the loop.
_followup(m) == Drained(followUps, m)

\* Fault: the tool results do not call for another turn.
PollQueuesOnly ==
  \E m, n \in QueueModes :
    LET pending == Drained(steering, m)
        after == _followup(n)
    IN  /\ steering' = Remaining(steering, m)
        /\ \/ /\ _stop_if_aborted(pending)
              /\ UNCHANGED followUps
           \/ /\ pending # <<>>
              /\ OpenTurn(<<Bare("turn_start")>>, pending)
              /\ UNCHANGED followUps
           \/ /\ pending = <<>> /\ after # <<>>
              /\ OpenTurn(<<Bare("turn_start")>>, after)
              /\ followUps' = Remaining(followUps, n)
           \/ /\ pending = <<>> /\ after = <<>>
              /\ ~aborted
              /\ Emit(<<Bare("agent_end")>>, "ending")
              /\ UNCHANGED <<followUps, locals, discarded>>

\* Lines 387 to 409: steering messages, another turn for the tool results, follow-ups, the end.
PollQueues ==
  \E m, n \in QueueModes :
    LET pending == Drained(steering, m)
        after == _followup(n)
        more == answered > 0
    IN  /\ steering' = Remaining(steering, m)
        /\ \/ /\ _stop_if_aborted(pending)
              /\ UNCHANGED followUps
           \/ /\ more \/ pending # <<>>
              /\ OpenTurn(<<Bare("turn_start")>>, pending)
              /\ UNCHANGED followUps
           \/ /\ ~more /\ pending = <<>> /\ after # <<>>
              /\ OpenTurn(<<Bare("turn_start")>>, after)
              /\ followUps' = Remaining(followUps, n)
           \/ /\ ~more /\ pending = <<>> /\ after = <<>>
              /\ ~aborted
              /\ Emit(<<Bare("agent_end")>>, "ending")
              /\ UNCHANGED <<followUps, locals, discarded>>

\* After turn_end (line 338), with no prepareNextTurn hook.
EndTurn ==
  /\ Resumes("turnEnd")
  /\ \/ _stop_if_aborted(<<>>) /\ UNCHANGED queues
     \/ ~aborted /\ PollQueues
  /\ UNCHANGED <<aborted, nextId, toolTurns, faults, escaped>>

\* After turn_end, with a prepareNextTurn hook: the run waits for it.
CallPrepareNextTurn ==
  /\ Resumes("turnEnd")
  /\ ~aborted
  /\ pc' = "prepare"
  /\ UNCHANGED <<agentState, queues, out, aborted, locals, history>>

PrepareNextTurnReturns ==
  /\ pc = "prepare"
  /\ PollQueues
  /\ UNCHANGED <<aborted, nextId, toolTurns, faults, escaped>>

-----------------------------------------------------------------------------
(* How a run ends.                                                         *)

\* Fault: _finish_run forgets the pending tool calls.
FinishKeepingCalls ==
  /\ isStreaming' = FALSE
  /\ streamingMessage' = NoMessage
  /\ pc' = "idle"
  /\ out' = <<>>
  /\ aborted' = FALSE
  /\ context' = <<>> /\ added' = FALSE /\ skip' = FALSE /\ mode' = "none" /\ answered' = 0
  /\ UNCHANGED <<messages, errorMessage, pendingToolCalls>>

_finish_run ==
  /\ isStreaming' = FALSE
  /\ streamingMessage' = NoMessage
  /\ pendingToolCalls' = {}
  /\ pc' = "idle"
  /\ out' = <<>>
  /\ aborted' = FALSE
  /\ context' = <<>> /\ added' = FALSE /\ skip' = FALSE /\ mode' = "none" /\ answered' = 0
  /\ UNCHANGED <<messages, errorMessage>>

Finish ==
  /\ Resumes("ending") \/ Resumes("failing")
  /\ _finish_run
  /\ UNCHANGED <<queues, history>>

\* A listener, a hook or the provider raises: _handle_run_failure.
RunRaises ==
  /\ pc \notin {"idle", "failing"}
  /\ faults < MaxFaults
  /\ LET m == Assistant("failure", 0)
     IN  Emit(Say(<<m>>) \o <<About("turn_end", m), Bare("agent_end")>>, "failing")
  /\ discarded' = discarded \cup Undelivered(out)
  /\ faults' = faults + 1
  /\ UNCHANGED <<queues, aborted, locals, nextId, toolTurns, escaped>>

\* The task of the run is cancelled, or a listener raises while a failure is reported:
\* only the finally clause runs.
RunEscapes ==
  /\ pc # "idle"
  /\ faults < MaxFaults
  /\ _finish_run
  /\ discarded' = discarded \cup Undelivered(out)
  /\ faults' = faults + 1
  /\ escaped' = TRUE
  /\ UNCHANGED <<queues, nextId, toolTurns>>

-----------------------------------------------------------------------------
(* What callers may do at every suspension.                                *)

steer ==
  /\ nextId <= MaxMsgs
  /\ steering' = Append(steering, User("steer", nextId))
  /\ nextId' = nextId + 1
  /\ UNCHANGED <<agentState, followUps, pc, out, aborted, locals, toolTurns, faults, discarded, escaped>>

followUp ==
  /\ nextId <= MaxMsgs
  /\ followUps' = Append(followUps, User("followUp", nextId))
  /\ nextId' = nextId + 1
  /\ UNCHANGED <<agentState, steering, pc, out, aborted, locals, toolTurns, faults, discarded, escaped>>

clearSteeringQueue ==
  /\ steering' = <<>>
  /\ discarded' = discarded \cup UserIds(steering)
  /\ UNCHANGED <<agentState, followUps, pc, out, aborted, locals, nextId, toolTurns, faults, escaped>>

clearFollowUpQueue ==
  /\ followUps' = <<>>
  /\ discarded' = discarded \cup UserIds(followUps)
  /\ UNCHANGED <<agentState, steering, pc, out, aborted, locals, nextId, toolTurns, faults, escaped>>

abort ==
  /\ ~Idle
  /\ aborted' = TRUE
  /\ UNCHANGED <<agentState, queues, pc, out, locals, history>>

\* reset does not look at _active_run: it may hit a run in progress.
reset ==
  /\ messages' = <<>>
  /\ isStreaming' = FALSE
  /\ streamingMessage' = NoMessage
  /\ pendingToolCalls' = {}
  /\ errorMessage' = FALSE
  /\ steering' = <<>>
  /\ followUps' = <<>>
  /\ discarded' = discarded \cup UserIds(messages) \cup UserIds(steering) \cup UserIds(followUps)
  /\ UNCHANGED <<pc, out, aborted, locals, nextId, toolTurns, faults, escaped>>

-----------------------------------------------------------------------------
Init ==
  /\ messages = <<>>
  /\ isStreaming = FALSE
  /\ streamingMessage = NoMessage
  /\ pendingToolCalls = {}
  /\ errorMessage = FALSE
  /\ steering = <<>> /\ followUps = <<>>
  /\ pc = "idle" /\ out = <<>> /\ aborted = FALSE
  /\ context = <<>> /\ added = FALSE /\ skip = FALSE /\ mode = "none" /\ answered = 0
  /\ nextId = 1 /\ toolTurns = 0 /\ faults = 0 /\ discarded = {} /\ escaped = FALSE

\* Steps of the run that the event loop takes by itself.
RunStep ==
  \/ EmitNext \/ BeginLoop \/ StartRequest \/ SendRequest \/ StreamDone
  \/ Answer \/ NextCall \/ CollectResults \/ EndBatch
  \/ EndTurn \/ PrepareNextTurnReturns \/ Finish

\* Steps that the provider, the hooks or an error may add.
Environment == StreamStart \/ StreamUpdate \/ CallPrepareNextTurn \/ RunRaises \/ RunEscapes

Caller ==
  \/ prompt \/ continue_ \/ steer \/ followUp
  \/ clearSteeringQueue \/ clearFollowUpQueue \/ abort \/ reset

Next == RunStep \/ Environment \/ Caller

Spec == Init /\ [][Next]_vars

\* The event loop keeps scheduling the run, listeners and hooks return, the provider answers.
FairSpec == Spec /\ WF_vars(RunStep)
-----------------------------------------------------------------------------
(* Properties.                                                             *)

Places == {"idle", "opening", "turn", "convert", "request", "answer", "tools", "results",
           "turnEnd", "prepare", "ending", "failing"}

AgentStateType ==
  /\ messages \in Seq(Message)
  /\ isStreaming \in BOOLEAN
  /\ streamingMessage \in Message \cup {NoMessage}
  /\ pendingToolCalls \in SUBSET Nat
  /\ errorMessage \in BOOLEAN

QueueType == steering \in Seq(Message) /\ followUps \in Seq(Message)

RunType == pc \in Places /\ out \in Seq(Event) /\ aborted \in BOOLEAN

LocalType ==
  /\ context \in Seq(Message)
  /\ added \in BOOLEAN /\ skip \in BOOLEAN
  /\ mode \in {"none", "sequential", "parallel"}
  /\ answered \in Nat

HistoryType ==
  /\ nextId \in Nat /\ toolTurns \in Nat /\ faults \in Nat
  /\ discarded \in SUBSET Nat
  /\ escaped \in BOOLEAN

\* Every variable keeps its type; in particular the transcript only ever holds messages,
\* whatever streamingMessage was when they ended.
TypeOK == AgentStateType /\ QueueType /\ RunType /\ LocalType /\ HistoryType

\* Where the run is suspended outside a listener it owes no event, and while a response is
\* streamed or its tool calls are executed the context is not empty; a batch has begun
\* with its first call.
RunShape ==
  /\ pc \in {"idle", "convert", "request", "prepare"} => out = <<>>
  /\ Idle => ~added
  /\ added \/ pc \in {"answer", "tools", "results"} => context # <<>>
  /\ pc = "tools" => answered > 0

\* Whatever ended the last run (normal end, abort, failure, cancellation, a reset in the
\* middle of it), an idle agent shows no streaming message, no pending tool call and no
\* streaming flag: the cleanup of Agent._finish_run covers every way out.
IdleIsClean ==
  Idle => /\ ~isStreaming
          /\ streamingMessage = NoMessage
          /\ pendingToolCalls = {}
          /\ out = <<>>

\* No message given to prompt(), steer() or followUp() vanishes: it is still queued, or
\* taken by the run and about to be delivered, or in the transcript, or it was dropped by a
\* clear, a reset or an interrupted run.
NothingVanishes ==
  \A n \in 1..(nextId - 1) :
    \/ n \in UserIds(steering) \/ n \in UserIds(followUps)
    \/ n \in Undelivered(out)
    \/ n \in UserIds(messages)
    \/ n \in discarded

\* The user messages of the agent in the order the model will have seen them.
Pipeline == messages \o [i \in DOMAIN out |-> out[i].msg] \o steering \o followUps

\* Messages of one entry point are delivered in the order they were handed over and never
\* twice, across polls, drain modes, aborts and continue_ (agent.py's two queues).
FifoAndOnce ==
  \A i, j \in DOMAIN Pipeline :
    /\ i < j
    /\ Pipeline[i].kind \in UserKinds
    /\ Pipeline[i].kind = Pipeline[j].kind
    => Pipeline[i].id < Pipeline[j].id

\* A request is built from the transcript: the loop's own context, which it keeps beside
\* the transcript the events build and hands to convertToLlm, ends with exactly the messages
\* of the transcript (and holds more only after a reset in the middle of the run).
RequestSeesTranscript ==
  pc \in {"convert", "request"} =>
    LET n == Len(context) - (IF added THEN 1 ELSE 0)
    IN  /\ Len(messages) <= n
        /\ \A i \in DOMAIN messages : context[n - Len(messages) + i] = messages[i]

\* In the context a request is built from (as _stream_assistant_response hands it to
\* convertToLlm) every tool call of a response is followed by its results in call order, or
\* by the message of the abort or failure that cut the batch short; the calls of a response
\* that failed were not executed, so no result stands behind it.  Runs whose task was
\* cancelled leave neither results nor a message, so they are excluded.
ToolCallsAnswered ==
  (pc \in {"convert", "request"} /\ ~escaped) =>
    \A i \in DOMAIN context :
      /\ context[i].kind = "assistant" =>
           \A j \in 1..context[i].calls :
             \/ i + j <= Len(context) /\ context[i + j] = ToolResult(j)
             \/ \E k \in 1..j : /\ i + k <= Len(context)
                                /\ context[i + k].kind \in {"aborted", "failure"}
      /\ context[i].kind = "error" /\ i < Len(context) => context[i + 1].kind # "toolResult"

\* pendingToolCalls shows calls that are being executed and nothing else: between batches
\* it is empty, in a batch it holds at most the call that is under way.
PendingToolCallsTracked ==
  /\ pc \in {"opening", "turn", "convert", "request", "answer", "turnEnd", "prepare", "results"}
       => pendingToolCalls = {}
  /\ pc = "tools" => pendingToolCalls \subseteq {answered}

\* After abort() the run builds no other request and starts no other tool call of the batch
\* it is in, wherever it was suspended when the signal was set.  Only a request whose hooks
\* are under way still goes out: _stream_assistant_response does not look at the signal.
AbortStops ==
  [][aborted => /\ pc' = "convert" => pc = "convert"
                /\ pc' = "request" => pc \in {"convert", "request"}
                /\ (pc = "tools" /\ pc' = "tools") => answered' = answered]_vars

\* Reports that stand for the answer of the model.
Closing == {"assistant", "error", "aborted", "failure"}

\* A run leaves nothing unanswered: when it ends, by itself or after an abort or a failure,
\* the transcript does not end with a message or a tool result that the model was not asked
\* about, whatever was steered, polled and executed before (the conditions of the two loops
\* of _run_loop).  It is empty if a reset emptied it at the end of the run.
AnsweredAtEnd ==
  Resumes("ending") \/ Resumes("failing") =>
    messages = <<>> \/ Last(messages).kind \in Closing

\* What continue_ and run_agent_loop_continue refuse ("Cannot continue from message role:
\* assistant"): a continuation, which adds no prompt, never starts behind an assistant
\* message.  The dict that reports a failed run has no role attribute and gets through.
NoContinuationFromAssistant ==
  [][(Idle /\ pc' = "opening" /\ context' = messages)
       => Last(messages).kind \notin {"assistant", "error", "aborted", "failure"}]_vars

\* Every run ends, whatever its callers do meanwhile.
RunTerminates == (pc # "idle") ~> (pc = "idle")
=============================================================================
