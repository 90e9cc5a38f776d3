# openclaw-py: TLA+ models, checks and proofs

`openclaw-py` is the Python port of OpenClaw, an assistant that answers on chat
channels, runs agents with tools and is reached through a gateway. This directory
holds TLA+ models of the parts of it whose correctness depends on the order in which
things happen, the TLC configurations that check them, and TLAPS proofs.

Every Python process of the system runs one asyncio event loop. Two pieces of code
interleave only where a coroutine is really suspended, so the models take one step
from one suspension of a task to the next; whatever a handler does in between is one
action. Times of the provider, of hooks, of listeners and of the file system are
arbitrary. The stall watchdog is the exception: it uses threads and a lock, and a step
there is a critical section.

## Inventory

| Component | State | Operations | Interactions, and what is hard |
|---|---|---|---|
| Agent and agent loop (`openclaw_packages/agent_core/agent.py`, `agent_loop.py`) | transcript, streaming message, pending tool calls, two message queues, the active run with its abort signal, the loop's own context | `prompt`, `continue_`, `steer`, `followUp`, `abort`, `reset`, `clear*Queue`, `waitForIdle`; the loop: poll, request, stream, tool batch, end | the loop calls back into the agent for every event; listeners and callers act at every `await`; aborts, failures and cancellation can hit anywhere; transcript and context are two copies |
| Cron operation lock (`openclaw/cron/service/locked.py`) | `state.op`, `_GLOBAL_STORE_LOCKS` | `locked(state, fn)` | two chains of tasks; cancellation of a call that waits or runs |
| Store writer queue (`openclaw/shared/store_writer_queue.py`) | queue, pending writes, drain promise per store | `run_queued_store_write` | drains are detached tasks; a drain can die while writes are queued |
| Keyed async queue (`openclaw/infra/keyed_async_queue.py`) | queue and processing mark per key | `enqueue`, `process` | cancellation of a handler leaves the mark set |
| ACP control plane (`openclaw/acp/control_plane`) | lock and pending count per session, active turns | `run`, `run_turn`, `close_session` | count and lock under cancellation |
| Follow-up reply queue (`openclaw/auto_reply/reply/queue`) | queue per session | enqueue with dedupe and cap, drain, prune | a drain is suspended in its handler while the queue is capped, pruned or drained by another |
| SDK event hub, client, transport (`openclaw_packages/sdk`) | two hubs with subscribers, replay buffers per run, the pump between the hubs, the futures `_event_pump_ready` and `_close_promise` | `connect`, `request`, `run_events`, `close`; `publish`, `close` and streams of a hub | replay and live events must join without a gap; close waits for the pump, which waits for the transport; cancellation reaches shared futures |
| Assistant message event stream (`openclaw/llm/event_stream.py`) | buffer, end mark, result future | push, end, iterate | end before or after the consumer |
| Session tree (`agent_core/harness/session`) | entries with parents, leaf, labels | append, move, branch | the leaf survives a restart through the file only |
| Agent harness (`agent_core/harness/agent_harness.py`) | the phase, session writes put off, three message queues, the abort controller | `prompt`, `skill`, `prompt_from_template`, `compact`, `navigate_tree`, `steer`, `follow_up`, `next_turn`, `append_message`, `set_model`, `abort` | it is called back by the agent loop; every session call, hook and listener suspends and may raise; phases must exclude one another |
| Stall watchdog (`openclaw/channels/transport/stall_watchdog.py`) | armed, stopped, last activity, timer | `arm`, `touch`, `disarm`, `stop`, `_check` | timer threads wait for the lock; the report is made outside it |
| Flood and loop guards, auth cooldowns | counters with windows | note, check | window boundaries |
| Gateway, protocol, providers, CLI, channels, extensions, catalogues, text and media | configuration and I/O | parsing, formatting, requests | sequential or external |

What makes each part correct:

* *Agent*: messages enter the transcript once and in order, and none is lost but by an
  abort, a reset or a failure; a request is built from what the transcript shows, with a
  result for every tool call that was executed; an abort takes effect at the next
  decision; a run leaves nothing behind and nothing unanswered, however it ends; it ends.
* *Serializers* (cron lock, store writer queue, keyed queue, ACP session queue): one
  operation of a key at a time, in call order, and nobody waits for ever.
* *Follow-up queue*: capped, without duplicates, no reply run twice.
* *SDK client*: each subscriber of a run gets the end of its history in order, without
  gaps or doubles, and learns of the end of the run; nobody sleeps for ever after a close.
* *Harness*: writes that were put off reach the session once and in order; every steering
  message is accounted for; next-turn messages begin turns in order; abort reaches a
  running loop; the phase tells what the harness is at, and it becomes idle again.
* *Session tree*: the leaf is always an entry, parents exist, a reload gives the same tree.
* *Watchdog*: an armed watchdog always has a check to come; one report for an arming.

`PROJECT.json` lists the components with their status, and under `hazards` the places
in the code where these properties are at risk.

## Modules

| Module | Contents |
|---|---|
| `AgentLoop` | one `Agent` and the loop it runs |
| `MCAgentLoop` | the module TLC runs |
| `AgentWait` | `AgentLoop` with a caller of `waitForIdle` |
| `AgentLoopProofs` | theorems about `AgentLoop`: types, the end of runs, what becomes of messages |
| `AgentLoopTranscriptProofs` | theorems about its transcript: order, requests, tool calls |
| `SerialExecutor` | abstract: operations on a key run one at a time, in call order |
| `CronLocked`, `MCCronLocked` | `locked()`, an implementation of `SerialExecutor` |
| `CronLockedProofs` | mutual exclusion and the refinement, proved |
| `StoreWriterQueue` | the store writer queue, another implementation of `SerialExecutor` |
| `StoreWriterProofs` | its queues and drains agree, and the refinement, proved |
| `SdkClient`, `MCSdkClient` | the SDK client with its event pump, both event hubs and the replay buffers |
| `SdkClientProofs` | its safety properties, proved |
| `AgentHarness` | `CoreAgentHarness` around a loop that calls back |
| `AgentHarnessProofs` | its safety properties, proved |
| `StallWatchdog` | `ArmableStallWatchdog` and its timer threads |
| `StallWatchdogProofs` | its safety properties, proved |

### AgentLoop

The variables are the fields of `AgentState` (`messages`, `isStreaming`,
`streamingMessage`, `pendingToolCalls`, `errorMessage`), the two
`_PendingMessageQueue`s (`steering`, `followUps`), and the run: `pc` is the place where
it is suspended ("idle" when `_active_run` is None), `out` the events it emits, one by
one, before its next decision, `aborted` its signal, `context` the messages of
`current_context` in `_run_loop`. A message is its kind, an identity and the number of
its tool calls; texts, models and usage are left out.

| Actions | Code |
|---|---|
| `prompt`, `continue_`, `steer`, `followUp`, `clearSteeringQueue`, `clearFollowUpQueue`, `abort`, `reset` | the methods of `Agent` of these names |
| `EmitNext` with `_process_events` | one `await emit(...)`: the state change and the listeners' suspension |
| `BeginLoop`, `StartRequest`, `SendRequest` | `_run_loop` up to the request, the hooks that build it, and the call of the provider |
| `StreamStart`, `StreamUpdate`, `StreamDone` | `_stream_assistant_response` |
| `Answer`, `NextCall`, `CollectResults`, `EndBatch` | `_execute_tool_calls_sequential` and `_parallel` |
| `CallPrepareNextTurn`, `PrepareNextTurnReturns`, `EndTurn` | from `turn_end` to the next turn: hook, polls, follow-ups, end |
| `Finish`, `RunRaises`, `RunEscapes` | `_finish_run`, `_handle_run_failure`, an exception or cancellation that only the `finally` sees |

`abort` and `reset` are always possible, as in the code: `reset` does not look whether
a run is active.

What the code makes impossible is left out of the model:

* `_validate_tool_arguments` (`agent_loop.py:527`) hides the imported function of that
  name and calls itself with dictionaries, which raises; `_prepare_tool_call` turns this
  into an error result. So every tool call gets an immediate error result, no tool is
  executed and no result asks to terminate; the lines behind an executed tool (631-667,
  677-783) are not reached and not modelled.
* `Agent` never sets `shouldStopAfterTurn` (372-385). `agent_loop` and
  `agent_loop_continue` (124-184) await the result of a plain method and always fail;
  only `run_agent_loop` and `run_agent_loop_continue` are modelled.

A turn's pending messages join `context` at once: the code appends each one after its
`message_end`, and nothing reads the context before the request. A context replaced by
`prepareNextTurn` (353-354) is left out.

The place "convert" is where the hooks that build a request suspend: `transformContext`,
`convertToLlm` and `getApiKey`, any of them, in one stretch, or none. The signal is not
read behind them, so that an abort there does not keep the request from going out, and
`AbortStops` allows it. What the hooks make of the context is not modelled:
`RequestSeesTranscript` and `ToolCallsAnswered` speak of the context the loop hands to
`convertToLlm`, not of what the provider receives. The default converter of `Agent`
(`agent.py:34`) looks for `role` with `getattr` and so drops every message that is a
dict: string prompts, tool results and failure reports. The one of the harness
(`harness/messages.py:98`) keeps dicts.

A response that ended in an error or an abort may hold tool calls; the loop ends there
(310-315) and they never get a result. `ToolCallsAnswered` asks results only for the
calls of other responses, and that none stands behind those.

The package `agent_core` cannot be imported at this commit: `reasoning.py:6` imports
`resolve_claude_fable5_model_identity`, which
`llm_core/model_contracts/anthropic.py:52` defines as
`resolve_claude_fable_5_model_identity`. The models describe the code as written.

### CronLocked

A call of `locked()` creates two tasks: `_run` (variable `run`: waiting for the state's
last operation, for the store's last operation, in `fn`, or ended) and `_keep_alive`
(`keep`), which settles after it and is what the next call of the chain waits for. The
bodies of both tasks are actions; reading and extending both chains is one action
because the code does not suspend there. `Cancel` is the cancellation of the caller.
The states' store paths are a constant function, so that states share stores.

### StoreWriterQueue

`run_queued_store_write` appends a write and schedules a
`_drain_store_writer_queue` task; that task starts a `_do_drain` task if none is under
way. `TakeNext` and `Finally` are the body of `_do_drain`'s loop and its `finally`
clause. A write's `fn` may return, raise, or end with `CancelledError`; a caller may be
cancelled, which makes `set_result` raise and ends the drain. The `reentrant` parameter
is ignored by the code and so by the model; a write made from inside another write's
`fn` waits for itself and is outside the model, as is the test helper that clears the
queues.

### SdkClient

It composes three parts of the SDK. The transport's hub (`rawOpen`, `rawReplay`,
`rawQueue`) holds raw events for the pump; the task `_pump` (`pump`) normalizes each
one, records it for replay (`replayRuns`, `replayOf`) and publishes it on the client's
hub (`hub`); callers of `run_events` iterate over a replay snapshot (`replay`) and then
a live stream (`queue`). `published`, by run, and `taken` are histories for the properties.

| Actions | Code |
|---|---|
| `Call`, `TransportConnected`, `TransportConnectFails`, `Resume`, `CancelWaiter` | `connect()` and `_start_event_pump` as `request` and `run_events` reach them |
| `Connected`, `Take`, `WaitOrEnd`, `Leave` | `_iterate_run_events` over an `EventStream` |
| `RawEvent`, `RawCloses` | the transport's hub |
| `PumpStart`, `PumpEvent`, `PumpEnd` | `_pump` |
| `Close`, `CloseBegins`, `CloseTransportReturns`, `CloseTransportRaises`, `PumpJoined` | `close()` and `_do_close` |
| `CancelScheduledClose`, `CancelPumpWait` | cancellation of a caller of `close()` |

A cancellation that reaches `_do_close` while it awaits the pump goes on to the pump. A
running pump is suspended in its stream, which takes the `CancelledError` as its end
(`event_hub.py:138-142`): the pump ends normally, and so does `close()`, with raw events
still queued (`closing` is "swallowed" then, "done" after a close that nothing cut
short). If the pump has ended by itself, `_do_close` is cancelled.

The pump and an iterating caller take one event per action, although the code does not
suspend between events that are queued: the model has every interleaving of the code,
and more. A pump task is created before a `_do_close` task, because `connect()` refuses
a closed client, and asyncio runs tasks in that order (guard of `CloseBegins`).

An event is an identity, its run and a kind: a terminal run event, a final chat
projection, one without `ts` (for which `normalize_gateway_event` raises), or any other.
Identities are distinct, as the gateway's `seq` makes them. The suppression of chat
deltas by assistant events, filters, `events()` and `raw_events()` are left out: they
select among events that are delivered the same way. The client's own hub keeps a replay
buffer that nothing reads. Raw events that come after the pump has ended change nothing
and are left out. `close()` clears `_event_pump_ready`; that is not seen, because every
later call raises first. The transport is external: it is modelled as
`GatewayClientTransport` behaves once it is connected, which at this commit it cannot
be (`_reject_pending_connect` is never set, so `_on_hello_ok_handler` never resolves
the connect promise); a caller may pass a transport of its own.

### AgentHarness

`phase`, `pending`, `steerQueue`, `nextQueue` are the fields of `CoreAgentHarness`;
`controller` is the call whose controller is in `_run_abort_controller`. A call of
`prompt` (or `skill`, `prompt_from_template`), `compact` or `navigate_tree` is a number
with a place `pc` where it is suspended, `then` for what follows the flush it is in,
`write` for the entry that flush read before its `await`, and `held` for the messages it
has taken out of a queue. A write is a number; `session` lists
the writes the session has appended.

| Actions | Code |
|---|---|
| `Prompt`, `CreateStateDone`, `AnnounceDone`, `BeforeStartDone` | `prompt` and `_execute_turn` up to the loop |
| `Poll`, `PollDone`, `PollFails` | `_drain_queued_messages` |
| `Save`, `WriteDone`, `WriteFails` with `Flush`, `Continue` | `_flush_pending_session_writes` from `turn_end`, `prepareNextTurn`, `agent_end` and the `finally` clause |
| `AgentEnd`, `TailDone` | `agent_end`, its listeners, and the way out |
| `CreateStateFails`, `AnnounceFails`, `BeforeStartFails`, `TailFails`, `Cancel` | exceptions and cancellation |
| `BeginWork`, `EndWork` | `compact`, `navigate_tree` |
| `Write`, `DirectWriteDone`, `DirectWriteFails` | `append_message`, `set_model`, `set_thinking_level` |
| `steer`, `next_turn`, `abort` | the methods; `steer` stands for `follow_up` too, whose queue is treated alike |

At this commit no run of the harness gets past its first request: `_create_stream_fn` is
an `async def` (`agent_harness.py:383`), and the loop does not await the coroutine that it
gets instead of a stream function (`agent_loop.py:457`). The model has more behaviours than
that: its loop may fail at once, and may also go on as the code intends.

The loop is what `AgentLoop` models in detail; here it polls, ends turns and at last
emits `agent_end`, in any order. The session is external: `append_message` returns or
raises, and a call that raised has appended nothing. The loop's own messages go to the
session directly (`message_end`) and are not counted among the writes. `compact` and
`navigate_tree` are one suspended stretch: no other operation depends on what they do
inside. The constant `Serial` says whether callers wait for a call to return before
they start the next one. Where they do not, two turns may flush at once: both append the
first entry, and the second `pop(0)` removes one that was never appended or raises.

### StallWatchdog

Each operation is one critical section. A timer thread waits (`left` ticks), has fired
and waits for the lock, reports, or is free; `timer` is the thread of `_timer`. `cancel`
stops a timer that waits, not one that has fired. `idle` is the time since the last
activity, up to `Timeout`, because the code only compares it with the timeout; this
keeps time unbounded and the state space finite. `at_ms` gives any activity in the
past. The clock does not go back. `arming` and `reports` are histories.

## Runs

| Run | Instance | What it shows |
|---|---|---|
| `agent_safety` | 2 messages, prompts of 1 or 2, batches of up to 2 calls, one fault | `TypeOK`, `IdleIsClean`, `NothingVanishes`, `RequestSeesTranscript`, `ToolCallsAnswered`, `PendingToolCallsTracked`, `AbortStops`, `AnsweredAtEnd` |
| `agent_queues` | 3 messages, no fault | `FifoAndOnce` |
| `agent_termination` | 2 messages, batches of 2, fair event loop | `RunTerminates` |
| `agent_continue` | 1 message, one fault | violated: `NoContinuationFromAssistant` |
| `agent_wait` | 1 message | violated: `WaitForIdleReturns` |
| `cron_lock` | 4 calls, 3 states on 2 stores (two states share one) | `StoreExclusive`, `Serialized` (refinement), `EveryCallSettles` |
| `cron_cancel` | 2 calls | violated: `OnlyCancelledCallsAreSkipped` |
| `sdk_client` | 2 callers, 3 raw events of 2 runs, replay buffers of 1 | `TypeOK`, `NoGap`, `TerminalDelivered`, `CloseDrains`, `ConnectReturns`, `ConsumersEnd`, `CloseCompletes` |
| `harness` | 2 calls in turn, 2 writes, 2 steering and 2 next-turn messages, 1 abort, 1 fault | `PhaseTells`, `WritesOnceInOrder`, `SteeringAccounted`, `NextTurnInOrder`, `AbortReachesLoop`, `IdleAfterTurnIsFlushed`, `IdleAgain`, `CallsEnd` |
| `harness_busy` | 3 overlapping calls | violated: `CompactionAlone` |
| `watchdog` | 4 threads, 3 armings, 1 touch, timeout 2, interval 1 | `TypeOK`, `ArmedIsWatched`, `StopLeavesNoTimer`, `ReportOnce`, `StallReported` |
| `store_writer` | 3 writes, 2 stores | `NoIdleQueue`, `WritesSerialized` (refinement), `EveryWriteRuns`, `EveryCallerAnswered` |

Bounds. Two messages make every pair (a prompt and a steer, a steer and a follow-up)
meet at every suspension; three are needed to see order and a partial drain ("all" and
"one-at-a-time" are chosen at each drain, because the mode can be set at any time). Two
tool calls make an abort fall between them. One fault is an exception or a cancellation
anywhere, and the runs that follow it. Four cron calls allow a chain of a cancelled call
between two others plus one of another store; three writes allow a drain that dies with
two writes behind it or with one of another store. With replay buffers of one, three
SDK events overflow each of them and let another run evict one. Two harness calls let
the second find what a failed first one left; two writes or messages show order; a
failure may meet an abort. Three armings allow two reports on their way while a third
one is watched, and four threads are enough for that. The bounds are guards of
`MaxMsgs`, `MaxBatch`, `MaxCalls`, `MaxToolTurns`, `MaxFaults`, `MaxOps`, `MaxEvents`,
`MaxWrites`, `MaxNext`, `MaxAborts`, `MaxArms` and `MaxTouches`.

Fairness. `AgentLoop`: weak fairness of the run's own steps - asyncio schedules a ready
task, listeners and hooks return and the provider answers; nothing is assumed of
callers, faults or partial stream events. `CronLocked`: weak fairness of each call's
tasks, every `fn` ends. `StoreWriterQueue`: the same for the drain tasks and each `fn`.
`SdkClient`: the pump, the close task and iterating callers run; `transport.close()`
ends. Nothing is assumed of the gateway: `ConnectReturns` therefore speaks of a client
whose pump has something to see. `AgentHarness`: what a call waits for returns or
raises; and the loop comes to `agent_end` although polls and saves interrupt it (strong
fairness of `AgentEnd`; the end of the loop is `RunTerminates` of `AgentLoop`).
`StallWatchdog`: time passes and timer threads run; nobody has to call anything.

Deadlock is not checked in the runs of `CronLocked`, `StoreWriterQueue`, `AgentWait`,
`SdkClient` and `AgentHarness`: a bounded workload comes to its end. `AgentLoop` has no
state without a step (`reset` is always possible).

## Disagreements between the code and what it says

* `waitForIdle` never returns when a run is active (`agent_wait`): `_finish_run`
  (`agent.py:433`) calls the async `_resolve` without awaiting it.
* `continue_` after a failed run continues behind an assistant message
  (`agent_continue`): the failure message is a dict and has no `role` attribute.
* In `locked()` one cancelled operation makes every later operation on its store end
  with `CancelledError` without running (`cron_cancel`): `except Exception` does not
  catch it. Mutual exclusion holds all the same: the operations that are released too
  early are the ones that never run. To catch `CancelledError` there without more would
  break exclusion (a fault of the model, `Swallow`, shows it).
* `compact()` says that it "requires idle harness" (`agent_harness.py:819`), and may run
  together with a turn (`harness_busy`): `agent_end` makes the harness idle before the
  call has returned; a turn that a listener or another task starts then loses its phase
  and its controller to the `finally` clauses of the first, so that neither `compact`,
  `navigate_tree` nor a third `prompt` is refused and `abort` does not reach it.

Also met while modelling, each a hazard in `PROJECT.json`: `connect()` waits for the
first event of the gateway, so that a first request to a silent gateway never returns; a
caller cancelled in that wait cancels the future of all, and every later request of the
client raises `CancelledError`; one event without `ts` fails the hub for all
subscribers; a `close()` cancelled before its task began leaves the transport open; one
cancelled while it waits for the pump returns normally to all its callers, and the raw
events still queued reach no subscriber;
writes put off during a compaction, a navigation or a failed start are overtaken by
later ones; next-turn messages are lost when `before_agent_start` raises.

Noticed outside the models: the default conversion for the provider drops dict messages
(`agent.py:34`); events without `seq` can share an id and are then dropped as doubles
(`normalize.py:168`); of two iterators that wait on one `EventStream` the first is never
woken (`event_hub.py:121`); `end()` of the LLM event stream without a result leaves
`result()` pending (`event_stream.py:50`); a leaf moved to None is not moved
(`storage_base.py:77`).

Met while modelling, and visible in the model without being a property: a follow-up
queued by a listener of `agent_end` stays queued until the next run; steering messages
drained just before an abort is noticed are dropped (`discarded` records them); an abort
seen after `turn_end` emits a second `turn_end`; a listener that raises at `agent_end`
causes a second `agent_end`; `errorMessage` is set only for failures reported as dicts.

## Proofs

The theorems hold for every value of the constants: any number of messages, calls,
turns and faults; any states, stores and calls.

`AgentLoopProofs` assumes only that the bounds are natural numbers (`Bounds`).

* `TypeInvariant`: `TypeOK` is not inductive: `Head(out)`, `Last(context)` and the
  replacement of the last message of the context need `out` and `context` to be
  non-empty where they are used. `RunShape` adds that, and `TypeOK /\ RunShape` is
  inductive, with one lemma per group of actions. Every other theorem uses it.
* `IdleCleanInvariant`: `IdleIsClean` is inductive on top of it, since every way to
  "idle" is `_finish_run`.
* `NothingVanishesInvariant`: lemmas say what `UserIds` and `Undelivered` do under
  append, concatenation, head and tail, and what a drain returns and leaves; each
  action then moves identities between the five places.
* `PendingToolCallsInvariant`: what is in `pendingToolCalls` depends on the events
  still to be emitted, so the inductive invariant `PendingShape` describes `out` in a
  batch and says that elsewhere `out` holds no start of a tool call (`NoCallStarts`).
* `AbortStopsProperty`: an action property, by cases on the action.
* `AnsweredAtEndInvariant`: the end of the transcript depends on the events still in
  `out`, so the inductive invariant `AnswerShape` says at which places these events settle
  it: what they store stands for an answer of the model, and if they store nothing the
  transcript ends with such a message already (`Settles`, `EmitSettles`).

`CronLockedProofs` assumes `Workload` (store paths of the states, a natural number of
calls). The inductive invariant says that a call awaits an earlier call of its store,
the latest one at the time (`Chain`, `LastOnStore`, `AwaitsLast`), and that a call which
has got past its waits has only ended calls before it on its store (`EarlierEnded`).
`PredecessorsEnded` is the core of it: a keep_alive that is *done*, not cancelled, means
that everything before it has ended. `CronExclusive` and the refinement `CronSerialized`
follow.

`StoreWriterProofs` assumes a natural number of writes. Its inductive invariant adds to
`NoIdleQueue` that calls are numbered in order (`Called`), that a queue is sorted and
holds only called writes of its store that are not under way (`QueueShape`), and that a
store has at most one `_do_drain` beginning or awaiting a `fn`, only while
`drainPromise` is set (`OneDrain`). `NoIdleQueueInvariant` is a part of it. In the
refinement `WritesSerializedRefinement`, the head of a sorted queue is the oldest write
of its store that has not ended, and with one drain there is one write to hand over
from.

`StallWatchdogProofs` assumes `Limits` (positive timeout and interval). `ArmedIsWatched`
and `StopLeavesNoTimer` follow from `OneTimer`, which is inductive: `_timer` is the only
thread with a check to come, save for one that had fired before `stop()`. That is what
lets `arm()` trust the timer it finds and `stop()` cancel only one. `ReportOnce` becomes
inductive with `Unreported`: nothing has been reported for the present arming while the
watchdog is armed, nor for armings to come.

`AgentLoopTranscriptProofs` continues `AgentLoopProofs` with the properties of what is
written into the transcript. A run writes late: an event is put into `out` at one
decision and its message is stored when it is emitted, and listeners queue, abort and
clear in between. All of them therefore speak of the transcript the run is *going to*
leave: `Owes(out, owed)` says that the events in `out` will store the messages `owed`,
and a lemma for each action (`Grows`) says which messages it adds to `messages \o owed`.

* `FifoAndOnceInvariant`: `FifoAndOnce` is not inductive, because it does not know that
  drained messages still in `out` come before those still queued. `OrderInv` orders all
  of `messages \o owed`, both queues and the identities to come.
* `ContextShapeInvariant`: what the loop's context holds at each place of a run, such as
  a response at its end while tools run. The other two need it.
* `RequestSeesTranscriptInvariant`: `SeenInv`: while a run lives, `messages \o owed` is
  the end of what its next request will show. At a request `out` is empty, and that is
  the property.
* `ToolCallsAnsweredInvariant`: `AnsweredInv` adds that the messages before the latest
  response are settled (each call of each response has its result, in its place, and a
  failed response has none), and
  that results follow the response without a gap, as far as they go, while its batch
  runs. Like the property it leaves out what follows a run whose task was cancelled or
  raised (`escaped`), which leaves calls without an answer.

`AgentHarnessProofs` assumes `Bounds` (natural numbers, `Serial` a truth value). What
holds however calls overlap comes from `HarnessInv`: `TypeInvariant`,
`SteeringAccountedInvariant` (`SteerInv`, each message in one place, also between the
hands of several polls) and `IdleAfterTurnIsFlushedHolds`. `TypeOK` of this module is
proved, and the run checks `PhaseTells` instead. `AbortReachesLoopInvariant`,
`PhaseTellsInvariant`, `NextTurnInOrderInvariant` and `WritesOnceInOrderInvariant` have
the hypothesis `Serial`: without it they are false, as `harness_busy` shows for the
controller; and with `Serial` FALSE TLC finds `WritesOnceInOrder` violated in two calls
and one write, by two flushes. With it, `SerialInv` says that one call is active at most
and holds the controller while its loop runs (`OneCall`); that the phase is that of the
active call (`PhaseInv`); that what has begun turns, what a turn holds and what is
queued are increasing one after another (`NextOrder`); that the entry a flush is
appending is still the first (`FirstWrite`); and that session and pending share out the
accepted writes (`WriteInv`).

`SdkClientProofs` assumes `Limits` (positive limits of the buffers). `SdkInv` has a part
for each property: `CloseInv` relates the close task, the pump and its queue, and says
that a pump that ended with events to take was cut short by a cancelled caller or failed
(`CloseDrainsInvariant`); `ReplayInv` says that a replay buffer is an end of the history
of its run and all of it while nothing was evicted, and `StreamInv` carries that over to
what a subscriber has taken and has to come (`NoGapInvariant`); `IdInv` gives raw events
growing identities, without which a live event could be dropped as a double of a
replayed one; `TerminalInv` follows the two flags of the suppression of doubles
(`TerminalDeliveredInvariant`).

Only model-checked: liveness (`RunTerminates`, `EveryCallSettles`, `EveryWriteRuns`,
`EveryCallerAnswered`, `ConnectReturns`, `ConsumersEnd`, `CloseCompletes`, `IdleAgain`,
`CallsEnd`, `StallReported`), which needs fairness and is out of the provers' reach; and
the properties of the runs that expect a violation, which the code refutes. Every other
property of a run has its theorem.

## Not modelled

The components with status `not_modelled` in `PROJECT.json`. The queues and streams
among them are in the plan. The session tree is left for later: `Session` calls methods
by names its storages do not have, and the file storage cannot read back an entry, so
there is no working composition to be faithful to; the harness takes the session as
external. The gateway client imports modules that do not exist. Gateway schemas, CLI,
extensions, catalogues and text handling are sequential conversions or I/O without a
state that steps could break. They are most of the repository's lines.

## Plan

1. Proofs: what overlapping harness calls may lose (a bound on the writes that two
   flushes double), and the properties of the modules below as they are written.
2. `FollowupQueue`: dedupe, cap, drop policies, pruning and concurrent drains.
3. More users of `SerialExecutor`: the ACP `SessionActorQueue` with its pending count,
   and `KeyedAsyncQueue`, which drops calls instead of queueing them.
4. The LLM `EventStream`, and the session tree once session and storages agree.
5. The flood guard and cooldowns: boundaries of their windows.
