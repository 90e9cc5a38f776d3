------------------------------ MODULE SdkClient ------------------------------
(***************************************************************************)
(* The SDK client `OpenClaw` with its event pump, the event hub that feeds *)
(* its subscribers and the per-run replay buffers.                         *)
(*                                                                         *)
(* The transport is external; its events come, as those of                 *)
(* GatewayClientTransport do, from an EventHub with a bounded replay       *)
(* buffer.  An action is what one asyncio task does between two            *)
(* suspensions, except that the pump and a caller that iterates take one   *)
(* event in an action: the code goes on with the next event, if there is   *)
(* one, without suspending, so that the model interleaves more.            *)
(***************************************************************************)
EXTENDS Naturals, Sequences, SequencesExt, FiniteSets

CONSTANTS
  Callers,          \* tasks that use the client
  Runs,             \* run ids
  Calls,            \* pairs of a caller and what it may call
  Traffic,          \* what the gateway sends: pairs of a run and a kind of event
  MaxEvents,        \* bound on the raw events of a behaviour
  RawLimit,         \* RAW_EVENT_REPLAY_LIMIT
  MaxReplayRuns,    \* MAX_REPLAY_RUNS
  MaxReplayEvents   \* MAX_REPLAY_EVENTS_PER_RUN

ASSUME Limits ==
  /\ {MaxEvents, RawLimit, MaxReplayRuns, MaxReplayEvents} \subseteq Nat \ {0}
  /\ "request" \notin Runs
  /\ Calls \subseteq Callers \X (Runs \cup {"request"})
  /\ Traffic \subseteq Runs \X {"final", "terminal", "noTs", "other"}

VARIABLES
  rawOpen,     \* the transport's hub is not closed
  rawReplay,   \* its _replay_events, until the pump subscribes
  rawQueue,    \* _queue of the pump's stream
  lastRaw,     \* the number of the last raw event
  closed,      \* OpenClaw._closed
  connected,   \* OpenClaw._connected
  ready,       \* the future _event_pump_ready: "none", "pending", "done", "cancelled"
  pump,        \* the task _pump
  closing,     \* the task _do_close
  hub,         \* _normalized_events: "open", "closed", "failed"
  published,   \* history: the events of each run that the hub has handed to its listeners
  replayRuns,  \* the keys of _replay_by_run_id in insertion order
  replayOf,    \* its values
  pc,          \* where a caller is suspended
  goal,        \* what it called: "request", or run_events of a run
  replay,      \* replay_events it has not yielded yet
  queue,       \* _queue of its live_source
  taken,       \* history: events it has taken from either
  yielded,     \* the types of event it was given
  terminal     \* has_terminal_run_event

transportVars == <<rawOpen, rawReplay, rawQueue, lastRaw>>
clientVars == <<closed, connected, ready, pump, closing>>
hubVars == <<hub, published>>
replayVars == <<replayRuns, replayOf>>
streamVars == <<replay, queue, taken, yielded, terminal>>
vars == <<transportVars, clientVars, hubVars, replayVars, pc, goal, streamVars>>

-----------------------------------------------------------------------------
(* Events *)

\* The end of a run, as a terminal event or as the final chat projection; an
\* event without a timestamp; any other event.
Kinds == {"final", "terminal", "noTs", "other"}

\* The gateway numbers its events (seq), so that their ids differ.
Events == [id : 0..MaxEvents, run : Runs, kind : Kinds]

\* Fault: the oldest events are kept.
KeepOldest(s, limit) == SubSeq(s, 1, IF Len(s) > limit THEN limit ELSE Len(s))

\* The last `limit` elements.
Keep(s, limit) == IF Len(s) > limit THEN SubSeq(s, Len(s) - limit + 1, Len(s)) ELSE s

HasTerminal(s) == \E i \in 1..Len(s) : s[i].kind = "terminal"

\* Fault: the flag suppresses terminal events too.
SuppressTerminal(e, hasTerminal) ==
  IF e.kind = "final" /\ ~hasTerminal THEN {"terminal"}
  ELSE IF e.kind \in {"final", "terminal"} /\ hasTerminal THEN {}
  ELSE {e.kind}

\* to_run_stream_event: what is given to the caller.  A final chat projection
\* becomes run.completed, unless the run has a terminal event already.
Project(e, hasTerminal) ==
  CASE e.kind = "final" /\ hasTerminal -> {}
    [] e.kind = "final" /\ ~hasTerminal -> {"terminal"}
    [] OTHER -> {e.kind}

Streaming(c) == pc[c] \in {"iterating", "waiting"}

Matches(c, e) == goal[c] = e.run

-----------------------------------------------------------------------------
(* The hub of normalized events *)

\* Fault: the sleeping streams are not woken.
HubCloseSilently(how) ==
  /\ hub' = IF "failed" \in {how, hub} THEN "failed" ELSE "closed"
  /\ UNCHANGED pc

\* EventHub.close: a later error is recorded, and every sleeping stream wakes up.
HubClose(how) ==
  /\ hub' = IF "failed" \in {how, hub} THEN "failed" ELSE "closed"
  /\ pc' = [c \in Callers |-> IF pc[c] = "waiting" THEN "iterating" ELSE pc[c]]

\* EventHub.publish with the listener of each EventStream.
HubPublish(e) ==
  IF hub = "open"
    THEN /\ published' = [published EXCEPT ![e.run] = Append(@, e)]
         /\ queue' = [c \in Callers |-> IF Streaming(c) /\ Matches(c, e)
                                          THEN Append(queue[c], e) ELSE queue[c]]
         /\ pc' = [c \in Callers |-> IF pc[c] = "waiting" /\ Matches(c, e)
                                       THEN "iterating" ELSE pc[c]]
    ELSE UNCHANGED <<published, queue, pc>>

\* Fault: one run too many is kept.
RecordOneMore(e) ==
  LET isNew == e.run \notin ToSet(replayRuns)
      full  == isNew /\ Len(replayRuns) > MaxReplayRuns
  IN /\ replayRuns' = IF isNew THEN Append(IF full THEN Tail(replayRuns) ELSE replayRuns, e.run)
                      ELSE replayRuns
     /\ replayOf' = [replayOf EXCEPT ![e.run] = Keep(Append(@, e), MaxReplayEvents)]

\* _record_replay_event: the oldest run makes room for a new one.
RecordReplay(e) ==
  LET isNew == e.run \notin ToSet(replayRuns)
      full  == isNew /\ Len(replayRuns) >= MaxReplayRuns
      kept  == IF full THEN Tail(replayRuns) ELSE replayRuns
  IN /\ replayRuns' = IF isNew THEN Append(kept, e.run) ELSE kept
     /\ replayOf' = [r \in Runs |->
          IF r = e.run THEN Keep(Append(replayOf[r], e), MaxReplayEvents)
          ELSE IF full /\ r = Head(replayRuns) THEN <<>>
          ELSE replayOf[r]]

-----------------------------------------------------------------------------
(* connect, request, run_events *)

\* What a caller does once connect() has returned: request() sends (its
\* outcome is the transport's); run_events takes the replay snapshot and
\* subscribes without suspending.
Connected(c, what) ==
  IF what = "request"
    THEN /\ pc' = [pc EXCEPT ![c] = "sent"]
         /\ UNCHANGED streamVars
    ELSE LET snapshot == replayOf[what]
         IN /\ pc' = [pc EXCEPT ![c] = "iterating"]
            /\ replay' = [replay EXCEPT ![c] = snapshot]
            /\ terminal' = [terminal EXCEPT ![c] = HasTerminal(snapshot)]
            /\ UNCHANGED <<queue, taken, yielded>>

\* Waiting for _event_pump_ready suspends only when the future is pending, and
\* raises for every caller from the time it was cancelled.
AwaitReady(c, what) ==
  IF ready = "done"
    THEN Connected(c, what)
    ELSE /\ pc' = [pc EXCEPT ![c] = IF ready = "cancelled" THEN "raised" ELSE "waitReady"]
         /\ UNCHANGED streamVars

Call(c, what) ==
  /\ pc[c] = "idle"
  /\ goal' = [goal EXCEPT ![c] = what]
  /\ IF closed \/ ~connected
       THEN /\ pc' = [pc EXCEPT ![c] = IF closed THEN "raised" ELSE "connecting"]
            /\ UNCHANGED streamVars
       ELSE AwaitReady(c, what)
  /\ UNCHANGED <<transportVars, clientVars, hubVars, replayVars>>

\* transport.connect() has returned; the first caller starts the pump.
TransportConnected(c) ==
  /\ pc[c] = "connecting"
  /\ IF closed
       THEN /\ pc' = [pc EXCEPT ![c] = "raised"]
            /\ UNCHANGED <<connected, ready, pump, streamVars>>
       ELSE /\ connected' = TRUE
            /\ ready' = IF ready = "none" THEN "pending" ELSE ready
            /\ pump' = IF ready = "none" THEN "scheduled" ELSE pump
            /\ AwaitReady(c, goal[c])
  /\ UNCHANGED <<transportVars, closed, closing, hubVars, replayVars, goal>>

TransportConnectFails(c) ==
  /\ pc[c] = "connecting"
  /\ pc' = [pc EXCEPT ![c] = "raised"]
  /\ UNCHANGED <<transportVars, clientVars, hubVars, replayVars, goal, streamVars>>

\* A caller that waits for _event_pump_ready is cancelled, and with it the future
\* that all callers share.
CancelWaiter(c) ==
  /\ pc[c] = "waitReady"
  /\ ready = "pending"
  /\ ready' = "cancelled"
  /\ pc' = [pc EXCEPT ![c] = "raised"]
  /\ UNCHANGED <<transportVars, closed, connected, pump, closing, hubVars, replayVars,
                 goal, streamVars>>

\* _event_pump_ready is done: the waiting caller goes on, or finds the client closed.
Resume(c) ==
  /\ pc[c] = "waitReady"
  /\ ready # "pending"
  /\ IF closed \/ ready = "cancelled"
       THEN /\ pc' = [pc EXCEPT ![c] = "raised"]
            /\ UNCHANGED streamVars
       ELSE Connected(c, goal[c])
  /\ UNCHANGED <<transportVars, clientVars, hubVars, replayVars, goal>>

-----------------------------------------------------------------------------
(* A caller that iterates over events *)

\* The next event of the replay, then of the live stream; one whose id has been
\* seen, or that the projection suppresses, is not given to the caller.
Take(c) ==
  LET fromReplay == replay[c] # <<>>
      e == IF fromReplay THEN Head(replay[c]) ELSE Head(queue[c])
      seen == e.id \in {t.id : t \in ToSet(taken[c])}
  IN /\ pc[c] = "iterating"
     /\ replay[c] \o queue[c] # <<>>
     /\ IF fromReplay
          THEN replay' = [replay EXCEPT ![c] = Tail(@)] /\ UNCHANGED queue
          ELSE queue' = [queue EXCEPT ![c] = Tail(@)] /\ UNCHANGED replay
     /\ taken' = [taken EXCEPT ![c] = Append(@, e)]
     /\ IF seen
          THEN UNCHANGED <<yielded, terminal>>
          ELSE /\ yielded' = [yielded EXCEPT ![c] = @ \cup Project(e, terminal[c])]
               /\ terminal' = [terminal EXCEPT ![c] = @ \/ e.kind \in {"final", "terminal"}]
     /\ UNCHANGED <<transportVars, clientVars, hubVars, replayVars, pc, goal>>

\* Nothing to give: sleep on a new wake future, or end when the hub is closed.
WaitOrEnd(c) ==
  /\ pc[c] = "iterating"
  /\ replay[c] = <<>> /\ queue[c] = <<>>
  /\ pc' = [pc EXCEPT ![c] = CASE hub = "open" -> "waiting"
                               [] hub = "closed" -> "ended"
                               [] hub = "failed" -> "raised"]
  /\ UNCHANGED <<transportVars, clientVars, hubVars, replayVars, goal, streamVars>>

\* The caller leaves its loop, or is cancelled while it sleeps; its stream is dropped.
Leave(c) ==
  /\ Streaming(c)
  /\ pc' = [pc EXCEPT ![c] = "left"]
  /\ replay' = [replay EXCEPT ![c] = <<>>]
  /\ queue' = [queue EXCEPT ![c] = <<>>]
  /\ taken' = [taken EXCEPT ![c] = <<>>]
  /\ yielded' = [yielded EXCEPT ![c] = {}]
  /\ terminal' = [terminal EXCEPT ![c] = FALSE]
  /\ UNCHANGED <<transportVars, clientVars, hubVars, replayVars, goal>>

-----------------------------------------------------------------------------
(* The transport and the pump *)

\* GatewayClientTransport._on_event_handler: one more raw event, while somebody
\* listens or will.
RawEvent(r, kind) ==
  LET e == [id |-> lastRaw + 1, run |-> r, kind |-> kind]
  IN /\ rawOpen
     /\ pump # "ended"
     /\ lastRaw < MaxEvents
     /\ lastRaw' = lastRaw + 1
     /\ IF pump = "running"
          THEN rawQueue' = Append(rawQueue, e) /\ UNCHANGED rawReplay
          ELSE rawReplay' = Keep(Append(rawReplay, e), RawLimit) /\ UNCHANGED rawQueue
     /\ UNCHANGED <<rawOpen, clientVars, hubVars, replayVars, pc, goal, streamVars>>

\* The transport's hub is closed by somebody else.
RawCloses ==
  /\ rawOpen
  /\ rawOpen' = FALSE
  /\ rawReplay' = <<>>
  /\ UNCHANGED <<rawQueue, lastRaw, clientVars, hubVars, replayVars, pc, goal, streamVars>>

\* _pump subscribes with replay.
PumpStart ==
  /\ pump = "scheduled"
  /\ pump' = "running"
  /\ rawQueue' = rawReplay
  /\ rawReplay' = <<>>
  /\ UNCHANGED <<rawOpen, lastRaw, closed, connected, ready, closing, hubVars,
                 replayVars, pc, goal, streamVars>>

\* _mark_ready.
MarkReady == ready' = IF ready = "pending" THEN "done" ELSE ready

\* One round of _pump: normalize_gateway_event raises for an event without a
\* timestamp, and that ends the pump and fails the hub.
PumpEvent ==
  LET e == Head(rawQueue)
  IN /\ pump = "running"
     /\ rawQueue # <<>>
     /\ rawQueue' = Tail(rawQueue)
     /\ MarkReady
     /\ IF e.kind = "noTs"
          THEN /\ pump' = "ended"
               /\ HubClose("failed")
               /\ UNCHANGED <<published, queue, replayVars>>
          ELSE /\ RecordReplay(e)
               /\ HubPublish(e)
               /\ UNCHANGED <<pump, hub>>
     /\ UNCHANGED <<rawOpen, rawReplay, lastRaw, closed, connected, closing, goal,
                    replay, taken, yielded, terminal>>

\* Fault: only an event marks the pump as ready.
PumpEndUnready ==
  /\ pump = "running"
  /\ rawQueue = <<>>
  /\ ~rawOpen
  /\ pump' = "ended"
  /\ HubClose("closed")
  /\ UNCHANGED <<transportVars, closed, connected, ready, closing, published,
                 replayVars, goal, streamVars>>

\* The raw stream is exhausted.
PumpEnd ==
  /\ pump = "running"
  /\ rawQueue = <<>>
  /\ ~rawOpen
  /\ pump' = "ended"
  /\ MarkReady
  /\ HubClose("closed")
  /\ UNCHANGED <<transportVars, closed, connected, closing, published, replayVars,
                 goal, streamVars>>

-----------------------------------------------------------------------------
(* close *)

Close ==
  /\ ~closed
  /\ closed' = TRUE
  /\ closing' = "scheduled"
  /\ UNCHANGED <<transportVars, connected, ready, pump, hubVars, replayVars, pc,
                 goal, streamVars>>

\* Fault: the transport's stream is left open.
CloseKeepsStream ==
  /\ closing = "scheduled"
  /\ closing' = "transport"
  /\ UNCHANGED <<transportVars, closed, connected, ready, pump, hubVars, replayVars,
                 pc, goal, streamVars>>

\* _do_close begins: the transport closes its hub before it suspends.  A pump was
\* scheduled before it, since connect() refuses a closed client, and so has begun.
CloseBegins ==
  /\ closing = "scheduled"
  /\ pump # "scheduled"
  /\ closing' = "transport"
  /\ rawOpen' = FALSE
  /\ rawReplay' = <<>>
  /\ UNCHANGED <<rawQueue, lastRaw, closed, connected, ready, pump, hubVars,
                 replayVars, pc, goal, streamVars>>

\* The finally clause of _do_close.
CloseFinally(how) ==
  /\ closing' = how
  /\ connected' = FALSE
  /\ HubClose("closed")
  /\ UNCHANGED <<transportVars, closed, ready, pump, published, replayVars, goal,
                 streamVars>>

\* Fault: the pump is not awaited.
CloseWithoutPump ==
  /\ closing = "transport"
  /\ CloseFinally("done")

\* transport.close() has returned; the pump, if there is one, is awaited.
CloseTransportReturns ==
  /\ closing = "transport"
  /\ IF pump \in {"none", "ended"}
       THEN CloseFinally("done")
       ELSE /\ closing' = "pump"
            /\ UNCHANGED <<transportVars, closed, connected, ready, pump, hubVars,
                           replayVars, pc, goal, streamVars>>

\* transport.close() raises, or the caller of close() is cancelled meanwhile.
CloseTransportRaises ==
  /\ closing = "transport"
  /\ CloseFinally("aborted")

\* The pump that _do_close awaits has ended: close() returns normally, also when the
\* cancellation of its caller is what ended the pump.
PumpJoined ==
  /\ closing \in {"pump", "cancelled"}
  /\ pump = "ended"
  /\ CloseFinally(IF closing = "pump" THEN "done" ELSE "swallowed")

\* The caller of close() is cancelled before _do_close has begun: its body never runs.
CancelScheduledClose ==
  /\ closing = "scheduled"
  /\ closing' = "lost"
  /\ UNCHANGED <<transportVars, closed, connected, ready, pump, hubVars, replayVars,
                 pc, goal, streamVars>>

\* ... or while it awaits the pump: the cancellation reaches the pump, whose stream
\* swallows it and ends with what is queued; the pump ends normally.  From a pump that
\* has ended it goes back to _do_close.
CancelPumpWait ==
  \/ /\ closing = "pump"
     /\ pump = "running"
     /\ closing' = "cancelled"
     /\ pump' = "ended"
     /\ MarkReady
     /\ HubClose("closed")
     /\ UNCHANGED <<transportVars, closed, connected, published, replayVars, goal,
                    streamVars>>
  \/ /\ closing \in {"pump", "cancelled"}
     /\ pump = "ended"
     /\ CloseFinally("aborted")

-----------------------------------------------------------------------------

Init ==
  /\ rawOpen = TRUE
  /\ rawReplay = <<>>
  /\ rawQueue = <<>>
  /\ lastRaw = 0
  /\ closed = FALSE
  /\ connected = FALSE
  /\ ready = "none"
  /\ pump = "none"
  /\ closing = "no"
  /\ hub = "open"
  /\ published = [r \in Runs |-> <<>>]
  /\ replayRuns = <<>>
  /\ replayOf = [r \in Runs |-> <<>>]
  /\ pc = [c \in Callers |-> "idle"]
  /\ goal = [c \in Callers |-> "request"]
  /\ replay = [c \in Callers |-> <<>>]
  /\ queue = [c \in Callers |-> <<>>]
  /\ taken = [c \in Callers |-> <<>>]
  /\ yielded = [c \in Callers |-> {}]
  /\ terminal = [c \in Callers |-> FALSE]

CallerNext(c) ==
  \/ \E what \in {p[2] : p \in {p \in Calls : p[1] = c}} : Call(c, what)
  \/ TransportConnected(c)
  \/ TransportConnectFails(c)
  \/ CancelWaiter(c)
  \/ Resume(c)
  \/ Take(c)
  \/ WaitOrEnd(c)
  \/ Leave(c)

PumpNext == PumpStart \/ PumpEvent \/ PumpEnd

CloseNext ==
  \/ CloseBegins
  \/ CloseTransportReturns
  \/ CloseTransportRaises
  \/ PumpJoined

Next ==
  \/ \E c \in Callers : CallerNext(c)
  \/ \E t \in Traffic : RawEvent(t[1], t[2])
  \/ RawCloses
  \/ PumpNext
  \/ Close
  \/ CloseNext
  \/ CancelScheduledClose
  \/ CancelPumpWait

\* The event loop runs ready tasks, transport.close() returns or raises, and a
\* caller that iterates goes on doing so until it leaves.
Fairness ==
  /\ WF_vars(PumpNext)
  /\ WF_vars(CloseNext)
  /\ \A c \in Callers : WF_vars(Resume(c) \/ Take(c) \/ WaitOrEnd(c))

Spec == Init /\ [][Next]_vars

FairSpec == Spec /\ Fairness

-----------------------------------------------------------------------------
(* Properties *)

TransportType ==
  /\ rawOpen \in BOOLEAN
  /\ rawReplay \in Seq(Events) /\ rawQueue \in Seq(Events)
  /\ lastRaw \in 0..MaxEvents

ClientType ==
  /\ closed \in BOOLEAN /\ connected \in BOOLEAN
  /\ ready \in {"none", "pending", "done", "cancelled"}
  /\ pump \in {"none", "scheduled", "running", "ended"}
  /\ closing \in {"no", "scheduled", "transport", "pump", "cancelled", "done",
                  "swallowed", "aborted", "lost"}
  /\ hub \in {"open", "closed", "failed"}

ReplayType ==
  /\ published \in [Runs -> Seq(Events)]
  /\ replayRuns \in Seq(Runs) /\ Len(replayRuns) <= MaxReplayRuns
  /\ replayOf \in [Runs -> Seq(Events)]
  /\ \A r \in Runs : Len(replayOf[r]) <= MaxReplayEvents

CallerType ==
  /\ pc \in [Callers -> {"idle", "connecting", "waitReady", "sent", "iterating",
                         "waiting", "ended", "raised", "left"}]
  /\ goal \in [Callers -> Runs \cup {"request"}]
  /\ replay \in [Callers -> Seq(Events)] /\ queue \in [Callers -> Seq(Events)]
  /\ taken \in [Callers -> Seq(Events)]
  /\ yielded \in [Callers -> SUBSET Kinds]
  /\ terminal \in [Callers -> BOOLEAN]

\* The types of the variables, with the limits of the replay buffers.
TypeOK == TransportType /\ ClientType /\ ReplayType /\ CallerType

\* The runs that have had an event.
Known == {r \in Runs : published[r] # <<>>}

\* No replay of the run has been cut or evicted so far.
Unbounded(r) ==
  /\ Len(published[r]) <= MaxReplayEvents
  /\ Cardinality(Known) <= MaxReplayRuns

\* Between its replay snapshot and its live subscription a run_events() caller
\* misses nothing and gets nothing twice: what it has taken and still has to take
\* is, in order, a suffix of the events of its run, and all of them while no
\* replay limit has been hit (_iterate_run_events, _record_replay_event).
NoGap ==
  \A c \in Callers : Streaming(c) =>
    LET got == taken[c] \o replay[c] \o queue[c]
    IN /\ IsSuffix(got, published[goal[c]])
       /\ Unbounded(goal[c]) => got = published[goal[c]]

\* A caller whose stream ended and that took the end of the run, as a terminal
\* event or as a final chat projection, was given a terminal event: the
\* suppression of doubles never suppresses both (to_run_stream_event).
TerminalDelivered ==
  \A c \in Callers :
    (/\ pc[c] = "ended"
     /\ \E e \in ToSet(taken[c]) : e.kind \in {"final", "terminal"})
    => "terminal" \in yielded[c]

\* A close() that returns normally leaves no pump behind, and every raw event the pump
\* had received has reached the subscribers' hub, unless the pump failed: _do_close
\* closes the hub only after the pump.  The second part is not so when one of the
\* callers that wait for close() was cancelled while the pump had events to take: the
\* pump's stream swallows the CancelledError, close() returns normally to all of
\* them ("swallowed"), and those events are lost.
CloseDrains ==
  /\ closing \in {"done", "swallowed"} => pump \in {"none", "ended"}
  /\ closing = "done" => rawQueue = <<>> \/ hub = "failed"

\* connect() returns or raises once the pump has seen an event or the end of its
\* stream (and, as the model shows, not before: _event_pump_ready is set by them
\* only, or cancelled with one of the callers that wait for it).
ConnectReturns ==
  \A c \in Callers :
    (pc[c] = "waitReady" /\ (rawReplay # <<>> \/ rawQueue # <<>> \/ ~rawOpen))
      ~> pc[c] # "waitReady"

\* Once the hub is closed, whoever closed it, every iterating caller comes to the
\* end of its stream: no wake-up is lost (EventHub.close, EventStream).
ConsumersEnd ==
  \A c \in Callers : (hub # "open" /\ Streaming(c)) ~> ~Streaming(c)

\* A close() that has begun ends: it waits for the pump, which waits for the end
\* of the raw stream, which close() itself has brought about.
CloseCompletes ==
  closing = "transport" ~> closing \in {"done", "swallowed", "aborted"}

=============================================================================
