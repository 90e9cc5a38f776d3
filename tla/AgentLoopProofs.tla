--------------------------- MODULE AgentLoopProofs ---------------------------
(***************************************************************************)
(* Theorems about AgentLoop for every value of its bounds: its type        *)
(* invariant, the clean idle state, that no message vanishes, which calls  *)
(* are pending, what an abort stops, and that no run leaves a message      *)
(* unanswered.                                                             *)
(***************************************************************************)
EXTENDS AgentLoop, TLAPS

-----------------------------------------------------------------------------
(* Messages and events.                                                    *)

\* The messages and events the loop builds are messages and events.
LEMMA MessagesTyped ==
  /\ \A kind \in Kinds, n \in Nat : User(kind, n) \in Message
  /\ \A kind \in Kinds, c \in Nat : Assistant(kind, c) \in Message
  /\ \A i \in Nat : ToolResult(i) \in Message
  /\ Partial \in Message
  BY DEF User, Assistant, ToolResult, Partial, Message, Kinds

\* The events built from them are events.
LEMMA EventsTyped ==
  /\ \A type \in EventTypes : Bare(type) \in Event
  /\ \A type \in EventTypes, m \in Message : About(type, m) \in Event
  BY MessagesTyped DEF Bare, About, Event

\* Announcing messages (message_start for each) gives one event per message.
LEMMA SayTyped ==
  ASSUME NEW ms \in Seq(Message)
  PROVE  /\ Say(ms) \in Seq(Event)
         /\ Len(Say(ms)) = Len(ms)
         /\ \A i \in 1..Len(ms) : Say(ms)[i] = About("message_start", ms[i])
  <1>1. \A i \in DOMAIN ms : About("message_start", ms[i]) \in Event
    BY EventsTyped DEF EventTypes
  <1> QED
    BY <1>1 DEF Say

\* A drain splits the queue.
LEMMA DrainTyped ==
  ASSUME NEW q \in Seq(Message), NEW m
  PROVE  Drained(q, m) \in Seq(Message) /\ Remaining(q, m) \in Seq(Message)
  BY DEF Drained, Remaining

\* Membership in the two sets of identities, without the set constructors.
LEMMA UserIdsMember ==
  ASSUME NEW s, NEW n
  PROVE  n \in UserIds(s) <=> \E i \in DOMAIN s : s[i].kind \in UserKinds /\ s[i].id = n
  BY DEF UserIds

\* The same for the messages that wait in the events still to emit.
LEMMA UndeliveredMember ==
  ASSUME NEW evs, NEW n
  PROVE  n \in Undelivered(evs) <=>
           \E i \in DOMAIN evs : /\ evs[i].type \in {"message_start", "message_end"}
                                 /\ evs[i].msg.kind \in UserKinds
                                 /\ evs[i].msg.id = n
  BY DEF Undelivered

\* Identities of messages are numbers.
LEMMA UserIdsTyped ==
  ASSUME NEW s \in Seq(Message)
  PROVE  UserIds(s) \in SUBSET Nat
  <1> SUFFICES ASSUME NEW n \in UserIds(s)
               PROVE  n \in Nat
    OBVIOUS
  <1>1. PICK i \in DOMAIN s : s[i].id = n
    BY UserIdsMember
  <1>2. s[i] \in Message
    OBVIOUS
  <1> QED
    BY <1>1, <1>2 DEF Message

\* So are those of the messages still to be delivered.
LEMMA UndeliveredTyped ==
  ASSUME NEW evs \in Seq(Event)
  PROVE  Undelivered(evs) \in SUBSET Nat
  <1> SUFFICES ASSUME NEW n \in Undelivered(evs)
               PROVE  n \in Nat
    OBVIOUS
  <1>1. PICK i \in DOMAIN evs : evs[i].msg.id = n
    BY UndeliveredMember
  <1>2. evs[i] \in Event
    OBVIOUS
  <1> QED
    BY <1>1, <1>2 DEF Event, Message

-----------------------------------------------------------------------------
(* Emitting.                                                               *)

\* What is left to emit after one event is a sequence of events.
LEMMA AfterHeadTyped ==
  ASSUME NEW evs \in Seq(Event), evs # <<>>
  PROVE  AfterHead(evs) \in Seq(Event)
  <1>1. Head(evs) \in Event /\ Tail(evs) \in Seq(Event)
    OBVIOUS
  <1>2. About("message_end", Head(evs).msg) \in Event
    BY <1>1, EventsTyped DEF Event, EventTypes
  <1> QED
    BY <1>1, <1>2 DEF AfterHead

\* _process_events keeps the type of the state it reduces into.
LEMMA ProcessTyped ==
  ASSUME AgentStateType, NEW e \in Event, _process_events(e)
  PROVE  AgentStateType'
  <1>1. e.msg \in Message /\ e.msg.id \in Nat
    BY DEF Event, Message
  <1>2. messages' \in Seq(Message)
    BY <1>1 DEF _process_events, AgentStateType
  <1>3. streamingMessage' \in Message \cup {NoMessage}
    BY <1>1 DEF _process_events, AgentStateType
  <1>4. pendingToolCalls' \in SUBSET Nat
    BY <1>1 DEF _process_events, AgentStateType
  <1>5. isStreaming' \in BOOLEAN /\ errorMessage' \in BOOLEAN
    BY DEF _process_events, AgentStateType
  <1> QED
    BY <1>2, <1>3, <1>4, <1>5 DEF AgentStateType

\* Emitting a non-empty sequence of events keeps all types.
LEMMA EmitTyped ==
  ASSUME AgentStateType, NEW evs \in Seq(Event), evs # <<>>, NEW next, Emit(evs, next)
  PROVE  AgentStateType' /\ out' \in Seq(Event) /\ pc' = next
  <1>1. Head(evs) \in Event
    OBVIOUS
  <1> QED
    BY <1>1, ProcessTyped, AfterHeadTyped DEF Emit

-----------------------------------------------------------------------------
(* The pieces the actions share.  Each sets the agent's state, where the   *)
(* run is, its locals and the dropped messages; Moved says they are typed. *)

Moved == AgentStateType' /\ pc' \in Places /\ out' \in Seq(Event) /\ LocalType' /\ discarded' \in SUBSET Nat

\* The events that report an abort or a failure.
LEMMA ReportTyped ==
  ASSUME NEW kind \in Kinds
  PROVE  LET m == Assistant(kind, 0)
             evs == Say(<<m>>) \o <<About("turn_end", m), Bare("agent_end")>>
         IN  evs \in Seq(Event) /\ evs # <<>>
  <1> DEFINE m == Assistant(kind, 0)
  <1>1. m \in Message
    BY MessagesTyped
  <1>2. Say(<<m>>) \in Seq(Event) /\ Len(Say(<<m>>)) = 1
    <2>1. <<m>> \in Seq(Message) /\ Len(<<m>>) = 1
      BY <1>1
    <2> HIDE DEF m
    <2> QED
      BY <2>1, SayTyped
  <1>3. <<About("turn_end", m), Bare("agent_end")>> \in Seq(Event)
    BY <1>1, EventsTyped DEF EventTypes
  <1> QED
    BY <1>2, <1>3

\* _stop_if_aborted keeps the types.
LEMMA StopTyped ==
  ASSUME TypeOK, NEW lost \in Seq(Message), _stop_if_aborted(lost)
  PROVE  Moved
  <1>1. AgentStateType' /\ out' \in Seq(Event) /\ pc' = "ending"
    BY ReportTyped, EmitTyped DEF _stop_if_aborted, TypeOK, Kinds
  <1>2. discarded' \in SUBSET Nat
    BY UserIdsTyped DEF _stop_if_aborted, TypeOK, HistoryType
  <1> QED
    BY <1>1, <1>2 DEF Moved, _stop_if_aborted, TypeOK, LocalType, locals, Places

\* Opening a turn keeps the types when there is something to emit.
LEMMA OpenTurnTyped ==
  ASSUME TypeOK, NEW events \in Seq(Event), NEW pending \in Seq(Message),
         events # <<>> \/ pending # <<>>, OpenTurn(events, pending)
  PROVE  Moved
  <1>1. Say(pending) \in Seq(Event) /\ Len(Say(pending)) = Len(pending)
    BY SayTyped
  <1>2. events \o Say(pending) \in Seq(Event) /\ events \o Say(pending) # <<>>
    BY <1>1
  <1>3. AgentStateType' /\ out' \in Seq(Event) /\ pc' = "turn"
    BY <1>2, EmitTyped DEF OpenTurn, TypeOK
  <1> QED
    BY <1>3 DEF Moved, OpenTurn, TypeOK, LocalType, HistoryType, Places

\* Entering _stream_assistant_response keeps the types.
LEMMA CallModelTyped ==
  ASSUME TypeOK, CallModel
  PROVE  Moved
  BY DEF Moved, CallModel, TypeOK, AgentStateType, RunType, LocalType, HistoryType, agentState, locals, Places

\* _finish_run keeps the types.
LEMMA FinishTyped ==
  ASSUME TypeOK, _finish_run
  PROVE  AgentStateType' /\ RunType' /\ LocalType'
  <1>1. AgentStateType'
    BY DEF _finish_run, TypeOK, AgentStateType
  <1>2. RunType'
    <2>1. out' \in Seq(Event) /\ pc' = "idle" /\ aborted' = FALSE
      BY DEF _finish_run
    <2> QED
      BY <2>1 DEF RunType, Places
  <1>3. LocalType'
    <2>1. context' \in Seq(Message) /\ added' = FALSE /\ skip' = FALSE /\ mode' = "none" /\ answered' = 0
      BY DEF _finish_run
    <2> QED
      BY <2>1 DEF LocalType
  <1> QED
    BY <1>1, <1>2, <1>3

\* Starting a run keeps the types.
LEMMA StartTyped ==
  ASSUME TypeOK, NEW prompts \in Seq(Message), NEW b \in BOOLEAN, _run_with_lifecycle(prompts, b)
  PROVE  AgentStateType' /\ RunType' /\ LocalType'
  <1>1. out' \in Seq(Event)
    BY SayTyped, EventsTyped DEF _run_with_lifecycle, EventTypes
  <1>2. AgentStateType'
    BY DEF _run_with_lifecycle, TypeOK, AgentStateType
  <1>3. RunType'
    BY <1>1 DEF _run_with_lifecycle, RunType, Places
  <1>4. LocalType'
    BY DEF _run_with_lifecycle, TypeOK, LocalType, AgentStateType
  <1> QED
    BY <1>2, <1>3, <1>4

\* The polls between two turns keep the types.
LEMMA PollTyped ==
  ASSUME TypeOK, PollQueues
  PROVE  Moved /\ QueueType'
  <1>1. PICK m \in QueueModes, n \in QueueModes : PollQueues!(m, n)
    BY DEF PollQueues
  <1> DEFINE pending == Drained(steering, m)
             after == _followup(n)
  <1>2. /\ pending \in Seq(Message) /\ after \in Seq(Message)
        /\ Remaining(steering, m) \in Seq(Message) /\ Remaining(followUps, n) \in Seq(Message)
    BY DrainTyped DEF _followup, TypeOK, QueueType
  <1>3. QueueType'
    BY <1>1, <1>2 DEF QueueType, TypeOK
  <1>4. <<Bare("turn_start")>> \in Seq(Event) /\ <<Bare("agent_end")>> \in Seq(Event)
    BY EventsTyped DEF EventTypes
  <1>5. CASE _stop_if_aborted(pending)
    BY <1>2, <1>3, <1>5, StopTyped
  <1>6. CASE OpenTurn(<<Bare("turn_start")>>, pending)
    BY <1>2, <1>3, <1>4, <1>6, OpenTurnTyped
  <1>7. CASE OpenTurn(<<Bare("turn_start")>>, after)
    BY <1>2, <1>3, <1>4, <1>7, OpenTurnTyped
  <1>8. CASE Emit(<<Bare("agent_end")>>, "ending") /\ UNCHANGED <<locals, discarded>>
    <2>1. AgentStateType' /\ out' \in Seq(Event) /\ pc' = "ending"
      BY <1>4, <1>8, EmitTyped DEF TypeOK
    <2> QED
      BY <1>3, <1>8, <2>1 DEF Moved, TypeOK, LocalType, HistoryType, locals, Places
  <1> QED
    BY <1>1, <1>5, <1>6, <1>7, <1>8

-----------------------------------------------------------------------------
(* The type invariant.                                                     *)

\* A new Agent is well typed.
LEMMA InitTyped == Init => TypeOK
  <1> SUFFICES ASSUME Init
               PROVE  TypeOK
    OBVIOUS
  <1>1. AgentStateType
    <2>1. messages \in Seq(Message) /\ pendingToolCalls \in SUBSET Nat
      BY DEF Init
    <2>2. isStreaming \in BOOLEAN /\ errorMessage \in BOOLEAN /\ streamingMessage = NoMessage
      BY DEF Init
    <2> QED
      BY <2>1, <2>2 DEF AgentStateType
  <1>2. QueueType /\ out \in Seq(Event) /\ context \in Seq(Message)
    BY DEF Init, QueueType
  <1>3. pc \in Places /\ aborted \in BOOLEAN
    BY DEF Init, Places
  <1>4. LocalType
    BY <1>2 DEF Init, LocalType
  <1>5. HistoryType
    BY DEF Init, HistoryType
  <1> QED
    BY <1>1, <1>2, <1>3, <1>4, <1>5 DEF TypeOK, RunType

\* The last message of the context, where the loop looks at it, is a message with calls.
LEMMA LastTyped ==
  ASSUME TypeOK, context # <<>>
  PROVE  Last(context) \in Message /\ Calls \in Nat
  <1>1. context \in Seq(Message) /\ Len(context) \in 1..Len(context)
    BY DEF TypeOK, LocalType
  <1>2. context[Len(context)] \in Message
    BY <1>1
  <1> QED
    BY <1>2 DEF Last, Calls, Message

\* The result messages of a batch.
LEMMA ResultsTyped ==
  ASSUME NEW k \in Nat
  PROVE  Results(k) \in Seq(Message) /\ Len(Results(k)) = k
  <1>1. \A i \in 1..k : ToolResult(i) \in Message
    BY MessagesTyped
  <1> QED
    BY <1>1 DEF Results

\* The events of one tool call.
LEMMA CallEventsTyped ==
  ASSUME NEW i \in Nat, NEW m
  PROVE  CallEvents(i, m) \in Seq(Event) /\ CallEvents(i, m) # <<>>
  <1> DEFINE r == ToolResult(i)
             head == <<About("tool_execution_start", r), About("tool_execution_end", r)>>
             tail == IF m = "sequential" THEN Say(<<r>>) ELSE <<>>
  <1>1. r \in Message
    BY MessagesTyped
  <1>2. head \in Seq(Event) /\ Len(head) = 2
    BY <1>1, EventsTyped DEF EventTypes
  <1>3. tail \in Seq(Event)
    <2>1. <<r>> \in Seq(Message)
      BY <1>1
    <2>2. Say(<<r>>) \in Seq(Event)
      <3> HIDE DEF r
      <3> QED
        BY <2>1, SayTyped
    <2>3. <<>> \in Seq(Event)
      OBVIOUS
    <2> QED
      BY <2>2, <2>3
  <1>4. CallEvents(i, m) = head \o tail
    BY DEF CallEvents
  <1> HIDE DEF head, tail
  <1> QED
    BY <1>2, <1>3, <1>4

\* Every step keeps the types; RunShape excludes the reads outside a sequence.
LEMMA NextTyped == TypeOK /\ RunShape /\ [Next]_vars => TypeOK'
  <1> SUFFICES ASSUME TypeOK, RunShape, [Next]_vars
               PROVE  TypeOK'
    OBVIOUS
  <1>types. AgentStateType /\ QueueType /\ RunType /\ LocalType /\ HistoryType
    BY DEF TypeOK
  <1>moved. ASSUME Moved, QueueType', aborted' \in BOOLEAN, nextId' \in Nat, toolTurns' \in Nat,
                   faults' \in Nat, escaped' \in BOOLEAN
            PROVE  TypeOK'
    BY <1>moved DEF Moved, TypeOK, RunType, HistoryType
  <1>1. CASE EmitNext
    <2>1. AgentStateType' /\ out' \in Seq(Event) /\ pc' = pc
      BY <1>1, <1>types, EmitTyped DEF EmitNext, RunType
    <2> QED
      BY <1>1, <1>types, <2>1 DEF EmitNext, TypeOK, QueueType, RunType, LocalType, HistoryType, queues, locals, history
  <1>2. CASE BeginLoop
    <2>1. PICK m \in QueueModes :
            LET pending == IF skip THEN <<>> ELSE Drained(steering, m)
            IN  /\ steering' = IF skip THEN steering ELSE Remaining(steering, m)
                /\ \/ _stop_if_aborted(pending)
                   \/ pending # <<>> /\ OpenTurn(<<>>, pending)
                   \/ pending = <<>> /\ CallModel
      BY <1>2 DEF BeginLoop
    <2> DEFINE pending == IF skip THEN <<>> ELSE Drained(steering, m)
    <2>2. pending \in Seq(Message) /\ steering' \in Seq(Message)
      BY <1>types, <2>1, DrainTyped DEF QueueType
    <2>3. Moved
      <3> HIDE DEF pending
      <3>1. \/ _stop_if_aborted(pending)
            \/ pending # <<>> /\ OpenTurn(<<>>, pending)
            \/ CallModel
        BY <2>1 DEF pending
      <3>2. <<>> \in Seq(Event)
        OBVIOUS
      <3> QED
        BY <2>2, <3>1, <3>2, StopTyped, OpenTurnTyped, CallModelTyped
    <2> QED
      BY <1>2, <1>types, <1>moved, <2>2, <2>3 DEF BeginLoop, QueueType, RunType, HistoryType
  <1>3. CASE StartRequest
    <2>1. Moved
      <3>1. <<>> \in Seq(Message)
        OBVIOUS
      <3> QED
        BY <1>3, <3>1, StopTyped, CallModelTyped DEF StartRequest
    <2> QED
      BY <1>3, <1>types, <1>moved, <2>1 DEF StartRequest, QueueType, RunType, HistoryType, queues
  <1>4. CASE StreamStart
    <2>1. AgentStateType'
      BY <1>4, <1>types, ProcessTyped, EventsTyped, MessagesTyped DEF StreamStart, EventTypes
    <2>2. LocalType'
      BY <1>4, <1>types, MessagesTyped DEF StreamStart, LocalType
    <2> QED
      BY <1>4, <1>types, <2>1, <2>2 DEF StreamStart, TypeOK, QueueType, RunType, HistoryType, queues, history
  <1>5. CASE StreamUpdate
    BY <1>5, <1>types, MessagesTyped
       DEF StreamUpdate, TypeOK, AgentStateType, QueueType, RunType, LocalType, HistoryType, queues, locals, history
  <1>6. CASE StreamDone
    <2>1. PICK kind \in {"assistant", "error"}, c \in 0..MaxCalls :
            /\ toolTurns' = IF c > 0 THEN toolTurns + 1 ELSE toolTurns
            /\ context' = FinalContext(Assistant(kind, c))
            /\ Emit(IF added THEN <<About("message_end", Assistant(kind, c))>>
                    ELSE Say(<<Assistant(kind, c)>>), "answer")
      BY <1>6 DEF StreamDone
    <2> DEFINE m == Assistant(kind, c)
    <2>2. m \in Message
      BY <2>1, Bounds, MessagesTyped DEF Kinds
    <2>8. /\ context' = FinalContext(m)
          /\ Emit(IF added THEN <<About("message_end", m)>> ELSE Say(<<m>>), "answer")
      BY <2>1
    <2> HIDE DEF m
    <2>3. <<m>> \in Seq(Message) /\ Len(<<m>>) = 1
      BY <2>2
    <2>4. /\ (IF added THEN <<About("message_end", m)>> ELSE Say(<<m>>)) \in Seq(Event)
          /\ (IF added THEN <<About("message_end", m)>> ELSE Say(<<m>>)) # <<>>
      <3>1. Say(<<m>>) \in Seq(Event) /\ Len(Say(<<m>>)) = 1
        BY <2>3, SayTyped
      <3>3. Say(<<m>>) # <<>>
        BY <3>1
      <3>2. <<About("message_end", m)>> \in Seq(Event) /\ <<About("message_end", m)>> # <<>>
        BY <2>2, EventsTyped DEF EventTypes
      <3> QED
        BY <3>1, <3>2, <3>3
    <2>5. AgentStateType' /\ out' \in Seq(Event) /\ pc' = "answer"
      BY <1>types, <2>8, <2>4, EmitTyped
    <2>6. context' \in Seq(Message)
      <3>1. Append(context, m) \in Seq(Message)
        BY <1>types, <2>2 DEF LocalType
      <3>2. [context EXCEPT ![Len(context)] = m] \in Seq(Message)
        <4>1. context \in [1..Len(context) -> Message] /\ Len(context) \in Nat
          BY <1>types DEF LocalType
        <4>2. [context EXCEPT ![Len(context)] = m] \in [1..Len(context) -> Message]
          BY <2>2, <4>1
        <4> QED
          BY <4>1, <4>2
      <3> QED
        BY <2>8, <3>1, <3>2 DEF FinalContext
    <2>7. toolTurns' \in Nat
      BY <1>types, <2>1 DEF HistoryType
    <2> QED
      BY <1>6, <1>types, <2>5, <2>6, <2>7
         DEF StreamDone, TypeOK, QueueType, RunType, LocalType, HistoryType, queues, Places
  <1>last. ASSUME context # <<>>
           PROVE  Last(context) \in Message /\ Calls \in Nat
    BY <1>last, LastTyped
  <1>7. CASE Answer
    <2>1. Last(context) \in Message /\ Calls \in Nat
      BY <1>7, <1>last DEF Answer, Resumes, RunShape
    <2>2. /\ <<About("turn_end", Last(context))>> \in Seq(Event)
          /\ <<About("turn_end", Last(context)), Bare("agent_end")>> \in Seq(Event)
      BY <2>1, EventsTyped DEF EventTypes
    <2>3. AgentStateType' /\ out' \in Seq(Event) /\ pc' \in {"ending", "turnEnd", "tools"}
      <3>1. CASE Emit(<<About("turn_end", Last(context)), Bare("agent_end")>>, "ending")
        BY <1>types, <2>2, <3>1, EmitTyped
      <3>2. CASE Emit(<<About("turn_end", Last(context))>>, "turnEnd")
        BY <1>types, <2>2, <3>2, EmitTyped
      <3>3. CASE \E m \in {"sequential", "parallel"} : Emit(CallEvents(1, m), "tools")
        BY <1>types, <3>3, EmitTyped, CallEventsTyped
      <3> QED
        BY <1>7, <3>1, <3>2, <3>3 DEF Answer
    <2>4. LocalType'
      BY <1>7, <1>types DEF Answer, LocalType, locals
    <2> QED
      BY <1>7, <1>types, <2>3, <2>4
         DEF Answer, TypeOK, QueueType, RunType, HistoryType, queues, history, Places
  <1>8. CASE NextCall
    <2>1. AgentStateType' /\ out' \in Seq(Event) /\ pc' = "tools"
      <3>1. answered + 1 \in Nat
        BY <1>types DEF LocalType
      <3> QED
        BY <1>8, <1>types, <3>1, EmitTyped, CallEventsTyped DEF NextCall
    <2> QED
      BY <1>8, <1>types, <2>1
         DEF NextCall, TypeOK, QueueType, RunType, LocalType, HistoryType, queues, history, Places
  <1>9. CASE CollectResults
    <2> DEFINE evs == Say(Results(answered))
    <2>1. Results(answered) \in Seq(Message) /\ Len(Results(answered)) = answered
      BY <1>types, ResultsTyped DEF LocalType
    <2>2. evs \in Seq(Event) /\ Len(evs) = answered
      BY <2>1, SayTyped
    <2>3. answered > 0
      BY <1>9 DEF CollectResults, Resumes, RunShape
    <2>4. Emit(evs, "results")
      BY <1>9 DEF CollectResults
    <2>5. AgentStateType' /\ out' \in Seq(Event) /\ pc' = "results"
      <3> HIDE DEF evs
      <3>1. evs # <<>>
        BY <1>types, <2>2, <2>3
      <3> QED
        BY <1>types, <2>2, <2>4, <3>1, EmitTyped
    <2> QED
      BY <1>9, <1>types, <2>5
         DEF CollectResults, TypeOK, QueueType, RunType, LocalType, HistoryType, queues, locals, history, Places
  <1>10. CASE EndBatch
    <2>1. Last(context) \in Message
      BY <1>10, <1>last DEF EndBatch, Resumes, RunShape
    <2>2. <<About("turn_end", Last(context))>> \in Seq(Event)
      BY <2>1, EventsTyped DEF EventTypes
    <2>3. AgentStateType' /\ out' \in Seq(Event) /\ pc' = "turnEnd"
      BY <1>10, <1>types, <2>2, EmitTyped DEF EndBatch
    <2>4. context' \in Seq(Message)
      BY <1>10, <1>types, ResultsTyped DEF EndBatch, LocalType
    <2> QED
      BY <1>10, <1>types, <2>3, <2>4
         DEF EndBatch, TypeOK, QueueType, RunType, LocalType, HistoryType, queues, history, Places
  <1>11. CASE EndTurn
    <2>1. Moved /\ QueueType'
      <3>1. <<>> \in Seq(Message)
        OBVIOUS
      <3>2. CASE _stop_if_aborted(<<>>) /\ UNCHANGED queues
        BY <1>types, <3>1, <3>2, StopTyped DEF QueueType, queues
      <3> QED
        BY <1>11, <3>2, PollTyped DEF EndTurn
    <2> QED
      BY <1>11, <1>types, <1>moved, <2>1 DEF EndTurn, RunType, HistoryType
  <1>12. CASE CallPrepareNextTurn
    BY <1>12, <1>types
       DEF CallPrepareNextTurn, TypeOK, AgentStateType, QueueType, RunType, LocalType, HistoryType,
           agentState, queues, locals, history, Places
  <1>26. CASE SendRequest
    BY <1>26, <1>types
       DEF SendRequest, TypeOK, AgentStateType, QueueType, RunType, LocalType, HistoryType,
           agentState, queues, locals, history, Places
  <1>13. CASE PrepareNextTurnReturns
    BY <1>13, <1>types, <1>moved, PollTyped DEF PrepareNextTurnReturns, RunType, HistoryType
  <1>14. CASE Finish
    BY <1>14, <1>types, FinishTyped DEF Finish, TypeOK, QueueType, HistoryType, queues, history
  <1>15. CASE RunRaises
    <2>1. AgentStateType' /\ out' \in Seq(Event) /\ pc' = "failing"
      BY <1>15, <1>types, ReportTyped, EmitTyped DEF RunRaises, Kinds
    <2>2. discarded' \in SUBSET Nat
      BY <1>15, <1>types, UndeliveredTyped DEF RunRaises, RunType, HistoryType
    <2> QED
      BY <1>15, <1>types, <2>1, <2>2
         DEF RunRaises, TypeOK, QueueType, RunType, LocalType, HistoryType, queues, locals, Places
  <1>16. CASE RunEscapes
    <2>1. discarded' \in SUBSET Nat
      BY <1>16, <1>types, UndeliveredTyped DEF RunEscapes, RunType, HistoryType
    <2>2. AgentStateType' /\ RunType' /\ LocalType'
      BY <1>16, FinishTyped DEF RunEscapes
    <2>3. HistoryType'
      BY <1>16, <1>types, <2>1 DEF RunEscapes, HistoryType
    <2> QED
      BY <1>16, <1>types, <2>2, <2>3 DEF RunEscapes, TypeOK, QueueType, queues
  <1>17. CASE prompt
    <2>1. PICK k \in 1..MaxBatch :
            /\ nextId' = nextId + k
            /\ _run_with_lifecycle([i \in 1..k |-> User("prompt", nextId + i - 1)], FALSE)
      BY <1>17 DEF prompt
    <2>2. k \in Nat /\ \A i \in 1..k : nextId + i - 1 \in Nat
      BY <1>types, <2>1, Bounds DEF HistoryType
    <2>3. \A i \in 1..k : User("prompt", nextId + i - 1) \in Message
      BY <2>2, MessagesTyped DEF Kinds, UserKinds
    <2>4. [i \in 1..k |-> User("prompt", nextId + i - 1)] \in Seq(Message)
      BY <2>2, <2>3
    <2>5. AgentStateType' /\ RunType' /\ LocalType'
      BY <2>1, <2>4, StartTyped
    <2>6. nextId' \in Nat
      BY <1>types, <2>1, <2>2 DEF HistoryType
    <2> QED
      BY <1>17, <1>types, <2>5, <2>6 DEF prompt, TypeOK, QueueType, HistoryType, queues
  <1>18. CASE continue_
    <2>1. AgentStateType' /\ RunType' /\ LocalType' /\ QueueType'
      <3>1. CASE /\ \E m \in QueueModes : /\ steering' = Remaining(steering, m)
                                         /\ _run_with_lifecycle(Drained(steering, m), TRUE)
                 /\ UNCHANGED followUps
        BY <1>types, <3>1, StartTyped, DrainTyped DEF QueueType
      <3>2. CASE /\ \E m \in QueueModes : /\ followUps' = Remaining(followUps, m)
                                         /\ _run_with_lifecycle(Drained(followUps, m), FALSE)
                 /\ UNCHANGED steering
        BY <1>types, <3>2, StartTyped, DrainTyped DEF QueueType
      <3>3. CASE _run_with_lifecycle(<<>>, FALSE) /\ UNCHANGED queues
        <4>1. <<>> \in Seq(Message)
          OBVIOUS
        <4> QED
          BY <1>types, <3>3, <4>1, StartTyped DEF QueueType, queues
      <3> QED
        BY <1>18, <3>1, <3>2, <3>3 DEF continue_
    <2> QED
      BY <1>18, <1>types, <2>1 DEF continue_, TypeOK, HistoryType, history
  <1>19. CASE steer
    <2>1. User("steer", nextId) \in Message
      BY <1>types, MessagesTyped DEF HistoryType, Kinds, UserKinds
    <2>2. steering' \in Seq(Message) /\ followUps' = followUps
      BY <1>19, <1>types, <2>1 DEF steer, QueueType
    <2>3. /\ nextId' \in Nat
          /\ UNCHANGED <<toolTurns, faults, discarded, escaped>>
      BY <1>19, <1>types DEF steer, HistoryType
    <2>4. AgentStateType' /\ RunType' /\ LocalType'
      BY <1>19, <1>types DEF steer, AgentStateType, RunType, LocalType, agentState, locals
    <2> QED
      BY <1>types, <2>2, <2>3, <2>4 DEF TypeOK, QueueType, HistoryType
  <1>20. CASE followUp
    <2>1. User("followUp", nextId) \in Message
      BY <1>types, MessagesTyped DEF HistoryType, Kinds, UserKinds
    <2>2. followUps' \in Seq(Message) /\ steering' = steering
      BY <1>20, <1>types, <2>1 DEF followUp, QueueType
    <2>3. /\ nextId' \in Nat
          /\ UNCHANGED <<toolTurns, faults, discarded, escaped>>
      BY <1>20, <1>types DEF followUp, HistoryType
    <2>4. AgentStateType' /\ RunType' /\ LocalType'
      BY <1>20, <1>types DEF followUp, AgentStateType, RunType, LocalType, agentState, locals
    <2> QED
      BY <1>types, <2>2, <2>3, <2>4 DEF TypeOK, QueueType, HistoryType
  <1>21. CASE clearSteeringQueue
    <2>1. discarded' \in SUBSET Nat /\ UNCHANGED <<nextId, toolTurns, faults, escaped>>
      BY <1>21, <1>types, UserIdsTyped DEF clearSteeringQueue, QueueType, HistoryType
    <2>2. steering' \in Seq(Message) /\ followUps' = followUps
      BY <1>21 DEF clearSteeringQueue
    <2>3. AgentStateType' /\ RunType' /\ LocalType'
      BY <1>21, <1>types DEF clearSteeringQueue, AgentStateType, RunType, LocalType, agentState, locals
    <2> QED
      BY <1>types, <2>1, <2>2, <2>3 DEF TypeOK, QueueType, HistoryType
  <1>22. CASE clearFollowUpQueue
    <2>1. discarded' \in SUBSET Nat /\ UNCHANGED <<nextId, toolTurns, faults, escaped>>
      BY <1>22, <1>types, UserIdsTyped DEF clearFollowUpQueue, QueueType, HistoryType
    <2>2. followUps' \in Seq(Message) /\ steering' = steering
      BY <1>22 DEF clearFollowUpQueue
    <2>3. AgentStateType' /\ RunType' /\ LocalType'
      BY <1>22, <1>types DEF clearFollowUpQueue, AgentStateType, RunType, LocalType, agentState, locals
    <2> QED
      BY <1>types, <2>1, <2>2, <2>3 DEF TypeOK, QueueType, HistoryType
  <1>23. CASE abort
    BY <1>23, <1>types
       DEF abort, TypeOK, AgentStateType, QueueType, RunType, LocalType, HistoryType,
           agentState, queues, locals, history
  <1>24. CASE reset
    <2>1. discarded' \in SUBSET Nat
      BY <1>24, <1>types, UserIdsTyped DEF reset, AgentStateType, QueueType, HistoryType
    <2>2. AgentStateType'
      <3>1. messages' \in Seq(Message) /\ pendingToolCalls' \in SUBSET Nat
        BY <1>24 DEF reset
      <3>2. isStreaming' \in BOOLEAN /\ errorMessage' \in BOOLEAN /\ streamingMessage' = NoMessage
        BY <1>24 DEF reset
      <3> QED
        BY <3>1, <3>2 DEF AgentStateType
    <2> QED
      BY <1>24, <1>types, <2>1, <2>2 DEF reset, TypeOK, QueueType, RunType, LocalType, HistoryType, locals
  <1>25. CASE UNCHANGED vars
    BY <1>25, <1>types
       DEF vars, TypeOK, AgentStateType, QueueType, RunType, LocalType, HistoryType,
           agentState, queues, locals, history
  <1> QED
    BY <1>1, <1>2, <1>3, <1>4, <1>5, <1>6, <1>7, <1>8, <1>9, <1>10, <1>11, <1>12, <1>13, <1>14,
       <1>15, <1>16, <1>17, <1>18, <1>19, <1>20, <1>21, <1>22, <1>23, <1>24, <1>25, <1>26
       DEF Next, RunStep, Environment, Caller

-----------------------------------------------------------------------------
(* The shape of a run, and the clean idle state.                           *)

\* A new Agent has no run.
LEMMA InitShape == Init => RunShape /\ IdleIsClean
  BY DEF Init, RunShape, IdleIsClean, Idle

\* Outside _finish_run and the start of a run, a step that emits leaves these places.
LEMMA NextShape == TypeOK /\ RunShape /\ [Next]_vars => RunShape'
  <1> SUFFICES ASSUME TypeOK, RunShape, [Next]_vars
               PROVE  RunShape'
    OBVIOUS
  <1>types. context \in Seq(Message) /\ answered \in Nat /\ messages \in Seq(Message)
    BY DEF TypeOK, LocalType, AgentStateType
  <1>stop. ASSUME NEW lost, _stop_if_aborted(lost), pc # "idle"
           PROVE  RunShape'
    BY <1>stop DEF _stop_if_aborted, Emit, RunShape, locals, Idle
  <1>open. ASSUME NEW events, NEW pending \in Seq(Message), OpenTurn(events, pending), pc # "idle"
           PROVE  RunShape'
    <2>1. context # <<>> => context' # <<>>
      BY <1>open, <1>types DEF OpenTurn
    <2> QED
      BY <1>open, <2>1 DEF OpenTurn, Emit, RunShape, Idle
  <1>call. ASSUME CallModel, out = <<>>
           PROVE  RunShape'
    BY <1>call DEF CallModel, RunShape, locals, Idle
  <1>poll. ASSUME PollQueues, pc # "idle"
           PROVE  RunShape'
    <2>1. PICK m \in QueueModes, n \in QueueModes : PollQueues!(m, n)
      BY <1>poll DEF PollQueues
    <2>2. Drained(steering, m) \in Seq(Message) /\ _followup(n) \in Seq(Message)
      BY DrainTyped DEF _followup, TypeOK, QueueType
    <2>3. CASE Emit(<<Bare("agent_end")>>, "ending") /\ UNCHANGED locals
      BY <1>poll, <2>3 DEF Emit, RunShape, locals, Idle
    <2> QED
      BY <1>poll, <1>stop, <1>open, <2>1, <2>2, <2>3
  <1>finish. ASSUME _finish_run
             PROVE  RunShape'
    BY <1>finish DEF _finish_run, RunShape, Idle
  <1>start. ASSUME NEW prompts, NEW b, _run_with_lifecycle(prompts, b), Idle
            PROVE  RunShape'
    BY <1>start DEF _run_with_lifecycle, RunShape, Idle
  <1>1. CASE EmitNext
    BY <1>1 DEF EmitNext, Emit, RunShape, locals, Idle
  <1>2. CASE BeginLoop
    <2>1. PICK m \in QueueModes :
            LET pending == IF skip THEN <<>> ELSE Drained(steering, m)
            IN  \/ _stop_if_aborted(pending)
                \/ OpenTurn(<<>>, pending)
                \/ CallModel
      BY <1>2 DEF BeginLoop
    <2>2. (IF skip THEN <<>> ELSE Drained(steering, m)) \in Seq(Message)
      BY DrainTyped DEF TypeOK, QueueType
    <2> QED
      BY <1>2, <1>stop, <1>open, <1>call, <2>1, <2>2 DEF BeginLoop, Resumes
  <1>3. CASE StartRequest
    BY <1>3, <1>stop, <1>call DEF StartRequest, Resumes
  <1>4. CASE StreamStart
    <2>1. context' # <<>>
      BY <1>4, <1>types DEF StreamStart
    <2> QED
      BY <1>4, <2>1 DEF StreamStart, RunShape, Idle
  <1>5. CASE StreamUpdate \/ SendRequest \/ CallPrepareNextTurn \/ abort \/ steer \/ followUp
             \/ clearSteeringQueue \/ clearFollowUpQueue \/ reset \/ UNCHANGED vars
    BY <1>5
       DEF StreamUpdate, SendRequest, CallPrepareNextTurn, Resumes, abort, steer, followUp, clearSteeringQueue,
           clearFollowUpQueue, reset, vars, RunShape, Idle, locals
  <1>6. CASE StreamDone
    <2>1. PICK m : context' = FinalContext(m)
      BY <1>6 DEF StreamDone
    <2>2. context' # <<>>
      <3>1. CASE added
        <4>1. DOMAIN context' = 1..Len(context) /\ Len(context) > 0
          BY <1>types, <2>1, <3>1 DEF FinalContext, RunShape
        <4> QED
          BY <1>types, <4>1
      <3>2. CASE ~added
        BY <1>types, <2>1, <3>2 DEF FinalContext
      <3> QED
        BY <3>1, <3>2
    <2>3. pc' = "answer" /\ ~added'
      BY <1>6 DEF StreamDone, Emit
    <2> QED
      BY <2>2, <2>3 DEF RunShape, Idle
  <1>7. CASE Answer
    BY <1>7 DEF Answer, Emit, Resumes, RunShape, Idle, locals
  <1>8. CASE NextCall
    BY <1>8, <1>types DEF NextCall, Emit, Resumes, RunShape, Idle
  <1>9. CASE CollectResults
    BY <1>9 DEF CollectResults, Emit, Resumes, RunShape, Idle, locals
  <1>10. CASE EndBatch
    <2>1. context' # <<>>
      BY <1>10, <1>types, ResultsTyped DEF EndBatch, Resumes, RunShape
    <2> QED
      BY <1>10, <2>1 DEF EndBatch, Emit, RunShape, Idle
  <1>11. CASE EndTurn
    BY <1>11, <1>stop, <1>poll DEF EndTurn, Resumes
  <1>12. CASE PrepareNextTurnReturns
    BY <1>12, <1>poll DEF PrepareNextTurnReturns
  <1>13. CASE Finish \/ RunEscapes
    BY <1>13, <1>finish DEF Finish, RunEscapes
  <1>14. CASE RunRaises
    BY <1>14 DEF RunRaises, Emit, RunShape, Idle, locals
  <1>15. CASE prompt
    BY <1>15, <1>start DEF prompt
  <1>16. CASE continue_
    BY <1>16, <1>start DEF continue_
  <1> QED
    BY <1>1, <1>2, <1>3, <1>4, <1>5, <1>6, <1>7, <1>8, <1>9, <1>10, <1>11, <1>12, <1>13, <1>14,
       <1>15, <1>16 DEF Next, RunStep, Environment, Caller

\* The variables of every behaviour keep their types (Agent and _run_loop).
THEOREM TypeInvariant == Spec => [](TypeOK /\ RunShape)
  <1>1. Init => TypeOK /\ RunShape
    BY InitTyped, InitShape
  <1>2. TypeOK /\ RunShape /\ [Next]_vars => (TypeOK /\ RunShape)'
    BY NextTyped, NextShape
  <1> QED
    BY <1>1, <1>2, PTL DEF Spec

\* The only steps into the idle state are those that run _finish_run.
LEMMA NextClean == RunShape /\ IdleIsClean /\ [Next]_vars => IdleIsClean'
  <1> SUFFICES ASSUME RunShape, IdleIsClean, [Next]_vars
               PROVE  IdleIsClean'
    OBVIOUS
  <1>busy. ASSUME pc' # "idle" PROVE IdleIsClean'
    BY <1>busy DEF IdleIsClean, Idle
  <1>emit. ASSUME NEW evs, NEW next, Emit(evs, next), next # "idle" PROVE IdleIsClean'
    BY <1>emit, <1>busy DEF Emit
  <1>stop. ASSUME NEW lost, _stop_if_aborted(lost) PROVE IdleIsClean'
    BY <1>stop, <1>emit DEF _stop_if_aborted
  <1>open. ASSUME NEW events, NEW pending, OpenTurn(events, pending) PROVE IdleIsClean'
    BY <1>open, <1>emit DEF OpenTurn
  <1>call. ASSUME CallModel PROVE IdleIsClean'
    BY <1>call, <1>busy DEF CallModel
  <1>poll. ASSUME PollQueues PROVE IdleIsClean'
    BY <1>poll, <1>emit, <1>stop, <1>open DEF PollQueues
  <1>1. CASE EmitNext
    BY <1>1, <1>emit DEF EmitNext, RunShape
  <1>2. CASE BeginLoop \/ StartRequest
    BY <1>2, <1>stop, <1>open, <1>call DEF BeginLoop, StartRequest
  <1>3. CASE SendRequest \/ StreamStart \/ StreamUpdate \/ CallPrepareNextTurn
    BY <1>3, <1>busy DEF SendRequest, StreamStart, StreamUpdate, CallPrepareNextTurn
  <1>4. CASE StreamDone \/ Answer \/ NextCall \/ CollectResults \/ EndBatch \/ RunRaises
    BY <1>4, <1>emit DEF StreamDone, Answer, NextCall, CollectResults, EndBatch, RunRaises
  <1>5. CASE EndTurn \/ PrepareNextTurnReturns
    BY <1>5, <1>stop, <1>poll DEF EndTurn, PrepareNextTurnReturns
  <1>6. CASE Finish \/ RunEscapes
    BY <1>6 DEF Finish, RunEscapes, _finish_run, IdleIsClean
  <1>7. CASE prompt \/ continue_
    <2>1. pc' = "opening"
      BY <1>7 DEF prompt, continue_, _run_with_lifecycle
    <2> QED
      BY <2>1, <1>busy
  <1>8. CASE steer \/ followUp \/ clearSteeringQueue \/ clearFollowUpQueue \/ abort \/ UNCHANGED vars
    BY <1>8 DEF steer, followUp, clearSteeringQueue, clearFollowUpQueue, abort, vars, agentState, IdleIsClean, Idle
  <1>9. CASE reset
    BY <1>9 DEF reset, IdleIsClean, Idle
  <1> QED
    BY <1>1, <1>2, <1>3, <1>4, <1>5, <1>6, <1>7, <1>8, <1>9 DEF Next, RunStep, Environment, Caller

\* However a run ended, an idle agent shows no trace of it (Agent._finish_run).
THEOREM IdleCleanInvariant == Spec => []IdleIsClean
  BY InitShape, NextClean, TypeInvariant, PTL DEF Spec

-----------------------------------------------------------------------------
(* No message vanishes.                                                    *)

\* A drain loses nothing: what is not returned stays in the queue.
LEMMA DrainKeeps ==
  ASSUME NEW q \in Seq(Message), NEW m
  PROVE  UserIds(q) \subseteq UserIds(Drained(q, m)) \cup UserIds(Remaining(q, m))
  <1>1. CASE m = "all" \/ q = <<>>
    BY <1>1 DEF Drained
  <1>2. CASE ~(m = "all" \/ q = <<>>)
    <2> SUFFICES ASSUME NEW n \in UserIds(q)
                 PROVE  n \in UserIds(<<Head(q)>>) \/ n \in UserIds(Tail(q))
      BY <1>2 DEF Drained, Remaining
    <2>1. PICK i \in DOMAIN q : q[i].kind \in UserKinds /\ q[i].id = n
      BY UserIdsMember
    <2>2. CASE i = 1
      <3>1. <<Head(q)>>[1] = q[1] /\ 1 \in DOMAIN <<Head(q)>>
        BY <1>2
      <3> QED
        BY <2>1, <2>2, <3>1, UserIdsMember
    <2>3. CASE i # 1
      <3>1. i - 1 \in DOMAIN Tail(q) /\ Tail(q)[i - 1] = q[i]
        BY <1>2, <2>1, <2>3
      <3> QED
        BY <2>1, <3>1, UserIdsMember
    <2> QED
      BY <2>2, <2>3
  <1> QED
    BY <1>1, <1>2

\* Every user message that is announced is on its way to the transcript.
LEMMA SayDelivers ==
  ASSUME NEW ms \in Seq(Message)
  PROVE  UserIds(ms) \subseteq Undelivered(Say(ms))
  <1> SUFFICES ASSUME NEW n \in UserIds(ms)
               PROVE  n \in Undelivered(Say(ms))
    OBVIOUS
  <1>1. PICK i \in DOMAIN ms : ms[i].kind \in UserKinds /\ ms[i].id = n
    BY UserIdsMember
  <1>2. i \in DOMAIN Say(ms) /\ Say(ms)[i] = About("message_start", ms[i])
    BY DEF Say
  <1>3. Say(ms)[i].type = "message_start" /\ Say(ms)[i].msg = ms[i]
    BY <1>2 DEF About
  <1> QED
    BY <1>1, <1>2, <1>3, UndeliveredMember

\* Concatenating event sequences keeps the messages of both.
LEMMA ConcatDelivers ==
  ASSUME NEW a \in Seq(Event), NEW b \in Seq(Event)
  PROVE  Undelivered(a) \subseteq Undelivered(a \o b) /\ Undelivered(b) \subseteq Undelivered(a \o b)
  <1>1. ASSUME NEW n \in Undelivered(a) PROVE n \in Undelivered(a \o b)
    <2>1. PICK i \in DOMAIN a : /\ a[i].type \in {"message_start", "message_end"}
                                /\ a[i].msg.kind \in UserKinds /\ a[i].msg.id = n
      BY <1>1, UndeliveredMember
    <2>2. i \in DOMAIN (a \o b) /\ (a \o b)[i] = a[i]
      OBVIOUS
    <2> QED
      BY <2>1, <2>2, UndeliveredMember
  <1>2. ASSUME NEW n \in Undelivered(b) PROVE n \in Undelivered(a \o b)
    <2>1. PICK i \in DOMAIN b : /\ b[i].type \in {"message_start", "message_end"}
                                /\ b[i].msg.kind \in UserKinds /\ b[i].msg.id = n
      BY <1>2, UndeliveredMember
    <2>2. Len(a) + i \in DOMAIN (a \o b) /\ (a \o b)[Len(a) + i] = b[i]
      OBVIOUS
    <2> QED
      BY <2>1, <2>2, UndeliveredMember
  <1> QED
    BY <1>1, <1>2

\* Appending to the transcript keeps what is in it.
LEMMA AppendKeeps ==
  ASSUME NEW s \in Seq(Message), NEW m
  PROVE  /\ UserIds(s) \subseteq UserIds(Append(s, m))
         /\ m.kind \in UserKinds => m.id \in UserIds(Append(s, m))
  <1>1. ASSUME NEW n \in UserIds(s) PROVE n \in UserIds(Append(s, m))
    <2>1. PICK i \in DOMAIN s : s[i].kind \in UserKinds /\ s[i].id = n
      BY <1>1, UserIdsMember
    <2>2. i \in DOMAIN Append(s, m) /\ Append(s, m)[i] = s[i]
      OBVIOUS
    <2> QED
      BY <2>1, <2>2, UserIdsMember
  <1>2. Len(s) + 1 \in DOMAIN Append(s, m) /\ Append(s, m)[Len(s) + 1] = m
    OBVIOUS
  <1>3. m.kind \in UserKinds => m.id \in UserIds(Append(s, m))
    BY <1>2, UserIdsMember
  <1> QED
    BY <1>1, <1>3

\* Handling the first event of `evs` leaves every message of `evs` to be delivered, or delivers it.
LEMMA EmitDelivers ==
  ASSUME messages \in Seq(Message), NEW evs \in Seq(Event), evs # <<>>, NEW next, Emit(evs, next)
  PROVE  /\ UserIds(messages) \subseteq UserIds(messages')
         /\ Undelivered(evs) \subseteq Undelivered(out') \cup UserIds(messages')
  <1>1. Head(evs) \in Event /\ Head(evs).msg \in Message
    <2>1. Head(evs) \in Event
      OBVIOUS
    <2> QED
      BY <2>1 DEF Event
  <1>2. UserIds(messages) \subseteq UserIds(messages')
    BY <1>1, AppendKeeps DEF Emit, _process_events
  <1>3. ASSUME NEW n \in Undelivered(evs) PROVE n \in Undelivered(out') \cup UserIds(messages')
    <2>1. PICK i \in DOMAIN evs : /\ evs[i].type \in {"message_start", "message_end"}
                                  /\ evs[i].msg.kind \in UserKinds /\ evs[i].msg.id = n
      BY <1>3, UndeliveredMember
    <2>2. CASE i # 1
      <3>1. i - 1 \in DOMAIN Tail(evs) /\ Tail(evs)[i - 1] = evs[i]
        BY <2>2
      <3>2. n \in Undelivered(Tail(evs))
        BY <2>1, <3>1, UndeliveredMember
      <3>3. <<About("message_end", Head(evs).msg)>> \in Seq(Event) /\ Tail(evs) \in Seq(Event)
        BY <1>1, EventsTyped DEF EventTypes
      <3>4. n \in Undelivered(<<About("message_end", Head(evs).msg)>> \o Tail(evs))
        BY <3>2, <3>3, ConcatDelivers
      <3> QED
        BY <3>2, <3>4 DEF Emit, AfterHead
    <2>3. CASE i = 1 /\ evs[i].type = "message_end"
      <3>1. messages' = Append(messages, Head(evs).msg) /\ Head(evs) = evs[i]
        BY <2>3 DEF Emit, _process_events
      <3> QED
        BY <1>1, <2>1, <3>1, AppendKeeps
    <2>4. CASE i = 1 /\ evs[i].type = "message_start"
      <3> DEFINE e == About("message_end", Head(evs).msg)
      <3>1. Head(evs) = evs[i]
        BY <2>4
      <3>2. out' = <<e>> \o Tail(evs)
        BY <2>4, <3>1 DEF Emit, AfterHead
      <3>3. e.type = "message_end" /\ e.msg = evs[i].msg
        BY <3>1 DEF About
      <3>4. 1 \in DOMAIN out' /\ out'[1] = e
        <4>1. Tail(evs) \in Seq(Event) /\ Len(<<e>>) = 1 /\ <<e>>[1] = e
          OBVIOUS
        <4>2. e \in Event
          BY <1>1, EventsTyped DEF EventTypes
        <4> HIDE DEF e
        <4> QED
          BY <3>2, <4>1, <4>2
      <3> HIDE DEF e
      <3> QED
        BY <2>1, <3>3, <3>4, UndeliveredMember
    <2> QED
      BY <2>1, <2>2, <2>3, <2>4
  <1> QED
    BY <1>2, <1>3

\* No event takes anything from the transcript.
LEMMA TranscriptGrows ==
  ASSUME messages \in Seq(Message), NEW evs, NEW next, Emit(evs, next)
  PROVE  UserIds(messages) \subseteq UserIds(messages')
  BY AppendKeeps DEF Emit, _process_events

\* A step that takes messages from a queue or from the events still to emit, and emits `evs`,
\* keeps every message it took: in `evs`, or among the dropped ones.
LEMMA EmitKeeps ==
  ASSUME TypeOK, NothingVanishes, NEW evs \in Seq(Event), evs # <<>>, NEW next, Emit(evs, next),
         nextId' = nextId, discarded \subseteq discarded',
         Undelivered(out) \subseteq Undelivered(evs) \cup discarded',
         UserIds(steering) \subseteq UserIds(steering') \cup Undelivered(evs) \cup discarded',
         UserIds(followUps) \subseteq UserIds(followUps') \cup Undelivered(evs) \cup discarded'
  PROVE  NothingVanishes'
  <1>1. /\ UserIds(messages) \subseteq UserIds(messages')
        /\ Undelivered(evs) \subseteq Undelivered(out') \cup UserIds(messages')
    BY EmitDelivers DEF TypeOK, AgentStateType
  <1> QED
    BY <1>1 DEF NothingVanishes

\* The same for a step that emits nothing.
LEMMA QuietKeeps ==
  ASSUME NothingVanishes, nextId' = nextId,
         UserIds(messages) \subseteq UserIds(messages') \cup discarded',
         Undelivered(out) \subseteq Undelivered(out') \cup discarded',
         UserIds(steering) \subseteq UserIds(steering') \cup discarded',
         UserIds(followUps) \subseteq UserIds(followUps') \cup discarded',
         discarded \subseteq discarded'
  PROVE  NothingVanishes'
  BY DEF NothingVanishes

\* Handing a message over puts it where it is looked for.
LEMMA HandedOver ==
  ASSUME TypeOK, NothingVanishes, NEW kept, nextId' = nextId + 1, nextId \in kept,
         \A n \in 1..(nextId - 1) :
           (n \in UserIds(steering) \/ n \in UserIds(followUps))
             => (n \in UserIds(steering') \/ n \in UserIds(followUps')),
         kept = UserIds(steering') \cup UserIds(followUps'),
         UNCHANGED <<messages, out, discarded>>
  PROVE  NothingVanishes'
  <1> SUFFICES ASSUME NEW n \in 1..(nextId' - 1)
               PROVE  \/ n \in UserIds(steering') \/ n \in UserIds(followUps')
                      \/ n \in Undelivered(out') \/ n \in UserIds(messages') \/ n \in discarded'
    BY DEF NothingVanishes
  <1>1. nextId \in Nat
    BY DEF TypeOK, HistoryType
  <1>2. n = nextId \/ n \in 1..(nextId - 1)
    BY <1>1
  <1>3. CASE n = nextId
    BY <1>3
  <1>4. CASE n \in 1..(nextId - 1)
    BY <1>4 DEF NothingVanishes
  <1> QED
    BY <1>2, <1>3, <1>4

\* Every step of the agent keeps every message it was given.
LEMMA NextKeeps == TypeOK /\ RunShape /\ NothingVanishes /\ [Next]_vars => NothingVanishes'
  <1> SUFFICES ASSUME TypeOK, RunShape, NothingVanishes, [Next]_vars
               PROVE  NothingVanishes'
    OBVIOUS
  <1>types. /\ steering \in Seq(Message) /\ followUps \in Seq(Message)
            /\ messages \in Seq(Message) /\ context \in Seq(Message) /\ out \in Seq(Event)
            /\ answered \in Nat /\ nextId \in Nat
    BY DEF TypeOK, AgentStateType, QueueType, RunType, LocalType, HistoryType
  <1>none. UserIds(<<>>) = {} /\ Undelivered(<<>>) = {}
    BY DEF UserIds, Undelivered
  <1>drain. \A q \in Seq(Message) : \A m : /\ Drained(q, m) \in Seq(Message)
                                             /\ UserIds(q) \subseteq UserIds(Drained(q, m)) \cup UserIds(Remaining(q, m))
    BY DrainTyped, DrainKeeps
  <1>stop. ASSUME NEW lost \in Seq(Message), _stop_if_aborted(lost), out = <<>>, nextId' = nextId,
                  UserIds(steering) \subseteq UserIds(steering') \cup UserIds(lost),
                  followUps' = followUps
           PROVE  NothingVanishes'
    <2>1. UserIds(messages) \subseteq UserIds(messages')
      BY <1>stop, <1>types, TranscriptGrows DEF _stop_if_aborted
    <2>2. discarded' = discarded \cup UserIds(lost)
      BY <1>stop DEF _stop_if_aborted
    <2> QED
      BY <1>stop, <1>none, <2>1, <2>2, QuietKeeps
  <1>open. ASSUME NEW events \in Seq(Event), NEW pending \in Seq(Message), OpenTurn(events, pending),
                  events # <<>> \/ pending # <<>>, out = <<>>, nextId' = nextId,
                  UserIds(steering) \subseteq UserIds(steering') \cup UserIds(pending),
                  UserIds(followUps) \subseteq UserIds(followUps') \cup UserIds(pending)
           PROVE  NothingVanishes'
    <2> DEFINE evs == events \o Say(pending)
    <2>1. Say(pending) \in Seq(Event) /\ Len(Say(pending)) = Len(pending)
      BY SayTyped
    <2>2. evs \in Seq(Event) /\ evs # <<>>
      BY <1>open, <2>1
    <2>3. UserIds(pending) \subseteq Undelivered(evs)
      BY <2>1, SayDelivers, ConcatDelivers
    <2>4. Emit(evs, "turn") /\ discarded' = discarded
      BY <1>open DEF OpenTurn
    <2> HIDE DEF evs
    <2> QED
      BY <1>open, <1>none, <2>2, <2>3, <2>4, EmitKeeps
  <1>call. ASSUME CallModel, nextId' = nextId, UserIds(steering) \subseteq UserIds(steering'), followUps' = followUps
           PROVE  NothingVanishes'
    BY <1>call, QuietKeeps DEF CallModel, agentState
  <1>same. ASSUME NEW evs, NEW next, Emit(evs, next), out = <<>>,
                  UNCHANGED <<steering, followUps, nextId, discarded>>
           PROVE  NothingVanishes'
    BY <1>same, <1>types, <1>none, TranscriptGrows, QuietKeeps
  <1>poll. ASSUME PollQueues, out = <<>>, nextId' = nextId
           PROVE  NothingVanishes'
    <2>1. PICK m \in QueueModes, n \in QueueModes : PollQueues!(m, n)
      BY <1>poll DEF PollQueues
    <2> DEFINE pending == Drained(steering, m)
               after == _followup(n)
    <2>2. /\ pending \in Seq(Message) /\ after \in Seq(Message)
          /\ UserIds(steering) \subseteq UserIds(pending) \cup UserIds(Remaining(steering, m))
          /\ UserIds(followUps) \subseteq UserIds(after) \cup UserIds(Remaining(followUps, n))
      BY <1>types, <1>drain DEF _followup
    <2>3. <<Bare("turn_start")>> \in Seq(Event) /\ <<Bare("agent_end")>> \in Seq(Event)
      BY EventsTyped DEF EventTypes
    <2>4. steering' = Remaining(steering, m)
      BY <2>1
    <2> HIDE DEF pending, after
    <2>5. CASE _stop_if_aborted(pending) /\ UNCHANGED followUps
      BY <1>poll, <1>stop, <2>2, <2>4, <2>5
    <2>6. CASE OpenTurn(<<Bare("turn_start")>>, pending) /\ UNCHANGED followUps
      BY <1>poll, <1>open, <2>2, <2>3, <2>4, <2>6
    <2>7. CASE /\ pending = <<>> /\ OpenTurn(<<Bare("turn_start")>>, after)
               /\ followUps' = Remaining(followUps, n)
      BY <1>poll, <1>open, <1>none, <2>2, <2>3, <2>4, <2>7
    <2>8. CASE pending = <<>> /\ Emit(<<Bare("agent_end")>>, "ending") /\ UNCHANGED <<followUps, discarded>>
      <3>1. UserIds(steering) \subseteq UserIds(steering')
        BY <1>none, <2>2, <2>4, <2>8
      <3> QED
        BY <1>poll, <1>none, <2>3, <2>8, <3>1, EmitKeeps
    <2> QED
      BY <2>1, <2>5, <2>6, <2>7, <2>8 DEF pending, after
  <1>start. ASSUME NEW prompts \in Seq(Message), NEW b, _run_with_lifecycle(prompts, b)
            PROVE  messages' = messages /\ UserIds(prompts) \subseteq Undelivered(out')
    <2>1. <<Bare("turn_start")>> \in Seq(Event) /\ Say(prompts) \in Seq(Event)
      BY EventsTyped, SayTyped DEF EventTypes
    <2> QED
      BY <1>start, <2>1, SayDelivers, ConcatDelivers DEF _run_with_lifecycle
  <1>1. CASE EmitNext
    <2>1. UNCHANGED <<steering, followUps, nextId, discarded>> /\ out # <<>> /\ Emit(out, pc)
      BY <1>1 DEF EmitNext, queues, history
    <2> QED
      BY <1>types, <2>1, EmitKeeps
  <1>2. CASE BeginLoop
    <2>1. PICK m \in QueueModes :
            LET pending == IF skip THEN <<>> ELSE Drained(steering, m)
            IN  /\ steering' = IF skip THEN steering ELSE Remaining(steering, m)
                /\ \/ _stop_if_aborted(pending)
                   \/ pending # <<>> /\ OpenTurn(<<>>, pending)
                   \/ pending = <<>> /\ CallModel
      BY <1>2 DEF BeginLoop
    <2> DEFINE pending == IF skip THEN <<>> ELSE Drained(steering, m)
    <2>2. pending \in Seq(Message) /\ UserIds(steering) \subseteq UserIds(steering') \cup UserIds(pending)
      BY <1>types, <1>drain, <2>1
    <2>3. out = <<>> /\ nextId' = nextId /\ followUps' = followUps /\ <<>> \in Seq(Event)
      BY <1>2 DEF BeginLoop, Resumes
    <2>4. \/ _stop_if_aborted(pending)
          \/ pending # <<>> /\ OpenTurn(<<>>, pending)
          \/ pending = <<>> /\ CallModel
      BY <2>1
    <2> HIDE DEF pending
    <2>5. CASE _stop_if_aborted(pending)
      BY <1>stop, <2>2, <2>3, <2>5
    <2>6. CASE pending # <<>> /\ OpenTurn(<<>>, pending)
      BY <1>open, <2>2, <2>3, <2>6
    <2>7. CASE pending = <<>> /\ CallModel
      BY <1>call, <1>none, <2>2, <2>3, <2>7
    <2> QED
      BY <2>4, <2>5, <2>6, <2>7
  <1>3. CASE StartRequest
    <2>1. <<>> \in Seq(Message)
      OBVIOUS
    <2> QED
      BY <1>3, <1>stop, <1>call, <2>1 DEF StartRequest, Resumes, queues
  <1>4. CASE SendRequest \/ StreamStart \/ StreamUpdate \/ CallPrepareNextTurn \/ abort \/ UNCHANGED vars
    <2>1. messages' = messages
      BY <1>4 DEF SendRequest, StreamStart, StreamUpdate, CallPrepareNextTurn, abort, vars, agentState, _process_events, About
    <2>2. UNCHANGED <<steering, followUps, out, nextId, discarded>>
      BY <1>4 DEF SendRequest, StreamStart, StreamUpdate, CallPrepareNextTurn, abort, vars, queues, history
    <2> QED
      BY <2>1, <2>2, QuietKeeps
  <1>5. CASE StreamDone \/ Answer \/ NextCall \/ CollectResults \/ EndBatch
    <2>1. out = <<>>
      BY <1>5 DEF StreamDone, Answer, NextCall, CollectResults, EndBatch, Resumes, RunShape
    <2>2. UNCHANGED <<steering, followUps, nextId, discarded>>
      BY <1>5 DEF StreamDone, Answer, NextCall, CollectResults, EndBatch, queues, history
    <2>3. \E evs, next : Emit(evs, next)
      BY <1>5 DEF StreamDone, Answer, NextCall, CollectResults, EndBatch
    <2> QED
      BY <1>same, <2>1, <2>2, <2>3
  <1>6. CASE EndTurn
    <2>1. <<>> \in Seq(Message)
      OBVIOUS
    <2> QED
      BY <1>6, <1>stop, <1>poll, <2>1 DEF EndTurn, Resumes, queues
  <1>7. CASE PrepareNextTurnReturns
    BY <1>7, <1>poll DEF PrepareNextTurnReturns, RunShape
  <1>8. CASE Finish
    BY <1>8, <1>none, QuietKeeps DEF Finish, _finish_run, Resumes, queues, history
  <1>9. CASE RunRaises
    <2>1. UserIds(messages) \subseteq UserIds(messages')
      BY <1>9, <1>types, TranscriptGrows DEF RunRaises
    <2> QED
      BY <1>9, <2>1, QuietKeeps DEF RunRaises, queues
  <1>10. CASE RunEscapes
    BY <1>10, QuietKeeps DEF RunEscapes, _finish_run, queues
  <1>11. CASE prompt
    <2>1. PICK k \in 1..MaxBatch :
            /\ nextId' = nextId + k
            /\ _run_with_lifecycle([i \in 1..k |-> User("prompt", nextId + i - 1)], FALSE)
      BY <1>11 DEF prompt
    <2> DEFINE prompts == [i \in 1..k |-> User("prompt", nextId + i - 1)]
    <2>2. k \in Nat /\ \A i \in 1..k : nextId + i - 1 \in Nat
      BY <1>types, <2>1, Bounds
    <2>3. prompts \in Seq(Message)
      <3>1. \A i \in 1..k : User("prompt", nextId + i - 1) \in Message
        BY <2>2, MessagesTyped DEF Kinds, UserKinds
      <3> QED
        BY <2>2, <3>1
    <2>4. messages' = messages /\ UserIds(prompts) \subseteq Undelivered(out')
      <3> HIDE DEF prompts
      <3>1. _run_with_lifecycle(prompts, FALSE)
        BY <2>1 DEF prompts
      <3> QED
        BY <1>start, <2>3, <3>1
    <2>5. ASSUME NEW n \in nextId..(nextId + k - 1) PROVE n \in UserIds(prompts)
      <3>1. n - nextId + 1 \in 1..k /\ nextId + (n - nextId + 1) - 1 = n
        BY <1>types, <2>2, <2>5
      <3>2. n - nextId + 1 \in DOMAIN prompts /\ prompts[n - nextId + 1] = User("prompt", n)
        BY <3>1
      <3>3. User("prompt", n).kind \in UserKinds /\ User("prompt", n).id = n
        BY DEF User, UserKinds
      <3> HIDE DEF prompts
      <3> QED
        BY <3>2, <3>3, UserIdsMember
    <2>6. out = <<>> /\ UNCHANGED <<steering, followUps, discarded>>
      BY <1>11 DEF prompt, RunShape, Idle, queues
    <2>7. ASSUME NEW n \in 1..(nextId + k - 1)
          PROVE  n \in 1..(nextId - 1) \/ n \in nextId..(nextId + k - 1)
      BY <1>types, <2>2, <2>7
    <2>8. nextId' - 1 = nextId + k - 1
      <3>1. nextId' = nextId + k
        BY <2>1, Zenon
      <3>2. nextId \in Nat /\ k \in Nat /\ nextId + k - 1 = (nextId + k) - 1
        BY <1>types, <2>2
      <3> QED
        BY <3>1, <3>2
    <2> HIDE DEF prompts
    <2>9. ASSUME NEW n \in 1..(nextId' - 1)
          PROVE  \/ n \in UserIds(steering') \/ n \in UserIds(followUps')
                 \/ n \in Undelivered(out') \/ n \in UserIds(messages') \/ n \in discarded'
      <3>1. n \in 1..(nextId - 1) \/ n \in nextId..(nextId + k - 1)
        BY <2>7, <2>8
      <3>2. CASE n \in 1..(nextId - 1)
        BY <1>none, <2>4, <2>6, <3>2 DEF NothingVanishes
      <3>3. CASE n \in nextId..(nextId + k - 1)
        BY <2>4, <2>5, <3>3
      <3> QED
        BY <3>1, <3>2, <3>3
    <2> QED
      BY <2>9 DEF NothingVanishes
  <1>12. CASE continue_
    <2>1. out = <<>> /\ UNCHANGED <<nextId, discarded>>
      BY <1>12 DEF continue_, RunShape, Idle, history
    <2>2. CASE \E m \in QueueModes : /\ steering' = Remaining(steering, m)
                                     /\ _run_with_lifecycle(Drained(steering, m), TRUE)
                                     /\ UNCHANGED followUps
      BY <1>types, <1>none, <1>drain, <1>start, <2>1, <2>2 DEF NothingVanishes
    <2>3. CASE \E m \in QueueModes : /\ followUps' = Remaining(followUps, m)
                                     /\ _run_with_lifecycle(Drained(followUps, m), FALSE)
                                     /\ UNCHANGED steering
      BY <1>types, <1>none, <1>drain, <1>start, <2>1, <2>3 DEF NothingVanishes
    <2>4. CASE _run_with_lifecycle(<<>>, FALSE) /\ UNCHANGED queues
      BY <1>none, <2>1, <2>4, QuietKeeps DEF queues, _run_with_lifecycle
    <2> QED
      BY <1>12, <2>2, <2>3, <2>4 DEF continue_
  <1>13. CASE steer
    <2>1. /\ UserIds(steering) \subseteq UserIds(steering')
          /\ nextId \in UserIds(steering')
      BY <1>13, <1>types, AppendKeeps DEF steer, User, UserKinds
    <2> QED
      BY <1>13, <2>1, HandedOver DEF steer, agentState
  <1>14. CASE followUp
    <2>1. /\ UserIds(followUps) \subseteq UserIds(followUps')
          /\ nextId \in UserIds(followUps')
      BY <1>14, <1>types, AppendKeeps DEF followUp, User, UserKinds
    <2> QED
      BY <1>14, <2>1, HandedOver DEF followUp, agentState
  <1>15. CASE clearSteeringQueue \/ clearFollowUpQueue \/ reset
    BY <1>15, QuietKeeps DEF clearSteeringQueue, clearFollowUpQueue, reset, agentState
  <1> QED
    BY <1>1, <1>2, <1>3, <1>4, <1>5, <1>6, <1>7, <1>8, <1>9, <1>10, <1>11, <1>12, <1>13, <1>14,
       <1>15 DEF Next, RunStep, Environment, Caller

\* No message handed to prompt, steer or followUp vanishes, however the run polls its queues,
\* stops, fails or is cancelled.
THEOREM NothingVanishesInvariant == Spec => []NothingVanishes
  <1>1. Init => NothingVanishes
    BY DEF Init, NothingVanishes
  <1> QED
    BY <1>1, NextKeeps, TypeInvariant, PTL DEF Spec

-----------------------------------------------------------------------------
(* What steps may never do.                                                *)

\* An aborted run enters _stream_assistant_response no more and starts no other tool call
\* (the checks of _stop_if_aborted and of the two batch executors); all that may still go
\* out is the request whose hooks were under way.
THEOREM AbortStopsProperty == Spec => AbortStops
  <1> DEFINE Stops == aborted => /\ pc' = "convert" => pc = "convert"
                                 /\ pc' = "request" => pc \in {"convert", "request"}
                                 /\ (pc = "tools" /\ pc' = "tools") => answered' = answered
  <1>1. [Next]_vars => [Stops]_vars
    <2> SUFFICES ASSUME Next, aborted
                 PROVE  Stops
      BY DEF vars
    <2>stop. ASSUME NEW lost, _stop_if_aborted(lost) PROVE pc' = "ending"
      BY <2>stop DEF _stop_if_aborted, Emit
    <2>poll. ASSUME PollQueues PROVE pc' \in {"ending", "turn"}
      BY <2>poll, <2>stop DEF PollQueues, OpenTurn, Emit
    <2>1. CASE EmitNext \/ SendRequest \/ StreamStart \/ StreamUpdate
      BY <2>1 DEF EmitNext, Emit, SendRequest, StreamStart, StreamUpdate, locals
    <2>2. CASE BeginLoop \/ StartRequest
      BY <2>2, <2>stop DEF BeginLoop, StartRequest, OpenTurn, CallModel
    <2>3. CASE StreamDone \/ Answer \/ NextCall \/ CollectResults \/ EndBatch
      BY <2>3 DEF StreamDone, Answer, NextCall, CollectResults, EndBatch, Emit, Resumes
    <2>4. CASE EndTurn \/ PrepareNextTurnReturns
      BY <2>4, <2>stop, <2>poll DEF EndTurn, PrepareNextTurnReturns
    <2>5. CASE CallPrepareNextTurn \/ Finish \/ RunRaises \/ RunEscapes
      BY <2>5 DEF CallPrepareNextTurn, Finish, RunRaises, RunEscapes, _finish_run, Emit
    <2>6. CASE prompt \/ continue_
      BY <2>6 DEF prompt, continue_, _run_with_lifecycle
    <2>7. CASE steer \/ followUp \/ clearSteeringQueue \/ clearFollowUpQueue \/ abort \/ reset
      BY <2>7 DEF steer, followUp, clearSteeringQueue, clearFollowUpQueue, abort, reset, locals
    <2> QED
      BY <2>1, <2>2, <2>3, <2>4, <2>5, <2>6, <2>7 DEF Next, RunStep, Environment, Caller
  <1> QED
    BY <1>1, PTL DEF Spec, AbortStops

-----------------------------------------------------------------------------
(* Pending tool calls.  PendingToolCallsTracked is not inductive: that a   *)
(* batch leaves no call pending follows from the end of the call being     *)
(* the next event the run emits.                                           *)

NoCallStarts(evs) == \A i \in DOMAIN evs : evs[i].type # "tool_execution_start"

PendingShape ==
  /\ NoCallStarts(out)
  /\ pc \notin {"tools", "failing"} => pendingToolCalls = {}
  /\ pc = "tools" =>
       \/ pendingToolCalls = {}
       \/ /\ pendingToolCalls = {answered}
          /\ out # <<>>
          /\ Head(out) = About("tool_execution_end", ToolResult(answered))

\* Announcing messages starts no tool call.
LEMMA SayStartsNoCall ==
  ASSUME NEW ms \in Seq(Message)
  PROVE  NoCallStarts(Say(ms))
  BY SayTyped DEF NoCallStarts, Say, About

\* The two halves of a concatenation start no call, so neither does the whole.
LEMMA ConcatStartsNoCall ==
  ASSUME NEW a \in Seq(Event), NEW b \in Seq(Event), NoCallStarts(a), NoCallStarts(b)
  PROVE  NoCallStarts(a \o b)
  <1> SUFFICES ASSUME NEW i \in DOMAIN (a \o b)
               PROVE  (a \o b)[i].type # "tool_execution_start"
    BY DEF NoCallStarts
  <1>1. CASE i \in DOMAIN a
    BY <1>1 DEF NoCallStarts
  <1>2. CASE i \notin DOMAIN a
    <2>1. i - Len(a) \in DOMAIN b /\ (a \o b)[i] = b[i - Len(a)]
      BY <1>2
    <2> QED
      BY <2>1 DEF NoCallStarts
  <1> QED
    BY <1>1, <1>2

\* Emitting events among which no call starts adds no pending call, now or later.
LEMMA EmitStartsNoCall ==
  ASSUME NEW evs \in Seq(Event), evs # <<>>, NoCallStarts(Tail(evs)), NEW next, Emit(evs, next)
  PROVE  /\ NoCallStarts(out')
         /\ Head(evs).type # "tool_execution_start" => pendingToolCalls' \subseteq pendingToolCalls
  <1>1. Head(evs) \in Event /\ Tail(evs) \in Seq(Event)
    OBVIOUS
  <1>2. Head(evs).msg \in Message
    BY <1>1 DEF Event
  <1>3. NoCallStarts(out')
    <2> DEFINE e == About("message_end", Head(evs).msg)
    <2>1. e \in Event
      BY <1>2, EventsTyped DEF EventTypes
    <2>2. e.type # "tool_execution_start"
      BY DEF About
    <2>3. out' = Tail(evs) \/ out' = <<e>> \o Tail(evs)
      BY DEF Emit, AfterHead
    <2> HIDE DEF e
    <2>4. <<e>> \in Seq(Event) /\ NoCallStarts(<<e>>)
      BY <2>1, <2>2 DEF NoCallStarts
    <2> QED
      BY <1>1, <2>3, <2>4, ConcatStartsNoCall
  <1>4. Head(evs).type # "tool_execution_start" => pendingToolCalls' \subseteq pendingToolCalls
    BY DEF Emit, _process_events
  <1> QED
    BY <1>3, <1>4

\* The event sequences the loop emits about one message start no call.
LEMMA MessageEvents ==
  ASSUME NEW m \in Message,
         NEW evs \in {<<About("message_end", m)>>, Say(<<m>>), <<About("turn_end", m)>>,
                      <<About("turn_end", m), Bare("agent_end")>>,
                      Say(<<m>>) \o <<About("turn_end", m), Bare("agent_end")>>}
  PROVE  evs \in Seq(Event) /\ evs # <<>> /\ NoCallStarts(evs)
  <1> DEFINE Good(s) == s \in Seq(Event) /\ s # <<>> /\ NoCallStarts(s)
  <1>1. /\ About("message_end", m) \in Event /\ About("turn_end", m) \in Event /\ Bare("agent_end") \in Event
        /\ About("message_end", m).type = "message_end"
        /\ About("turn_end", m).type = "turn_end" /\ Bare("agent_end").type = "agent_end"
    <2>1. About("message_end", m) \in Event /\ About("turn_end", m) \in Event /\ Bare("agent_end") \in Event
      BY EventsTyped DEF EventTypes
    <2> QED
      BY <2>1 DEF About, Bare
  <1>2. Good(<<About("message_end", m)>>)
    BY <1>1 DEF NoCallStarts
  <1>3. Good(<<About("turn_end", m)>>)
    BY <1>1 DEF NoCallStarts
  <1>4. Good(<<About("turn_end", m), Bare("agent_end")>>)
    BY <1>1 DEF NoCallStarts
  <1>5. Good(Say(<<m>>))
    <2>1. <<m>> \in Seq(Message) /\ Len(<<m>>) = 1
      OBVIOUS
    <2>2. Say(<<m>>) \in Seq(Event) /\ Len(Say(<<m>>)) = 1 /\ NoCallStarts(Say(<<m>>))
      BY <2>1, SayTyped, SayStartsNoCall
    <2>3. \A s \in Seq(Event) : Len(s) = 1 => s # <<>>
      OBVIOUS
    <2> QED
      BY <2>2, <2>3
  <1>6. Good(Say(<<m>>) \o <<About("turn_end", m), Bare("agent_end")>>)
    <2>1. ASSUME NEW a, NEW b, Good(a), Good(b) PROVE Good(a \o b)
      <3>1. a \o b \in Seq(Event) /\ a \o b # <<>>
        BY <2>1
      <3>2. NoCallStarts(a \o b)
        BY <2>1, ConcatStartsNoCall
      <3> QED
        BY <3>1, <3>2
    <2> HIDE DEF Good
    <2> QED
      BY <1>4, <1>5, <2>1
  <1> QED
    BY <1>2, <1>3, <1>4, <1>5, <1>6

\* A batch starts one call, ends it next, and starts no other before its events are out.
LEMMA CallShape ==
  ASSUME TypeOK, NEW i \in Nat, NEW m, pendingToolCalls = {}, Emit(CallEvents(i, m), "tools"), answered' = i
  PROVE  PendingShape'
  <1> DEFINE r == ToolResult(i)
             start == About("tool_execution_start", r)
             end == About("tool_execution_end", r)
             rest == IF m = "sequential" THEN Say(<<r>>) ELSE <<>>
             evs == CallEvents(i, m)
  <1>1. r \in Message /\ r.id = i
    BY MessagesTyped DEF ToolResult
  <1>2. /\ start \in Event /\ end \in Event
        /\ start.type = "tool_execution_start" /\ start.msg = r /\ end.type = "tool_execution_end"
    <2>1. start \in Event /\ end \in Event
      BY <1>1, EventsTyped DEF EventTypes
    <2> QED
      BY <2>1 DEF About
  <1>3. rest \in Seq(Event) /\ NoCallStarts(rest)
    <2>1. Say(<<r>>) \in Seq(Event) /\ NoCallStarts(Say(<<r>>))
      BY <1>1, MessageEvents
    <2>2. <<>> \in Seq(Event) /\ NoCallStarts(<<>>)
      BY DEF NoCallStarts
    <2> QED
      BY <2>1, <2>2
  <1>4. evs = <<start, end>> \o rest
    BY DEF CallEvents
  <1> HIDE DEF r, start, end, rest, evs
  <1>5. <<end>> \in Seq(Event) /\ NoCallStarts(<<end>>)
    BY <1>2 DEF NoCallStarts
  <1>6. evs \in Seq(Event) /\ evs # <<>> /\ Head(evs) = start /\ Tail(evs) = <<end>> \o rest
    BY <1>2, <1>3, <1>4
  <1>7. Emit(evs, "tools")
    BY DEF evs
  <1>8. NoCallStarts(out') /\ out' = <<end>> \o rest
    <2>1. NoCallStarts(Tail(evs))
      BY <1>3, <1>5, <1>6, ConcatStartsNoCall
    <2>2. out' = Tail(evs)
      BY <1>2, <1>6, <1>7 DEF Emit, AfterHead
    <2> QED
      BY <1>6, <1>7, <2>1, <2>2
  <1>9. pendingToolCalls' = {i}
    BY <1>1, <1>2, <1>6, <1>7 DEF Emit, _process_events
  <1>10. out' # <<>> /\ Head(out') = end
    BY <1>2, <1>3, <1>8
  <1>11. pc' = "tools"
    BY <1>7 DEF Emit
  <1> QED
    BY <1>8, <1>9, <1>10, <1>11 DEF PendingShape, end, r

\* Every step keeps the pending calls in step with the events still to emit.
LEMMA NextPending == TypeOK /\ RunShape /\ PendingShape /\ [Next]_vars => PendingShape'
  <1> SUFFICES ASSUME TypeOK, RunShape, PendingShape, [Next]_vars
               PROVE  PendingShape'
    OBVIOUS
  <1>types. /\ out \in Seq(Event) /\ context \in Seq(Message) /\ answered \in Nat
            /\ steering \in Seq(Message) /\ followUps \in Seq(Message)
    BY DEF TypeOK, RunType, LocalType, QueueType
  <1>none. NoCallStarts(<<>>)
    BY DEF NoCallStarts
  <1>emits. ASSUME NEW evs \in Seq(Event), evs # <<>>, NoCallStarts(evs), NEW next, Emit(evs, next)
            PROVE  NoCallStarts(out') /\ pendingToolCalls' \subseteq pendingToolCalls /\ pc' = next
    <2>1. /\ Head(evs) = evs[1] /\ 1 \in DOMAIN evs
          /\ \A i \in DOMAIN Tail(evs) : i + 1 \in DOMAIN evs /\ Tail(evs)[i] = evs[i + 1]
      BY <1>emits
    <2>2. NoCallStarts(Tail(evs)) /\ Head(evs).type # "tool_execution_start"
      BY <1>emits, <2>1 DEF NoCallStarts
    <2> QED
      BY <1>emits, <2>2, EmitStartsNoCall DEF Emit
  <1>emit. ASSUME NEW evs \in Seq(Event), evs # <<>>, NoCallStarts(evs), NEW next, Emit(evs, next),
                  pendingToolCalls = {} \/ next = "failing", next # "tools"
           PROVE  PendingShape'
    BY <1>emit, <1>emits DEF PendingShape
  <1>stop. ASSUME NEW lost, _stop_if_aborted(lost), pendingToolCalls = {}
           PROVE  PendingShape'
    <2>1. Assistant("aborted", 0) \in Message
      BY MessagesTyped DEF Kinds
    <2> QED
      BY <1>stop, <1>emit, <2>1, MessageEvents DEF _stop_if_aborted
  <1>open. ASSUME NEW events \in {<<>>, <<Bare("turn_start")>>}, NEW pending \in Seq(Message),
                  events # <<>> \/ pending # <<>>, OpenTurn(events, pending), pendingToolCalls = {}
           PROVE  PendingShape'
    <2>1. events \in Seq(Event) /\ NoCallStarts(events)
      <3>1. Bare("turn_start") \in Event /\ Bare("turn_start").type = "turn_start"
        <4>1. Bare("turn_start") \in Event
          BY EventsTyped DEF EventTypes
        <4> QED
          BY <4>1 DEF Bare
      <3>2. <<Bare("turn_start")>> \in Seq(Event) /\ NoCallStarts(<<Bare("turn_start")>>)
        BY <3>1 DEF NoCallStarts
      <3>3. <<>> \in Seq(Event)
        OBVIOUS
      <3> QED
        BY <3>2, <3>3, <1>none
    <2>2. Say(pending) \in Seq(Event) /\ Len(Say(pending)) = Len(pending) /\ NoCallStarts(Say(pending))
      BY SayTyped, SayStartsNoCall
    <2>3. events \o Say(pending) \in Seq(Event) /\ events \o Say(pending) # <<>>
      BY <1>open, <2>1, <2>2
    <2> QED
      BY <1>open, <1>emit, <2>1, <2>2, <2>3, ConcatStartsNoCall DEF OpenTurn
  <1>call. ASSUME CallModel, pc \notin {"tools", "failing"}
           PROVE  PendingShape'
    BY <1>call DEF CallModel, PendingShape, agentState
  <1>poll. ASSUME PollQueues, pendingToolCalls = {}
           PROVE  PendingShape'
    <2>1. PICK m \in QueueModes, n \in QueueModes : PollQueues!(m, n)
      BY <1>poll DEF PollQueues
    <2>2. Drained(steering, m) \in Seq(Message) /\ _followup(n) \in Seq(Message)
      BY <1>types, DrainTyped DEF _followup
    <2>3. CASE Emit(<<Bare("agent_end")>>, "ending")
      <3>1. Bare("agent_end") \in Event /\ Bare("agent_end").type = "agent_end"
        <4>1. Bare("agent_end") \in Event
          BY EventsTyped DEF EventTypes
        <4> QED
          BY <4>1 DEF Bare
      <3>2. <<Bare("agent_end")>> \in Seq(Event) /\ <<Bare("agent_end")>> # <<>> /\ NoCallStarts(<<Bare("agent_end")>>)
        BY <3>1 DEF NoCallStarts
      <3> QED
        BY <1>poll, <1>emit, <2>3, <3>2
    <2>4. <<Bare("turn_start")>> # <<>>
      OBVIOUS
    <2> QED
      BY <1>poll, <1>stop, <1>open, <2>1, <2>2, <2>3, <2>4
  <1>finish. ASSUME _finish_run
             PROVE  PendingShape'
    BY <1>finish, <1>none DEF _finish_run, PendingShape
  <1>start. ASSUME NEW prompts \in Seq(Message), NEW b, _run_with_lifecycle(prompts, b), Idle
            PROVE  PendingShape'
    <2>1. <<Bare("turn_start")>> \in Seq(Event)
      BY EventsTyped DEF EventTypes
    <2>2. NoCallStarts(<<Bare("turn_start")>>)
      BY DEF NoCallStarts, Bare
    <2>3. NoCallStarts(out')
      BY <1>start, <2>1, <2>2, SayTyped, SayStartsNoCall, ConcatStartsNoCall DEF _run_with_lifecycle
    <2> QED
      BY <1>start, <2>3 DEF _run_with_lifecycle, PendingShape, Idle
  <1>1. CASE EmitNext
    <2>1. /\ NoCallStarts(out') /\ pendingToolCalls' \subseteq pendingToolCalls
          /\ pc' = pc /\ answered' = answered
      BY <1>1, <1>types, <1>emits DEF EmitNext, PendingShape, locals
    <2>2. CASE pendingToolCalls = {} \/ pc \notin {"tools"}
      BY <2>1, <2>2 DEF PendingShape
    <2>3. CASE pc = "tools" /\ pendingToolCalls # {}
      <3>1. pendingToolCalls = {answered} /\ Head(out) = About("tool_execution_end", ToolResult(answered))
        BY <2>3 DEF PendingShape
      <3>2. Head(out).type = "tool_execution_end" /\ Head(out).msg.id = answered
        BY <3>1 DEF About, ToolResult
      <3>3. pendingToolCalls' = {}
        BY <1>1, <3>1, <3>2 DEF EmitNext, Emit, _process_events
      <3> QED
        BY <2>1, <2>3, <3>3 DEF PendingShape
    <2> QED
      BY <2>2, <2>3
  <1>2. CASE BeginLoop
    <2>1. PICK m \in QueueModes :
            LET pending == IF skip THEN <<>> ELSE Drained(steering, m)
            IN  \/ _stop_if_aborted(pending)
                \/ pending # <<>> /\ OpenTurn(<<>>, pending)
                \/ CallModel
      BY <1>2 DEF BeginLoop
    <2>2. (IF skip THEN <<>> ELSE Drained(steering, m)) \in Seq(Message)
      BY <1>types, DrainTyped
    <2>3. pc = "opening" /\ pendingToolCalls = {}
      BY <1>2 DEF BeginLoop, Resumes, PendingShape
    <2> QED
      BY <1>stop, <1>open, <1>call, <2>1, <2>2, <2>3
  <1>3. CASE StartRequest
    <2>1. pc = "turn" /\ pendingToolCalls = {}
      BY <1>3 DEF StartRequest, Resumes, PendingShape
    <2> QED
      BY <1>3, <1>stop, <1>call, <2>1 DEF StartRequest
  <1>4. CASE StreamStart
    <2>1. UNCHANGED <<pc, out, pendingToolCalls>> /\ pc = "request"
      BY <1>4 DEF StreamStart, _process_events, About
    <2> QED
      BY <2>1 DEF PendingShape
  <1>5. CASE StreamUpdate \/ abort \/ steer \/ followUp \/ clearSteeringQueue \/ clearFollowUpQueue \/ UNCHANGED vars
    <2>1. UNCHANGED <<pc, out, pendingToolCalls, answered>>
      BY <1>5
         DEF StreamUpdate, abort, steer, followUp, clearSteeringQueue, clearFollowUpQueue, vars, agentState, locals
    <2> QED
      BY <2>1 DEF PendingShape
  <1>6. CASE reset
    <2>1. UNCHANGED <<pc, out, answered>> /\ pendingToolCalls' = {}
      BY <1>6 DEF reset, locals
    <2> QED
      BY <2>1 DEF PendingShape
  <1>7. CASE CallPrepareNextTurn \/ SendRequest
    BY <1>7 DEF CallPrepareNextTurn, SendRequest, Resumes, PendingShape, agentState
  <1>8. CASE StreamDone
    <2>1. PICK kind \in {"assistant", "error"}, c \in 0..MaxCalls :
            Emit(IF added THEN <<About("message_end", Assistant(kind, c))>>
                 ELSE Say(<<Assistant(kind, c)>>), "answer")
      BY <1>8 DEF StreamDone
    <2>2. Assistant(kind, c) \in Message
      <3>1. kind \in Kinds
        BY DEF Kinds
      <3>2. c \in Nat
        BY Bounds DEF Bounds
      <3> QED
        BY <3>1, <3>2, MessagesTyped
    <2>3. pendingToolCalls = {}
      BY <1>8 DEF StreamDone, PendingShape
    <2> QED
      BY <1>emit, <2>1, <2>2, <2>3, MessageEvents
  <1>9. CASE Answer
    <2>1. Last(context) \in Message /\ pendingToolCalls = {}
      BY <1>9, LastTyped DEF Answer, Resumes, RunShape, PendingShape
    <2>2. CASE Emit(<<About("turn_end", Last(context)), Bare("agent_end")>>, "ending")
      BY <1>emit, <2>1, <2>2, MessageEvents
    <2>3. CASE Emit(<<About("turn_end", Last(context))>>, "turnEnd")
      BY <1>emit, <2>1, <2>3, MessageEvents
    <2>4. CASE \E m \in {"sequential", "parallel"} : Emit(CallEvents(1, m), "tools") /\ answered' = 1
      BY <2>1, <2>4, CallShape
    <2> QED
      BY <1>9, <2>2, <2>3, <2>4 DEF Answer
  <1>10. CASE NextCall
    <2>1. pendingToolCalls = {} /\ answered + 1 \in Nat
      BY <1>10, <1>types DEF NextCall, Resumes, PendingShape
    <2> QED
      BY <1>10, <2>1, CallShape DEF NextCall
  <1>11. CASE CollectResults
    <2>1. Say(Results(answered)) \in Seq(Event) /\ NoCallStarts(Say(Results(answered)))
      BY <1>types, ResultsTyped, SayTyped, SayStartsNoCall
    <2>2. Say(Results(answered)) # <<>>
      <3>1. Len(Say(Results(answered))) = answered /\ answered > 0
        BY <1>11, <1>types, ResultsTyped, SayTyped DEF CollectResults, Resumes, RunShape
      <3> QED
        BY <2>1, <3>1
    <2>3. pendingToolCalls = {}
      BY <1>11 DEF CollectResults, Resumes, PendingShape
    <2> QED
      BY <1>11, <1>emit, <2>1, <2>2, <2>3 DEF CollectResults
  <1>12. CASE EndBatch
    <2>1. Last(context) \in Message
      BY <1>12, LastTyped DEF EndBatch, Resumes, RunShape
    <2>2. pendingToolCalls = {}
      BY <1>12 DEF EndBatch, Resumes, PendingShape
    <2> QED
      BY <1>12, <1>emit, <2>1, <2>2, MessageEvents DEF EndBatch
  <1>13. CASE EndTurn
    <2>1. pendingToolCalls = {}
      BY <1>13 DEF EndTurn, Resumes, PendingShape
    <2> QED
      BY <1>13, <1>stop, <1>poll, <2>1 DEF EndTurn
  <1>14. CASE PrepareNextTurnReturns
    BY <1>14, <1>poll DEF PrepareNextTurnReturns, PendingShape
  <1>15. CASE Finish \/ RunEscapes
    BY <1>15, <1>finish DEF Finish, RunEscapes
  <1>16. CASE RunRaises
    <2>1. Assistant("failure", 0) \in Message
      BY MessagesTyped DEF Kinds
    <2> QED
      BY <1>16, <1>emit, <2>1, MessageEvents DEF RunRaises
  <1>17. CASE prompt
    <2>1. PICK k \in 1..MaxBatch :
            _run_with_lifecycle([i \in 1..k |-> User("prompt", nextId + i - 1)], FALSE)
      BY <1>17 DEF prompt
    <2>2. [i \in 1..k |-> User("prompt", nextId + i - 1)] \in Seq(Message)
      <3>1. k \in Nat /\ \A i \in 1..k : nextId + i - 1 \in Nat
        BY <2>1, Bounds DEF TypeOK, HistoryType
      <3>2. \A i \in 1..k : User("prompt", nextId + i - 1) \in Message
        BY <3>1, MessagesTyped DEF Kinds, UserKinds
      <3> QED
        BY <3>1, <3>2
    <2> QED
      BY <1>17, <1>start, <2>1, <2>2 DEF prompt
  <1>18. CASE continue_
    <2>1. <<>> \in Seq(Message)
      OBVIOUS
    <2> QED
      BY <1>18, <1>types, <1>start, <2>1, DrainTyped DEF continue_
  <1> QED
    BY <1>1, <1>2, <1>3, <1>4, <1>5, <1>6, <1>7, <1>8, <1>9, <1>10, <1>11, <1>12, <1>13, <1>14,
       <1>15, <1>16, <1>17, <1>18 DEF Next, RunStep, Environment, Caller

\* pendingToolCalls names the call under way and nothing else, through aborts, failures and
\* resets in the middle of a batch (_process_events and the two batch executors).
THEOREM PendingToolCallsInvariant == Spec => []PendingToolCallsTracked
  <1>1. Init => PendingShape
    BY DEF Init, PendingShape, NoCallStarts
  <1>2. PendingShape => PendingToolCallsTracked
    BY DEF PendingShape, PendingToolCallsTracked
  <1> QED
    BY <1>1, <1>2, NextPending, TypeInvariant, PTL DEF Spec

-----------------------------------------------------------------------------
(* Nothing is left unanswered.  AnsweredAtEnd looks at the transcript once *)
(* the last event is out; before that, what the run still has to emit      *)
(* decides.  So the invariant speaks of both, from the response on.        *)

IsMessageEvent(e) == e.type \in {"message_start", "message_end"}

Answered(ms) == ms = <<>> \/ Last(ms).kind \in Closing

\* With evs emitted, the transcript ms will end with a report that stands for an answer.
Settles(evs, ms) ==
  /\ \A i \in DOMAIN evs : IsMessageEvent(evs[i]) => evs[i].msg.kind \in Closing
  /\ (\A i \in DOMAIN evs : ~IsMessageEvent(evs[i])) => Answered(ms)

AnswerShape ==
  /\ pc \in {"answer", "ending", "failing"} => Settles(out, messages)
  /\ pc \in {"turnEnd", "prepare"} /\ answered = 0 => Settles(out, messages)
  /\ pc = "results" => answered > 0

\* Emitting the first of the events keeps what the rest and the transcript promise.
LEMMA EmitSettles ==
  ASSUME messages \in Seq(Message), NEW evs \in Seq(Event), evs # <<>>,
         Settles(evs, messages), NEW next, Emit(evs, next)
  PROVE  Settles(out', messages')
  <1>1. /\ Head(evs) = evs[1] /\ 1 \in DOMAIN evs /\ evs[1] \in Event
        /\ Tail(evs) \in Seq(Event)
        /\ \A i \in DOMAIN Tail(evs) : i + 1 \in DOMAIN evs /\ Tail(evs)[i] = evs[i + 1]
        /\ \A i \in DOMAIN evs : i # 1 => i - 1 \in DOMAIN Tail(evs) /\ Tail(evs)[i - 1] = evs[i]
    OBVIOUS
  <1>2. evs[1].msg \in Message
    BY <1>1 DEF Event
  <1>3. \A i \in DOMAIN Tail(evs) : IsMessageEvent(Tail(evs)[i]) => Tail(evs)[i].msg.kind \in Closing
    BY <1>1 DEF Settles
  <1>4. CASE evs[1].type = "message_start"
    <2> DEFINE e == About("message_end", evs[1].msg)
    <2>1. e \in Event /\ IsMessageEvent(e) /\ e.msg.kind \in Closing
      <3>1. e \in Event
        BY <1>2, EventsTyped DEF EventTypes
      <3>2. evs[1].msg.kind \in Closing
        BY <1>1, <1>4 DEF Settles, IsMessageEvent
      <3> QED
        BY <3>1, <3>2 DEF About, IsMessageEvent
    <2>2. out' = <<e>> \o Tail(evs)
      BY <1>1, <1>4 DEF Emit, AfterHead
    <2> HIDE DEF e
    <2>3. /\ 1 \in DOMAIN out' /\ out'[1] = e
          /\ \A i \in DOMAIN out' : i # 1 => i - 1 \in DOMAIN Tail(evs) /\ out'[i] = Tail(evs)[i - 1]
      BY <1>1, <2>1, <2>2
    <2> QED
      BY <1>3, <2>1, <2>3 DEF Settles
  <1>5. CASE evs[1].type = "message_end"
    <2>1. out' = Tail(evs) /\ messages' = Append(messages, evs[1].msg)
      BY <1>1, <1>5 DEF Emit, AfterHead, _process_events
    <2>2. evs[1].msg.kind \in Closing
      BY <1>1, <1>5 DEF Settles, IsMessageEvent
    <2>3. Last(messages') = evs[1].msg
      BY <1>2, <2>1 DEF Last
    <2> QED
      BY <1>3, <2>1, <2>2, <2>3 DEF Settles, Answered
  <1>6. CASE ~IsMessageEvent(evs[1])
    <2>1. out' = Tail(evs) /\ messages' = messages
      BY <1>1, <1>6 DEF Emit, AfterHead, _process_events, IsMessageEvent
    <2>2. (\A i \in DOMAIN Tail(evs) : ~IsMessageEvent(Tail(evs)[i])) => \A i \in DOMAIN evs : ~IsMessageEvent(evs[i])
      BY <1>1, <1>6
    <2> QED
      BY <1>3, <2>1, <2>2 DEF Settles
  <1> QED
    BY <1>4, <1>5, <1>6 DEF IsMessageEvent

\* The events that put a report into the transcript settle any transcript.
LEMMA ReportSettles ==
  ASSUME NEW m \in Message, m.kind \in Closing,
         NEW evs \in {<<About("message_end", m)>>, Say(<<m>>),
                      Say(<<m>>) \o <<About("turn_end", m), Bare("agent_end")>>},
         NEW ms
  PROVE  Settles(evs, ms)
  <1> DEFINE said == Say(<<m>>)
             tail == <<About("turn_end", m), Bare("agent_end")>>
  <1>1. /\ IsMessageEvent(About("message_end", m)) /\ IsMessageEvent(About("message_start", m))
        /\ ~IsMessageEvent(About("turn_end", m)) /\ ~IsMessageEvent(Bare("agent_end"))
        /\ About("message_end", m).msg = m /\ About("message_start", m).msg = m
    BY DEF IsMessageEvent, About, Bare
  <1>2. said \in Seq(Event) /\ Len(said) = 1 /\ said[1] = About("message_start", m)
    <2>1. <<m>> \in Seq(Message) /\ Len(<<m>>) = 1 /\ <<m>>[1] = m
      OBVIOUS
    <2> QED
      BY <2>1, SayTyped
  <1>3. tail \in Seq(Event) /\ Len(tail) = 2 /\ \A i \in DOMAIN tail : ~IsMessageEvent(tail[i])
    <2>1. About("turn_end", m) \in Event /\ Bare("agent_end") \in Event
      BY EventsTyped DEF EventTypes
    <2> QED
      BY <1>1, <2>1
  <1>4. Settles(<<About("message_end", m)>>, ms)
    BY <1>1 DEF Settles
  <1> HIDE DEF said, tail
  <1>5. Settles(said, ms)
    <2>1. DOMAIN said = {1}
      BY <1>2
    <2> QED
      BY <1>1, <1>2, <2>1 DEF Settles
  <1>6. Settles(said \o tail, ms)
    <2> DEFINE both == said \o tail
    <2>5. \A s, t \in Seq(Event) :
            /\ s \o t \in Seq(Event) /\ Len(s \o t) = Len(s) + Len(t)
            /\ \A i \in DOMAIN s : (s \o t)[i] = s[i]
            /\ \A i \in DOMAIN (s \o t) :
                 i > Len(s) => i - Len(s) \in DOMAIN t /\ (s \o t)[i] = t[i - Len(s)]
      OBVIOUS
    <2>3. /\ both \in Seq(Event) /\ Len(both) = Len(said) + Len(tail)
          /\ \A i \in DOMAIN said : both[i] = said[i]
          /\ \A i \in DOMAIN both : i > Len(said) => i - Len(said) \in DOMAIN tail /\ both[i] = tail[i - Len(said)]
      BY <1>2, <1>3, <2>5, Zenon
    <2> HIDE DEF both
    <2>1. /\ DOMAIN both = 1..3 /\ both[1] = said[1]
          /\ \A i \in 2..3 : i - 1 \in DOMAIN tail /\ both[i] = tail[i - 1]
      BY <1>2, <1>3, <2>3
    <2>2. \A i \in DOMAIN both : IsMessageEvent(both[i]) => both[i].msg.kind \in Closing
      BY <1>1, <1>2, <1>3, <2>1
    <2>4. Settles(both, ms)
      BY <1>1, <1>2, <2>1, <2>2 DEF Settles
    <2> QED
      BY <2>4 DEF both
  <1> QED
    BY <1>4, <1>5, <1>6 DEF said, tail

\* Events about no message keep a settled transcript settled.
LEMMA QuietSettles ==
  ASSUME NEW m, NEW evs \in {<<>>, <<About("turn_end", m)>>, <<Bare("agent_end")>>,
                             <<About("turn_end", m), Bare("agent_end")>>},
         NEW ms, Answered(ms)
  PROVE  Settles(evs, ms)
  <1>1. ~IsMessageEvent(About("turn_end", m)) /\ ~IsMessageEvent(Bare("agent_end"))
    BY DEF IsMessageEvent, About, Bare
  <1> QED
    BY <1>1 DEF Settles

\* Every step keeps it.
LEMMA NextAnswers == TypeOK /\ RunShape /\ AnswerShape /\ [Next]_vars => AnswerShape'
  <1> SUFFICES ASSUME TypeOK, RunShape, AnswerShape, [Next]_vars
               PROVE  AnswerShape'
    OBVIOUS
  <1>types. messages \in Seq(Message) /\ out \in Seq(Event) /\ context \in Seq(Message) /\ answered \in Nat
    BY DEF TypeOK, AgentStateType, RunType, LocalType
  <1>away. ASSUME pc' \in {"idle", "opening", "turn", "convert", "request", "tools"} PROVE AnswerShape'
    BY <1>away DEF AnswerShape
  <1>settled. ASSUME Settles(out', messages'), pc' # "results" PROVE AnswerShape'
    BY <1>settled DEF AnswerShape
  <1>quiet. ASSUME Settles(<<>>, messages) PROVE Answered(messages)
    BY <1>quiet DEF Settles
  <1>report. ASSUME NEW kind \in {"aborted", "failure"}, NEW next, next # "results",
                    Emit(Say(<<Assistant(kind, 0)>>)
                           \o <<About("turn_end", Assistant(kind, 0)), Bare("agent_end")>>, next)
             PROVE  AnswerShape'
    <2> DEFINE m == Assistant(kind, 0)
               evs == Say(<<m>>) \o <<About("turn_end", m), Bare("agent_end")>>
    <2>1. m \in Message /\ m.kind \in Closing
      BY MessagesTyped DEF Kinds, Assistant, Closing
    <2>2. evs \in Seq(Event) /\ evs # <<>>
      BY ReportTyped DEF Kinds
    <2>3. Settles(evs, messages)
      <3> HIDE DEF m
      <3> QED
        BY <2>1, ReportSettles
    <2>4. Emit(evs, next) /\ pc' = next
      BY <1>report DEF Emit
    <2> HIDE DEF evs
    <2> QED
      BY <1>report, <1>settled, <1>types, <2>2, <2>3, <2>4, EmitSettles
  <1>stop. ASSUME NEW lost, _stop_if_aborted(lost) PROVE AnswerShape'
    BY <1>stop, <1>report DEF _stop_if_aborted
  <1>poll. ASSUME PollQueues, pc \in {"turnEnd", "prepare"}, out = <<>> PROVE AnswerShape'
    <2>1. PICK m \in QueueModes, n \in QueueModes : PollQueues!(m, n)
      BY <1>poll DEF PollQueues
    <2>2. CASE ~(answered > 0) /\ Emit(<<Bare("agent_end")>>, "ending")
      <3>1. Answered(messages)
        BY <1>poll, <1>quiet, <1>types, <2>2 DEF AnswerShape
      <3>2. Settles(<<Bare("agent_end")>>, messages)
        BY <3>1, QuietSettles
      <3>3. <<Bare("agent_end")>> \in Seq(Event) /\ <<Bare("agent_end")>> # <<>>
        BY EventsTyped DEF EventTypes
      <3>4. pc' = "ending"
        BY <2>2 DEF Emit
      <3> QED
        BY <1>settled, <1>types, <2>2, <3>2, <3>3, <3>4, EmitSettles
    <2>3. CASE \E evs, pending : OpenTurn(evs, pending)
      BY <1>away, <2>3 DEF OpenTurn, Emit
    <2> QED
      BY <1>stop, <2>1, <2>2, <2>3
  <1>1. CASE EmitNext
    <2>1. out # <<>> /\ Emit(out, pc) /\ UNCHANGED answered /\ pc' = pc
      BY <1>1 DEF EmitNext, Emit, locals
    <2>2. Settles(out, messages) => Settles(out', messages')
      BY <1>types, <2>1, EmitSettles
    <2> QED
      BY <2>1, <2>2 DEF AnswerShape
  <1>2. CASE BeginLoop \/ StartRequest
    BY <1>2, <1>stop, <1>away DEF BeginLoop, StartRequest, OpenTurn, CallModel, Emit
  <1>3. CASE SendRequest \/ StreamStart \/ StreamUpdate
    <2>1. pc' = "request"
      BY <1>3 DEF SendRequest, StreamStart, StreamUpdate, RunShape, AnswerShape
    <2> QED
      BY <1>away, <2>1
  <1>4. CASE CallPrepareNextTurn
    BY <1>4 DEF CallPrepareNextTurn, Resumes, AnswerShape, agentState, locals
  <1>5. CASE StreamDone
    <2>1. PICK kind \in {"assistant", "error"}, c \in 0..MaxCalls :
            Emit(IF added THEN <<About("message_end", Assistant(kind, c))>>
                 ELSE Say(<<Assistant(kind, c)>>), "answer")
      BY <1>5 DEF StreamDone
    <2> DEFINE m == Assistant(kind, c)
               evs == IF added THEN <<About("message_end", m)>> ELSE Say(<<m>>)
    <2>2. m \in Message /\ m.kind \in Closing
      BY <2>1, Bounds, MessagesTyped DEF Kinds, Assistant, Closing
    <2>3. Emit(evs, "answer") /\ pc' = "answer"
      BY <2>1 DEF Emit
    <2> HIDE DEF m
    <2>4. evs \in Seq(Event) /\ evs # <<>> /\ Settles(evs, messages)
      <3>1. CASE added
        BY <2>2, <3>1, MessageEvents, ReportSettles
      <3>2. CASE ~added
        BY <2>2, <3>2, MessageEvents, ReportSettles
      <3> QED
        BY <3>1, <3>2
    <2> HIDE DEF evs
    <2> QED
      BY <1>settled, <1>types, <2>3, <2>4, EmitSettles
  <1>6. CASE Answer
    <2>1. Last(context) \in Message /\ Answered(messages)
      BY <1>6, <1>quiet, LastTyped DEF Answer, Resumes, RunShape, AnswerShape
    <2>2. ASSUME NEW evs \in {<<About("turn_end", Last(context))>>,
                              <<About("turn_end", Last(context)), Bare("agent_end")>>},
                 NEW next \in {"ending", "turnEnd"}, Emit(evs, next)
          PROVE  AnswerShape'
      <3>1. evs \in Seq(Event) /\ evs # <<>>
        BY <2>1, <2>2, MessageEvents
      <3>2. Settles(evs, messages)
        BY <2>1, <2>2, QuietSettles
      <3>3. pc' # "results"
        BY <2>2 DEF Emit
      <3> QED
        BY <1>settled, <1>types, <2>2, <3>1, <3>2, <3>3, EmitSettles
    <2>3. CASE \E m \in {"sequential", "parallel"} : Emit(CallEvents(1, m), "tools")
      BY <1>away, <2>3 DEF Emit
    <2> QED
      BY <1>6, <2>2, <2>3 DEF Answer
  <1>7. CASE NextCall
    BY <1>7, <1>away DEF NextCall, Emit
  <1>8. CASE CollectResults
    BY <1>8 DEF CollectResults, Resumes, Emit, RunShape, AnswerShape, locals
  <1>9. CASE EndBatch
    <2>1. answered > 0 /\ answered' = answered /\ pc' = "turnEnd"
      BY <1>9 DEF EndBatch, Resumes, Emit, RunShape, AnswerShape
    <2> QED
      BY <1>types, <2>1 DEF AnswerShape
  <1>10. CASE EndTurn
    BY <1>10, <1>stop, <1>poll DEF EndTurn, Resumes
  <1>11. CASE PrepareNextTurnReturns
    BY <1>11, <1>poll DEF PrepareNextTurnReturns, RunShape
  <1>12. CASE Finish \/ RunEscapes
    BY <1>12, <1>away DEF Finish, RunEscapes, _finish_run
  <1>13. CASE RunRaises
    BY <1>13, <1>report DEF RunRaises
  <1>14. CASE prompt \/ continue_
    BY <1>14, <1>away DEF prompt, continue_, _run_with_lifecycle
  <1>15. CASE steer \/ followUp \/ clearSteeringQueue \/ clearFollowUpQueue \/ abort \/ UNCHANGED vars
    BY <1>15 DEF steer, followUp, clearSteeringQueue, clearFollowUpQueue, abort, vars, agentState, locals, AnswerShape
  <1>16. CASE reset
    <2>1. messages' = <<>> /\ UNCHANGED <<pc, out, answered>>
      BY <1>16 DEF reset, locals
    <2>2. Settles(out, messages) => Settles(out', messages')
      BY <2>1 DEF Settles, Answered
    <2> QED
      BY <2>1, <2>2 DEF AnswerShape
  <1> QED
    BY <1>1, <1>2, <1>3, <1>4, <1>5, <1>6, <1>7, <1>8, <1>9, <1>10, <1>11, <1>12, <1>13, <1>14,
       <1>15, <1>16 DEF Next, RunStep, Environment, Caller

\* However a run ends, its transcript does not end with a message or a tool result that the
\* model was not asked about (the conditions of the two loops of _run_loop).
THEOREM AnsweredAtEndInvariant == Spec => []AnsweredAtEnd
  <1>1. Init => AnswerShape
    BY DEF Init, AnswerShape
  <1>2. AnswerShape => AnsweredAtEnd
    BY DEF AnswerShape, AnsweredAtEnd, Resumes, Settles, Answered
  <1> QED
    BY <1>1, <1>2, NextAnswers, TypeInvariant, PTL DEF Spec
=============================================================================
