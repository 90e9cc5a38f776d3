------------------------- MODULE AgentHarnessProofs -------------------------
(***************************************************************************)
(* Theorems about AgentHarness, for any number of calls, writes, messages, *)
(* aborts and exceptions.                                                  *)
(***************************************************************************)
EXTENDS AgentHarness, TLAPS

\* Where a call may be, and what it may do after a flush.
Places == {"none", "createState", "announce", "beforeStart", "loop", "polled",
           "writing", "tail", "compaction", "branch_summary", "returned", "raised"}
Thens == {"loop", "ended", "returned", "raised"}

-----------------------------------------------------------------------------
(* Flushes *)

\* Where a call is after the flush, and what happens to phase and controller.
LEMMA ContinueStep ==
  ASSUME CallType, NEW c \in Calls, NEW what \in Thens, Continue(c, what)
  PROVE  /\ pc' \in [Calls -> Places]
         /\ \A d \in Calls \ {c} : pc'[d] = pc[d]
         /\ write' = [write EXCEPT ![c] = 0]
         /\ phase' \in {phase, "idle"}
         /\ \/ what = "loop" /\ pc'[c] = "loop" /\ controller' = controller
            \/ what = "ended" /\ pc'[c] = "tail" /\ controller' = controller
            \/ what \in Over /\ pc'[c] = what /\ controller' = 0
<1>1. CASE what = "loop"
  BY <1>1 DEF Continue, CallType, Places, Over
<1>2. CASE what = "ended"
  BY <1>2 DEF Continue, CallType, Places, Over
<1>3. CASE what \in Over
  BY <1>3 DEF Continue, CallType, Places, Over
<1> QED
  BY <1>1, <1>2, <1>3 DEF Thens, Over

\* The same for a flush that may have writes ws to make.
LEMMA FlushStep ==
  ASSUME CallType, NEW c \in Calls, NEW ws, NEW what \in Thens, Flush(c, ws, what)
  PROVE  /\ pc' \in [Calls -> Places]
         /\ then' \in [Calls -> Thens]
         /\ \A d \in Calls \ {c} : pc'[d] = pc[d] /\ then'[d] = then[d]
         /\ then'[c] = what
         /\ write' = [write EXCEPT ![c] = IF ws = <<>> THEN 0 ELSE Head(ws)]
         /\ phase' \in {phase, "idle"}
         /\ \/ ws # <<>> /\ pc'[c] = "writing" /\ controller' = controller
            \/ ws = <<>> /\ what = "loop" /\ pc'[c] = "loop" /\ controller' = controller
            \/ ws = <<>> /\ what = "ended" /\ pc'[c] = "tail" /\ controller' = controller
            \/ ws = <<>> /\ what \in Over /\ pc'[c] = what /\ controller' = 0
<1>1. /\ then' \in [Calls -> Thens]
      /\ \A d \in Calls \ {c} : then'[d] = then[d]
      /\ then'[c] = what
  BY DEF Flush, CallType, Thens
<1>2. CASE ws = <<>>
  BY <1>1, <1>2, ContinueStep DEF Flush
<1>3. CASE ws # <<>>
  BY <1>1, <1>3 DEF Flush, CallType, Places
<1> QED
  BY <1>2, <1>3

\* Where a call is after an exception inside the loop.
LEMMA UnwindStep ==
  ASSUME CallType, NEW c \in Calls, Unwind(c)
  PROVE  /\ pc' \in [Calls -> Places]
         /\ then' \in [Calls -> Thens]
         /\ \A d \in Calls \ {c} : pc'[d] = pc[d] /\ then'[d] = then[d]
         /\ then'[c] \in {"ended", "raised"}
         /\ write' = [write EXCEPT ![c] = IF pending = <<>> THEN 0 ELSE Head(pending)]
         /\ phase' \in {phase, "idle"}
         /\ \/ pending # <<>> /\ pc'[c] = "writing" /\ controller' = controller
            \/ pending = <<>> /\ pc'[c] = "tail" /\ controller' = controller
            \/ pending = <<>> /\ pc'[c] = "raised" /\ controller' = 0
<1>1. "ended" \in Thens /\ "raised" \in Thens
  BY DEF Thens
<1>2. CASE Flush(c, pending, "ended")
  BY <1>1, <1>2, FlushStep DEF Over
<1>3. CASE Flush(c, pending, "raised")
  BY <1>1, <1>3, FlushStep DEF Over
<1> QED
  BY <1>2, <1>3 DEF Unwind

\* The same for one inside a flush.
LEMMA FlushRaisesStep ==
  ASSUME CallType, NEW c \in Calls, FlushRaises(c)
  PROVE  /\ pc' \in [Calls -> Places]
         /\ then' \in [Calls -> Thens]
         /\ \A d \in Calls \ {c} : pc'[d] = pc[d] /\ then'[d] = then[d]
         /\ write' \in {[write EXCEPT ![c] = 0],
                       [write EXCEPT ![c] = IF pending = <<>> THEN 0 ELSE Head(pending)]}
         /\ phase' \in {phase, "idle"}
         /\ \/ /\ pending # <<>> /\ pc'[c] = "writing" /\ write'[c] = Head(pending)
               /\ controller' = controller /\ then[c] \in {"loop", "ended"}
            \/ /\ pending = <<>> /\ pc'[c] = "tail"
               /\ controller' = controller /\ then[c] \in {"loop", "ended"}
            \/ pc'[c] = "raised" /\ controller' = 0
<1>1. "raised" \in Thens /\ "raised" \in Over /\ then[c] \in Thens
  BY DEF Thens, CallType, Over
<1>2. CASE then[c] \in Over
  <2>1. Continue(c, "raised") /\ then' = then
    BY <1>2 DEF FlushRaises
  <2> QED
    BY <1>1, <2>1, ContinueStep DEF CallType, Thens
<1>3. CASE then[c] \notin Over
  <2>1. Unwind(c) /\ then[c] \in {"loop", "ended"}
    BY <1>1, <1>3 DEF FlushRaises, Thens, Over
  <2>2. pending # <<>> => write'[c] = Head(pending)
    BY <2>1, UnwindStep DEF CallType
  <2> QED
    BY <2>1, <2>2, UnwindStep
<1> QED
  BY <1>2, <1>3

\* Where a call is when the session has appended its write.
LEMMA WriteDoneStep ==
  ASSUME CallType, NEW c \in Calls, WriteDone(c)
  PROVE  /\ pc' \in [Calls -> Places]
         /\ then' \in [Calls -> Thens]
         /\ \A d \in Calls \ {c} : pc'[d] = pc[d] /\ then'[d] = then[d]
         /\ write' \in {[write EXCEPT ![c] = 0], [write EXCEPT ![c] = Head(pending')]}
         /\ pending' = <<>> => write' = [write EXCEPT ![c] = 0]
         /\ phase' \in {phase, "idle"}
         /\ \/ /\ pending' # <<>> /\ pc'[c] = "writing" /\ write'[c] = Head(pending')
               /\ controller' = controller /\ then'[c] = then[c]
            \/ /\ pending' = <<>> /\ pc'[c] \in {"loop", "tail"}
               /\ controller' = controller /\ then[c] \in {"loop", "ended"}
            \/ pc'[c] \in Over /\ controller' = 0
<1>1. then[c] \in Thens
  BY DEF CallType, Thens
<1>2. CASE pending = <<>>
  <2>1. FlushRaises(c) /\ pending' = <<>>
    BY <1>2 DEF WriteDone
  <2> QED
    BY <1>2, <2>1, FlushRaisesStep DEF Over
<1>3. CASE pending # <<>>
  <2>1. Flush(c, Tail(pending), then[c]) /\ pending' = Tail(pending)
    BY <1>3 DEF WriteDone
  <2>2. PICK ws : ws = pending'
    OBVIOUS
  <2>3. Flush(c, ws, then[c])
    BY <2>1, <2>2
  <2>4. ws # <<>> => write'[c] = Head(ws)
    BY <1>1, <2>3, FlushStep DEF CallType
  <2> QED
    BY <1>1, <2>2, <2>3, <2>4, FlushStep
<1> QED
  BY <1>2, <1>3

-----------------------------------------------------------------------------
(* What a step may do to the writes, the steering and the next-turn messages *)

\* Only these steps touch the writes.
LEMMA WriteFrame ==
  ASSUME [Next]_vars
  PROVE  \/ UNCHANGED writeVars
         \/ Write
         \/ \E w \in direct : DirectWriteDone(w) \/ DirectWriteFails(w)
         \/ \E c \in Calls : WriteDone(c)
<1> USE DEF writeVars
<1>1. ASSUME NEW c \in Calls, Progress(c) PROVE UNCHANGED writeVars \/ WriteDone(c)
  BY <1>1 DEF Progress, CreateStateDone, AnnounceDone, BeforeStartDone, PollDone, TailDone, EndWork
<1>2. ASSUME NEW c \in Calls, LoopStep(c) PROVE UNCHANGED writeVars
  BY <1>2 DEF LoopStep, Save, Poll
<1>3. ASSUME NEW c \in Calls, Failure(c) PROVE UNCHANGED writeVars
  BY <1>3 DEF Failure, CreateStateFails, AnnounceFails, BeforeStartFails, PollFails, WriteFails,
     TailFails, Cancel, PromptFails
<1>4. ASSUME NEW c \in Calls, Prompt(c) \/ AgentEnd(c) PROVE UNCHANGED writeVars
  BY <1>4 DEF Prompt, AgentEnd
<1>5. ASSUME NEW c \in Calls, NEW what, BeginWork(c, what) PROVE UNCHANGED writeVars
  BY <1>5 DEF BeginWork
<1>6. CASE steer \/ next_turn \/ abort
  BY <1>6 DEF steer, next_turn, abort
<1>7. CASE UNCHANGED vars
  BY <1>7 DEF vars
<1> QED
  BY <1>1, <1>2, <1>3, <1>4, <1>5, <1>6, <1>7 DEF Next

\* A turn that starts holds next-turn messages; one that polls holds steering messages.
Starting(c) == pc[c] \in {"announce", "beforeStart"}
Polled(c) == pc[c] = "polled"

\* Only these steps touch the steering messages, in the queue or in the hands of a poll.
LEMMA SteerFrame ==
  ASSUME CallType, [Next]_vars
  PROVE  \/ /\ UNCHANGED steerVars
            /\ \A c \in Calls : /\ Polled(c)' <=> Polled(c)
                                /\ Polled(c) => held'[c] = held[c]
         \/ steer
         \/ abort
         \/ \E c \in Calls : \/ \E mode \in {"all", "one-at-a-time"} : Poll(c, mode)
                             \/ PollDone(c)
                             \/ PollFails(c)
                             \/ Cancel(c)
<1> DEFINE Frame == /\ UNCHANGED steerVars
                    /\ \A c \in Calls : /\ Polled(c)' <=> Polled(c)
                                        /\ Polled(c) => held'[c] = held[c]
<1>1. ASSUME NEW c \in Calls, Progress(c) PROVE Frame \/ PollDone(c)
  <2>1. CASE WriteDone(c)
    <3>1. pc[c] = "writing" /\ held' = held /\ UNCHANGED <<steerVars, nextVars>>
      BY <2>1 DEF WriteDone
    <3> QED
      BY <2>1, <3>1, WriteDoneStep DEF Polled, Over
  <2>2. CASE TailDone(c)
    <3>1. Flush(c, pending, "returned") /\ "returned" \in Thens
      BY <2>2 DEF TailDone, Thens
    <3> QED
      BY <2>2, <3>1, FlushStep DEF TailDone, Polled, Over
  <2>3. CASE CreateStateDone(c) \/ AnnounceDone(c) \/ BeforeStartDone(c) \/ EndWork(c)
    BY <2>3 DEF CreateStateDone, AnnounceDone, BeforeStartDone, EndWork, Polled, CallType, Over
  <2> QED
    BY <1>1, <2>1, <2>2, <2>3 DEF Progress
<1>2. ASSUME NEW c \in Calls, Save(c) PROVE Frame
  <2>1. Flush(c, pending, "loop") /\ "loop" \in Thens
    BY <1>2 DEF Save, Thens
  <2> QED
    BY <1>2, <2>1, FlushStep DEF Save, Polled, Over
<1>3. ASSUME NEW c \in Calls, Failure(c) PROVE Frame \/ PollFails(c) \/ Cancel(c)
  <2>1. CASE WriteFails(c)
    BY <2>1, FlushRaisesStep DEF WriteFails, Polled
  <2>2. CASE TailFails(c)
    BY <2>2, UnwindStep DEF TailFails, Polled
  <2>3. CASE CreateStateFails(c) \/ AnnounceFails(c) \/ BeforeStartFails(c)
    BY <2>3 DEF CreateStateFails, AnnounceFails, BeforeStartFails, PromptFails, Polled, CallType
  <2> QED
    BY <1>3, <2>1, <2>2, <2>3 DEF Failure
<1>4. ASSUME NEW c \in Calls, Prompt(c) PROVE Frame
  BY <1>4 DEF Prompt, MayCall, Polled, CallType
<1>5. ASSUME NEW c \in Calls, NEW what \in {"compaction", "branch_summary"}, BeginWork(c, what)
      PROVE Frame
  BY <1>5 DEF BeginWork, MayCall, Polled, CallType
<1>6. ASSUME NEW c \in Calls, AgentEnd(c) PROVE Frame
  <2>1. Flush(c, pending, "ended") /\ "ended" \in Thens
    BY <1>6 DEF AgentEnd, Thens
  <2> QED
    BY <1>6, <2>1, FlushStep DEF AgentEnd, Polled, Over
<1>7. CASE Write \/ next_turn \/ \E w \in direct : DirectWriteDone(w) \/ DirectWriteFails(w)
  BY <1>7 DEF Write, next_turn, DirectWriteDone, DirectWriteFails, callVars, Polled
<1>8. CASE UNCHANGED vars
  BY <1>8 DEF vars, callVars, Polled
<1> QED
  BY <1>1, <1>2, <1>3, <1>4, <1>5, <1>6, <1>7, <1>8 DEF Next, LoopStep

\* Only these steps touch the next-turn messages, in the queue or held by a turn that starts.
LEMMA NextFrame ==
  ASSUME CallType, [Next]_vars
  PROVE  \/ /\ UNCHANGED nextVars
            /\ \A c \in Calls : /\ Starting(c)' <=> Starting(c)
                                /\ Starting(c) => held'[c] = held[c]
         \/ next_turn
         \/ \E c \in Calls : \/ CreateStateDone(c)
                             \/ BeforeStartDone(c)
                             \/ AnnounceFails(c)
                             \/ BeforeStartFails(c)
                             \/ Cancel(c)
<1> DEFINE Frame == /\ UNCHANGED nextVars
                    /\ \A c \in Calls : /\ Starting(c)' <=> Starting(c)
                                        /\ Starting(c) => held'[c] = held[c]
<1>1. ASSUME NEW c \in Calls, Progress(c) PROVE Frame \/ CreateStateDone(c) \/ BeforeStartDone(c)
  <2>1. CASE WriteDone(c)
    <3>1. pc[c] = "writing" /\ held' = held /\ UNCHANGED <<steerVars, nextVars>>
      BY <2>1 DEF WriteDone
    <3> QED
      BY <2>1, <3>1, WriteDoneStep DEF Starting, Over
  <2>2. CASE TailDone(c)
    <3>1. Flush(c, pending, "returned") /\ "returned" \in Thens
      BY <2>2 DEF TailDone, Thens
    <3> QED
      BY <2>2, <3>1, FlushStep DEF TailDone, Starting, Over
  <2>3. CASE AnnounceDone(c) \/ PollDone(c) \/ EndWork(c)
    BY <2>3 DEF AnnounceDone, PollDone, EndWork, Starting, CallType, Over
  <2> QED
    BY <1>1, <2>1, <2>2, <2>3 DEF Progress
<1>2. ASSUME NEW c \in Calls, LoopStep(c) PROVE Frame
  <2>1. CASE Save(c)
    <3>1. Flush(c, pending, "loop") /\ "loop" \in Thens
      BY <2>1 DEF Save, Thens
    <3> QED
      BY <2>1, <3>1, FlushStep DEF Save, Starting, Over
  <2>2. ASSUME NEW mode, Poll(c, mode) PROVE Frame
    BY <2>2 DEF Poll, Starting, CallType
  <2> QED
    BY <1>2, <2>1, <2>2 DEF LoopStep
<1>3. ASSUME NEW c \in Calls, Failure(c)
      PROVE Frame \/ AnnounceFails(c) \/ BeforeStartFails(c) \/ Cancel(c)
  <2>1. CASE WriteFails(c)
    BY <2>1, FlushRaisesStep DEF WriteFails, Starting
  <2>2. CASE TailFails(c)
    BY <2>2, UnwindStep DEF TailFails, Starting
  <2>3. CASE CreateStateFails(c)
    BY <2>3 DEF CreateStateFails, PromptFails, Starting, CallType, nextVars
  <2>4. CASE PollFails(c)
    <3>1. /\ Unwind(c) /\ pc[c] = "polled" /\ UNCHANGED nextVars
          /\ held' = [held EXCEPT ![c] = Nothing]
      BY <2>4 DEF PollFails
    <3>2. /\ pc'[c] \in {"writing", "tail", "raised"}
          /\ \A d \in Calls \ {c} : pc'[d] = pc[d] /\ held'[d] = held[d]
      BY <3>1, UnwindStep DEF CallType
    <3> QED
      BY <3>1, <3>2 DEF Starting
  <2> QED
    BY <1>3, <2>1, <2>2, <2>3, <2>4 DEF Failure
<1>4. ASSUME NEW c \in Calls, Prompt(c) PROVE Frame
  BY <1>4 DEF Prompt, MayCall, Starting, CallType
<1>5. ASSUME NEW c \in Calls, NEW what \in {"compaction", "branch_summary"}, BeginWork(c, what)
      PROVE Frame
  BY <1>5 DEF BeginWork, MayCall, Starting, CallType
<1>6. ASSUME NEW c \in Calls, AgentEnd(c) PROVE Frame
  <2>1. Flush(c, pending, "ended") /\ "ended" \in Thens
    BY <1>6 DEF AgentEnd, Thens
  <2> QED
    BY <1>6, <2>1, FlushStep DEF AgentEnd, Starting, Over
<1>7. CASE Write \/ steer \/ abort \/ \E w \in direct : DirectWriteDone(w) \/ DirectWriteFails(w)
  BY <1>7 DEF Write, steer, abort, DirectWriteDone, DirectWriteFails, callVars, Starting
<1>8. CASE UNCHANGED vars
  BY <1>8 DEF vars, callVars, Starting
<1> QED
  BY <1>1, <1>2, <1>3, <1>4, <1>5, <1>6, <1>7, <1>8 DEF Next

-----------------------------------------------------------------------------
(* Sequences without repetition *)

\* A sequence is one over any set that holds its elements.
LEMMA Retyped ==
  ASSUME NEW S, NEW T, NEW s \in Seq(S), \A i \in DOMAIN s : s[i] \in T
  PROVE  s \in Seq(T)
  OBVIOUS

\* What a queue is cut into: the first n elements and the others.
LEMMA SplitSets ==
  ASSUME NEW S, NEW q \in Seq(S), NEW n \in 1..Len(q)
  PROVE  LET a == SubSeq(q, 1, n)
             b == SubSeq(q, n + 1, Len(q))
         IN  /\ a \in Seq(S) /\ b \in Seq(S)
             /\ ToSet(a) \cup ToSet(b) = ToSet(q)
             /\ IsInjective(q) => /\ IsInjective(a) /\ IsInjective(b)
                                 /\ ToSet(a) \cap ToSet(b) = {}
<1> DEFINE a == SubSeq(q, 1, n)
           b == SubSeq(q, n + 1, Len(q))
<1>1. /\ a \in Seq(S) /\ Len(a) = n /\ DOMAIN a = 1..n
      /\ \A i \in 1..n : a[i] = q[i]
  OBVIOUS
<1>2. /\ b \in Seq(S) /\ Len(b) = Len(q) - n /\ DOMAIN b = 1..(Len(q) - n)
      /\ \A i \in 1..(Len(q) - n) : b[i] = q[n + i] /\ n + i \in DOMAIN q
  OBVIOUS
<1> HIDE DEF a, b
<1>3. \A i \in DOMAIN q : i \in 1..n \/ (i - n \in 1..(Len(q) - n) /\ q[i] = b[i - n])
  <2> SUFFICES ASSUME NEW i \in DOMAIN q, i \notin 1..n
               PROVE  i - n \in 1..(Len(q) - n) /\ q[i] = b[i - n]
    OBVIOUS
  <2>1. i - n \in 1..(Len(q) - n)
    OBVIOUS
  <2>2. PICK k \in 1..(Len(q) - n) : k = i - n
    BY <2>1
  <2>3. n + k = i
    BY <2>2
  <2>4. b[k] = q[n + k]
    BY <1>2
  <2> QED
    BY <2>1, <2>2, <2>3, <2>4
<1>4. ToSet(a) \cup ToSet(b) = ToSet(q)
  <2>1. ToSet(a) \subseteq ToSet(q)
    BY <1>1 DEF ToSet
  <2>2. ToSet(b) \subseteq ToSet(q)
    BY <1>2 DEF ToSet
  <2>3. ASSUME NEW x \in ToSet(q) PROVE x \in ToSet(a) \/ x \in ToSet(b)
    <3>1. PICK i \in DOMAIN q : x = q[i]
      BY <2>3 DEF ToSet
    <3>2. CASE i \in 1..n
      BY <1>1, <3>1, <3>2 DEF ToSet
    <3>3. CASE i \notin 1..n
      <4>1. PICK k \in DOMAIN b : b[k] = q[i]
        BY <1>2, <1>3, <3>3
      <4> QED
        BY <3>1, <4>1 DEF ToSet
    <3> QED
      BY <3>2, <3>3
  <2> QED
    BY <2>1, <2>2, <2>3
<1>5. ASSUME IsInjective(q)
      PROVE  IsInjective(a) /\ IsInjective(b) /\ ToSet(a) \cap ToSet(b) = {}
  <2>1. IsInjective(a)
    BY <1>1, <1>5 DEF IsInjective
  <2>2. IsInjective(b)
    <3> SUFFICES ASSUME NEW i \in DOMAIN b, NEW j \in DOMAIN b, b[i] = b[j] PROVE i = j
      BY DEF IsInjective
    <3>1. q[n + i] = q[n + j] /\ n + i \in DOMAIN q /\ n + j \in DOMAIN q
      BY <1>2
    <3>2. n + i = n + j
      BY <1>5, <3>1 DEF IsInjective
    <3> QED
      BY <1>2, <3>2
  <2>3. ASSUME NEW i \in 1..n, NEW j \in 1..(Len(q) - n), a[i] = b[j] PROVE FALSE
    <3>1. q[i] = q[n + j] /\ i \in DOMAIN q /\ n + j \in DOMAIN q /\ i # n + j
      BY <1>1, <1>2, <2>3
    <3> QED
      BY <1>5, <3>1 DEF IsInjective
  <2> QED
    BY <1>1, <1>2, <2>1, <2>2, <2>3 DEF ToSet
<1> QED
  BY <1>1, <1>2, <1>4, <1>5 DEF a, b

\* The elements of two sequences in a row.
LEMMA ConcatSets ==
  ASSUME NEW S, NEW s \in Seq(S), NEW t \in Seq(S)
  PROVE  /\ s \o t \in Seq(S)
         /\ ToSet(s \o t) = ToSet(s) \cup ToSet(t)
         /\ IsInjective(s) /\ IsInjective(t) /\ ToSet(s) \cap ToSet(t) = {} => IsInjective(s \o t)
<1> DEFINE u == s \o t
<1>1. /\ u \in Seq(S) /\ DOMAIN u = 1..(Len(s) + Len(t))
      /\ \A i \in DOMAIN s : i \in DOMAIN u /\ u[i] = s[i]
      /\ \A i \in DOMAIN t : Len(s) + i \in DOMAIN u /\ u[Len(s) + i] = t[i]
  OBVIOUS
<1>2. \A i \in DOMAIN u : \/ i \in DOMAIN s /\ u[i] = s[i]
                          \/ i - Len(s) \in DOMAIN t /\ u[i] = t[i - Len(s)] /\ i \notin DOMAIN s
  OBVIOUS
<1> HIDE DEF u
<1>3. ToSet(u) = ToSet(s) \cup ToSet(t)
  BY <1>1, <1>2 DEF ToSet
<1>4. ASSUME IsInjective(s), IsInjective(t), ToSet(s) \cap ToSet(t) = {}
      PROVE  IsInjective(u)
  <2> SUFFICES ASSUME NEW i \in DOMAIN u, NEW j \in DOMAIN u, u[i] = u[j] PROVE i = j
    BY DEF IsInjective
  <2>1. \A k \in DOMAIN s, l \in DOMAIN t : s[k] # t[l]
    BY <1>4 DEF ToSet
  <2>2. CASE i \in DOMAIN s /\ j \in DOMAIN s
    BY <1>1, <1>4, <2>2 DEF IsInjective
  <2>3. CASE i \notin DOMAIN s /\ j \notin DOMAIN s
    <3>1. i - Len(s) \in DOMAIN t /\ j - Len(s) \in DOMAIN t /\ t[i - Len(s)] = t[j - Len(s)]
      BY <1>2, <2>3
    <3>2. i - Len(s) = j - Len(s)
      BY <1>4, <3>1 DEF IsInjective
    <3> QED
      BY <1>1, <3>2
  <2> QED
    BY <1>2, <2>1, <2>2, <2>3
<1> QED
  BY <1>1, <1>3, <1>4 DEF u

-----------------------------------------------------------------------------
(* Types *)

\* What is left of the writes when one is removed.
LEMMA PendingStep ==
  ASSUME pending \in Seq(1..MaxWrites), NEW c, WriteDone(c)
  PROVE  pending' \in Seq(1..MaxWrites)
<1>1. CASE pending = <<>>
  BY <1>1 DEF WriteDone
<1>2. CASE pending # <<>>
  <2>1. Tail(pending) \in Seq(1..MaxWrites)
    BY <1>2
  <2> QED
    BY <1>2, <2>1 DEF WriteDone
<1> QED
  BY <1>1, <1>2

\* A call in a flush has a write to append.
Flushing == \A c \in Calls : pc[c] = "writing" => write[c] # 0

\* The steps that touch the writes keep their types.
LEMMA WriteTypeStep == WriteType /\ CallType /\ Flushing /\ [Next]_vars => WriteType'
<1> SUFFICES ASSUME WriteType, CallType, Flushing, [Next]_vars PROVE WriteType'
  OBVIOUS
<1> USE Bounds DEF WriteType
<1>1. CASE UNCHANGED writeVars
  BY <1>1 DEF writeVars
<1>2. CASE Write
  <2>1. issued' \in 0..MaxWrites /\ issued' = issued + 1 /\ issued' \in 1..MaxWrites
    BY <1>2 DEF Write
  <2>2. 1..issued \subseteq 1..issued' /\ issued' \in 1..issued'
    BY <2>1
  <2>3. pending' \in Seq(1..MaxWrites) /\ session' \in Seq(1..MaxWrites)
    <3>1. pending' = pending \/ pending' = Append(pending, issued')
      BY <1>2 DEF Write
    <3>2. session' = session
      BY <1>2 DEF Write
    <3>3. PICK n : n = issued'
      OBVIOUS
    <3>4. n \in 1..MaxWrites
      BY <2>1, <3>3
    <3>5. Append(pending, n) \in Seq(1..MaxWrites)
      BY <3>4
    <3> QED
      BY <3>1, <3>2, <3>3, <3>5
  <2>4. deferred' \in SUBSET (1..issued') /\ direct' \in SUBSET (1..issued')
    BY <1>2, <2>2 DEF Write
  <2>5. refused' \in SUBSET (1..issued')
    BY <1>2, <2>2 DEF Write
  <2> QED
    BY <2>1, <2>3, <2>4, <2>5
<1>3. ASSUME NEW w \in direct, DirectWriteDone(w) PROVE WriteType'
  BY <1>3 DEF DirectWriteDone
<1>4. ASSUME NEW w \in direct, DirectWriteFails(w) PROVE WriteType'
  BY <1>4 DEF DirectWriteFails
<1>5. ASSUME NEW c \in Calls, WriteDone(c) PROVE WriteType'
  <2>1. PICK w : w = write[c]
    OBVIOUS
  <2>2. w \in 1..MaxWrites
    BY <1>5, <2>1 DEF WriteDone, CallType, Flushing
  <2>3. Append(session, w) \in Seq(1..MaxWrites)
    BY <2>2
  <2>4. session' = Append(session, w) /\ UNCHANGED <<issued, deferred, direct, refused>>
    BY <1>5, <2>1 DEF WriteDone
  <2>5. pending' \in Seq(1..MaxWrites)
    BY <1>5, PendingStep
  <2> QED
    BY <2>3, <2>4, <2>5
<1> QED
  BY <1>1, <1>2, <1>3, <1>4, <1>5, WriteFrame

\* The phase, the controller and the places of the calls keep their types.
LEMMA CallTypeStep == TypeOK /\ [Next]_vars => CallType'
<1> SUFFICES ASSUME TypeOK, [Next]_vars PROVE CallType'
  OBVIOUS
<1> USE Bounds
<1>0. CallType /\ nextQueue \in Seq(Nat) /\ aborts \in 0..MaxAborts /\ steerQueue \in Seq(Nat)
  BY DEF TypeOK, NextType, SteerType
<1>w. pending \in Seq(1..MaxWrites) /\ 0 \in 0..MaxWrites /\ write \in [Calls -> 0..MaxWrites]
  BY DEF TypeOK, WriteType, CallType
<1> DEFINE Held == [msgs : Seq(Nat), mode : {"all", "one-at-a-time"}, list : 0..MaxAborts]
<1>m. 0 \in 0..MaxCalls
  OBVIOUS
<1>n. Nothing \in Held
  BY DEF Nothing
<1>h. \A s \in Seq(1..MaxWrites) : (IF s = <<>> THEN 0 ELSE Head(s)) \in 0..MaxWrites
  OBVIOUS
<1>i. \A c \in Calls, n \in 0..MaxWrites : [write EXCEPT ![c] = n] \in [Calls -> 0..MaxWrites]
  BY <1>w
<1>a. ASSUME NEW c \in Calls, NEW what \in Thens, Flush(c, pending, what),
             faults' \in 0..MaxFaults, held' \in [Calls -> Held]
      PROVE  CallType'
  <2>1. /\ pc' \in [Calls -> Places] /\ then' \in [Calls -> Thens]
        /\ phase' \in {phase, "idle"} /\ controller' \in {controller, 0}
        /\ write' = [write EXCEPT ![c] = IF pending = <<>> THEN 0 ELSE Head(pending)]
    BY <1>0, <1>a, FlushStep
  <2>2. write' \in [Calls -> 0..MaxWrites]
    BY <1>h, <1>i, <1>w, <2>1
  <2> QED
    BY <1>0, <1>a, <1>m, <2>1, <2>2 DEF CallType, Places, Thens
<1>b. ASSUME NEW c \in Calls, Unwind(c), faults' \in 0..MaxFaults, held' \in [Calls -> Held]
      PROVE  CallType'
  <2>1. /\ pc' \in [Calls -> Places] /\ then' \in [Calls -> Thens]
        /\ phase' \in {phase, "idle"} /\ controller' \in {controller, 0}
    BY <1>0, <1>b, UnwindStep
  <2>2. write' \in [Calls -> 0..MaxWrites]
    BY <1>0, <1>b, <1>h, <1>i, <1>w, UnwindStep
  <2> QED
    BY <1>0, <1>b, <1>m, <2>1, <2>2 DEF CallType, Places, Thens
<1>c. ASSUME NEW c \in Calls, NEW what \in Thens, Continue(c, what), UNCHANGED then,
             faults' \in 0..MaxFaults, held' \in [Calls -> Held]
      PROVE  CallType'
  <2>1. /\ pc' \in [Calls -> Places]
        /\ phase' \in {phase, "idle"} /\ controller' \in {controller, 0}
    BY <1>0, <1>c, ContinueStep
  <2>2. write' \in [Calls -> 0..MaxWrites]
    BY <1>0, <1>c, <1>i, <1>w, ContinueStep
  <2> QED
    BY <1>0, <1>c, <1>m, <2>1, <2>2 DEF CallType, Places
<1>d. "loop" \in Thens /\ "ended" \in Thens /\ "returned" \in Thens /\ "raised" \in Thens
  BY DEF Thens
<1>e. ASSUME NEW c \in Calls, PromptFails(c), faults' \in 0..MaxFaults PROVE CallType'
  BY <1>0, <1>n, <1>e DEF PromptFails, CallType
<1>f. faults \in 0..MaxFaults /\ held \in [Calls -> Held] /\ (Fault => faults' \in 0..MaxFaults)
  BY <1>0 DEF CallType, Fault
<1>g. \A c \in Calls : [held EXCEPT ![c] = Nothing] \in [Calls -> Held]
  BY <1>f, <1>n
<1>1. ASSUME NEW c \in Calls, Progress(c) PROVE CallType'
  <2>1. CASE CreateStateDone(c)
    <3>1. [Nothing EXCEPT !.msgs = nextQueue] \in Held
      BY <1>0, <1>n
    <3> QED
      BY <1>0, <2>1, <3>1 DEF CreateStateDone, CallType
  <2>2. CASE AnnounceDone(c) \/ EndWork(c)
    BY <1>0, <2>2 DEF AnnounceDone, EndWork, CallType, Over
  <2>3. CASE BeforeStartDone(c)
    BY <1>0, <1>n, <2>3 DEF BeforeStartDone, CallType, Calls
  <2>4. CASE PollDone(c)
    BY <1>0, <1>n, <2>4 DEF PollDone, CallType
  <2>5. CASE WriteDone(c)
    <3>1. UNCHANGED <<faults, held>>
      BY <2>5 DEF WriteDone
    <3>2. pending' \in Seq(1..MaxWrites)
      BY <1>w, <2>5, PendingStep
    <3>3. write' \in [Calls -> 0..MaxWrites]
      BY <1>0, <1>h, <1>i, <1>w, <2>5, <3>2, WriteDoneStep
    <3>4. controller' \in {controller, 0} /\ phase' \in {phase, "idle"}
          /\ pc' \in [Calls -> Places] /\ then' \in [Calls -> Thens]
      BY <1>0, <2>5, WriteDoneStep
    <3> QED
      BY <1>0, <1>f, <1>m, <3>1, <3>3, <3>4 DEF CallType, Places, Thens
  <2>6. CASE TailDone(c)
    BY <1>a, <1>d, <1>f, <2>6 DEF TailDone
  <2> QED
    BY <1>1, <2>1, <2>2, <2>3, <2>4, <2>5, <2>6 DEF Progress
<1>2. ASSUME NEW c \in Calls, LoopStep(c) PROVE CallType'
  <2>1. CASE Save(c)
    BY <1>a, <1>d, <1>f, <2>1 DEF Save
  <2>2. ASSUME NEW mode \in {"all", "one-at-a-time"}, Poll(c, mode) PROVE CallType'
    <3>1. PICK n \in {1, Len(steerQueue)} :
            held' = [held EXCEPT ![c] = [msgs |-> SubSeq(steerQueue, 1, n), mode |-> mode,
                                         list |-> aborts]]
      BY <2>2 DEF Poll
    <3>2. n \in 1..Len(steerQueue)
      BY <1>0, <2>2 DEF Poll
    <3>3. SubSeq(steerQueue, 1, n) \in Seq(Nat)
      BY <1>0, <3>2
    <3>4. held' \in [Calls -> Held]
      BY <1>0, <1>f, <3>1, <3>3
    <3> QED
      BY <1>0, <2>2, <3>4 DEF Poll, CallType
  <2> QED
    BY <1>2, <2>1, <2>2 DEF LoopStep
<1>3. ASSUME NEW c \in Calls, Failure(c) PROVE CallType'
  <2>1. CASE CreateStateFails(c) \/ AnnounceFails(c) \/ BeforeStartFails(c)
    BY <1>e, <1>f, <2>1 DEF CreateStateFails, AnnounceFails, BeforeStartFails
  <2>2. CASE PollFails(c)
    <3>1. Unwind(c) /\ Fault /\ held' = [held EXCEPT ![c] = Nothing]
      BY <2>2 DEF PollFails
    <3> QED
      BY <1>b, <1>f, <1>g, <3>1
  <2>3. CASE WriteFails(c)
    <3>1. FlushRaises(c) /\ Fault /\ held' = held
      BY <2>3 DEF WriteFails
    <3> QED
      BY <1>b, <1>c, <1>d, <1>f, <3>1 DEF FlushRaises
  <2>4. CASE TailFails(c)
    BY <1>b, <1>f, <2>4 DEF TailFails
  <2>5. CASE Cancel(c)
    <3>1. \/ PromptFails(c) /\ Fault
          \/ Continue(c, "raised") /\ UNCHANGED <<then, held>> /\ Fault
          \/ Flush(c, pending, "raised") /\ Fault /\ held' = [held EXCEPT ![c] = Nothing]
      BY <2>5 DEF Cancel
    <3> QED
      BY <1>a, <1>c, <1>d, <1>e, <1>f, <1>g, <3>1
  <2> QED
    BY <1>3, <2>1, <2>2, <2>3, <2>4, <2>5 DEF Failure
<1>4. ASSUME NEW c \in Calls, Prompt(c) PROVE CallType'
  BY <1>0, <1>4 DEF Prompt, CallType
<1>5. ASSUME NEW c \in Calls, NEW what \in {"compaction", "branch_summary"}, BeginWork(c, what)
      PROVE CallType'
  BY <1>0, <1>5 DEF BeginWork, CallType
<1>6. ASSUME NEW c \in Calls, AgentEnd(c) PROVE CallType'
  BY <1>a, <1>d, <1>f, <1>6 DEF AgentEnd
<1>7. CASE Write \/ steer \/ next_turn \/ abort \/ \E w \in direct : DirectWriteDone(w)
  BY <1>0, <1>7 DEF Write, steer, next_turn, abort, DirectWriteDone, callVars, CallType
<1>8. ASSUME NEW w \in direct, DirectWriteFails(w) PROVE CallType'
  BY <1>0, <1>8, <1>f DEF DirectWriteFails, callVars, CallType
<1>9. CASE UNCHANGED vars
  BY <1>0, <1>9 DEF vars, callVars, CallType
<1> QED
  BY <1>1, <1>2, <1>3, <1>4, <1>5, <1>6, <1>7, <1>8, <1>9 DEF Next

\* A call in a flush after a step was in it before, with the same write, or has the first
\* write now; and its write is removed by another call or by itself in taking the next.
LEMMA WriteFrameOf ==
  ASSUME CallType, [Next]_vars, NEW c \in Calls, pc'[c] = "writing"
  PROVE  \/ pending' # <<>> /\ write'[c] = Head(pending')
         \/ /\ pc[c] = "writing" /\ write'[c] = write[c]
            /\ \/ pending' = pending
               \/ Write
               \/ \E d \in Calls \ {c} : WriteDone(d)
<1> DEFINE First == pending' # <<>> /\ write'[c] = Head(pending')
           Same == pc[c] = "writing" /\ write'[c] = write[c]
<1> SUFFICES First \/ (Same /\ (pending' = pending \/ Write \/ \E d \in Calls \ {c} : WriteDone(d)))
  OBVIOUS
<1>0. /\ "loop" \in Thens /\ "ended" \in Thens /\ "returned" \in Thens /\ "raised" \in Thens
      /\ pc \in [Calls -> Places] /\ write \in [Calls -> 0..MaxWrites]
  BY DEF Thens, CallType, Places
<1>1. ASSUME NEW d \in Calls, NEW what \in Thens, Flush(d, pending, what), pending' = pending
      PROVE  First \/ Same
  <2>1. CASE d = c
    BY <1>0, <1>1, <2>1, FlushStep DEF Over
  <2>2. CASE d # c
    BY <1>0, <1>1, <2>2, FlushStep
  <2> QED
    BY <2>1, <2>2
<1>2. ASSUME NEW d \in Calls, Unwind(d), pending' = pending PROVE First \/ Same
  BY <1>0, <1>1, <1>2 DEF Unwind
<1>3. ASSUME NEW d \in Calls, Continue(d, "raised") PROVE Same
  BY <1>0, <1>3, ContinueStep DEF Over
<1>4. ASSUME NEW d \in Calls, PromptFails(d) PROVE Same
  BY <1>0, <1>4 DEF PromptFails
<1>5. ASSUME NEW d \in Calls, Progress(d)
      PROVE  First \/ (Same /\ (pending' = pending \/ (d # c /\ WriteDone(d))))
  <2>1. CASE WriteDone(d)
    <3>1. CASE d = c
      BY <1>0, <2>1, <3>1, WriteDoneStep DEF Over
    <3>2. CASE d # c
      BY <1>0, <2>1, <3>2, WriteDoneStep
    <3> QED
      BY <3>1, <3>2
  <2>2. CASE TailDone(d)
    BY <1>0, <1>1, <2>2 DEF TailDone, writeVars
  <2>3. CASE CreateStateDone(d) \/ AnnounceDone(d) \/ BeforeStartDone(d) \/ PollDone(d) \/ EndWork(d)
    BY <1>0, <2>3 DEF CreateStateDone, AnnounceDone, BeforeStartDone, PollDone, EndWork, Over, writeVars
  <2> QED
    BY <1>5, <2>1, <2>2, <2>3 DEF Progress
<1>6. ASSUME NEW d \in Calls, Failure(d) PROVE (First \/ Same) /\ pending' = pending
  <2>1. pending' = pending
    BY <1>6 DEF Failure, CreateStateFails, AnnounceFails, BeforeStartFails, PollFails, WriteFails,
       TailFails, Cancel, PromptFails, writeVars
  <2>2. \/ PromptFails(d) \/ Unwind(d) \/ Continue(d, "raised") \/ Flush(d, pending, "raised")
    BY <1>6 DEF Failure, CreateStateFails, AnnounceFails, BeforeStartFails, PollFails, WriteFails,
       FlushRaises, TailFails, Cancel
  <2> QED
    BY <1>0, <1>1, <1>2, <1>3, <1>4, <2>1, <2>2
<1>7. ASSUME NEW d \in Calls, Save(d) \/ AgentEnd(d) PROVE (First \/ Same) /\ pending' = pending
  BY <1>0, <1>1, <1>7 DEF Save, AgentEnd, writeVars
<1>8. ASSUME NEW d \in Calls, NEW mode, Poll(d, mode) PROVE Same /\ pending' = pending
  BY <1>0, <1>8 DEF Poll, writeVars
<1>9. ASSUME NEW d \in Calls, Prompt(d) \/ \E what \in {"compaction", "branch_summary"} : BeginWork(d, what)
      PROVE  Same /\ pending' = pending
  BY <1>0, <1>9 DEF Prompt, BeginWork, writeVars
<1>10. CASE Write \/ steer \/ next_turn \/ abort \/ \E w \in direct : DirectWriteDone(w) \/ DirectWriteFails(w)
  BY <1>10 DEF Write, steer, next_turn, abort, DirectWriteDone, DirectWriteFails, callVars, writeVars
<1>11. CASE UNCHANGED vars
  BY <1>11 DEF vars, callVars, writeVars
<1> QED
  BY <1>5, <1>6, <1>7, <1>8, <1>9, <1>10, <1>11 DEF Next, LoopStep

\* A flush goes on to a write only if there is one.
LEMMA FlushingStep == TypeOK /\ Flushing /\ [Next]_vars => Flushing'
<1> SUFFICES ASSUME TypeOK, Flushing, [Next]_vars, NEW c \in Calls, pc'[c] = "writing"
             PROVE  write'[c] # 0
  BY DEF Flushing
<1>1. CallType /\ pending' \in Seq(1..MaxWrites)
  BY WriteTypeStep DEF TypeOK, WriteType
<1>2. pending' # <<>> => Head(pending') # 0
  BY <1>1, Bounds
<1> QED
  BY <1>1, <1>2, WriteFrameOf DEF Flushing

-----------------------------------------------------------------------------
(* Steering messages *)

\* The messages 1..n are in one place each: Q, D, C, X, L or the hands H[c] of a call.
OnePlace(Q, D, C, X, L, H, n) ==
  /\ \A m : m \in 1..n <=> \/ m \in Q \/ m \in D \/ m \in C \/ m \in X \/ m \in L
                           \/ \E c \in Calls : m \in H[c]
  /\ \A m \in Q : m \notin D /\ m \notin C /\ m \notin X /\ m \notin L
  /\ \A m \in D : m \notin C /\ m \notin X /\ m \notin L
  /\ \A m \in C : m \notin X /\ m \notin L
  /\ \A m \in X : m \notin L
  /\ \A c \in Calls : \A m \in H[c] : /\ m \notin Q /\ m \notin D /\ m \notin C
                                      /\ m \notin X /\ m \notin L
                                      /\ \A d \in Calls \ {c} : m \notin H[d]

\* A message moves from one place to another.
LEMMA Moves ==
  ASSUME NEW Q, NEW D, NEW C, NEW X, NEW L, NEW H, NEW n \in Nat,
         OnePlace(Q, D, C, X, L, H, n), DOMAIN H = Calls, NEW c \in Calls
  PROVE  /\ OnePlace(Q \cup {n + 1}, D, C, X, L, H, n + 1)
         /\ OnePlace({}, D, C \cup Q, X, L, H, n)
         /\ \A A, B : A \cup B = Q /\ A \cap B = {} /\ H[c] = {}
                      => OnePlace(B, D, C, X, L, [H EXCEPT ![c] = A], n)
         /\ OnePlace(Q, D \cup H[c], C, X, L, [H EXCEPT ![c] = {}], n)
         /\ OnePlace(Q \cup H[c], D, C, X, L, [H EXCEPT ![c] = {}], n)
         /\ OnePlace(Q, D, C, X \cup H[c], L, [H EXCEPT ![c] = {}], n)
         /\ OnePlace(Q, D, C, X, L \cup H[c], [H EXCEPT ![c] = {}], n)
<1>1. OnePlace(Q \cup {n + 1}, D, C, X, L, H, n + 1)
  <2>1. \A m : m \in 1..(n + 1) <=> m \in 1..n \/ m = n + 1
    OBVIOUS
  <2>2. n + 1 \notin 1..n
    OBVIOUS
  <2> QED
    BY <2>1, <2>2 DEF OnePlace
<1>2. OnePlace({}, D, C \cup Q, X, L, H, n)
  BY DEF OnePlace
<1>3. ASSUME NEW A, NEW B, A \cup B = Q, A \cap B = {}, H[c] = {}
      PROVE OnePlace(B, D, C, X, L, [H EXCEPT ![c] = A], n)
  <2>1. \A d \in Calls : [H EXCEPT ![c] = A][d] = IF d = c THEN A ELSE H[d]
    OBVIOUS
  <2> QED
    BY <1>3, <2>1 DEF OnePlace
<1> DEFINE G == [H EXCEPT ![c] = {}]
<1>4. \A d \in Calls : G[d] = IF d = c THEN {} ELSE H[d]
  OBVIOUS
<1> HIDE DEF G
<1>5. OnePlace(Q, D \cup H[c], C, X, L, G, n)
  BY <1>4 DEF OnePlace
<1>6. OnePlace(Q \cup H[c], D, C, X, L, G, n)
  BY <1>4 DEF OnePlace
<1>7. OnePlace(Q, D, C, X \cup H[c], L, G, n)
  BY <1>4 DEF OnePlace
<1>8. OnePlace(Q, D, C, X, L \cup H[c], G, n)
  BY <1>4 DEF OnePlace
<1> QED
  BY <1>1, <1>2, <1>3, <1>5, <1>6, <1>7, <1>8 DEF G

\* The steering messages in the hands of each call.
Hands == [c \in Calls |-> IF Polled(c) THEN ToSet(held[c].msgs) ELSE {}]

\* Every steering message is in one place, and there once.
SteerInv ==
  /\ OnePlace(ToSet(steerQueue), ToSet(delivered), cleared, dropped, lost, Hands, steered)
  /\ IsInjective(steerQueue)
  /\ \A c \in Calls : Polled(c) => IsInjective(held[c].msgs) /\ held[c].list <= aborts
  /\ aborts = 0 => cleared = {} /\ dropped = {}

\* A call that is neither polling nor starting a turn has no messages in its hands.
EmptyHands == \A c \in Calls : ~Polled(c) /\ ~Starting(c) => held[c].msgs = <<>>

\* Every way out of a poll and of the start of a turn empties the hands.
LEMMA EmptyHandsStep == TypeOK /\ EmptyHands /\ [Next]_vars => EmptyHands'
<1> SUFFICES ASSUME TypeOK, EmptyHands, [Next]_vars, NEW d \in Calls, ~Polled(d)', ~Starting(d)'
             PROVE  held'[d].msgs = <<>>
  BY DEF EmptyHands
<1>0. CallType /\ CallType' /\ Nothing.msgs = <<>>
  BY CallTypeStep DEF TypeOK, Nothing
<1>1. CASE held' = held /\ (Polled(d) => Polled(d)') /\ (Starting(d) => Starting(d)')
  BY <1>1 DEF EmptyHands
<1>2. ASSUME NEW c \in Calls, held' = [held EXCEPT ![c] = Nothing],
             d # c => pc'[d] = pc[d]
      PROVE  held'[d].msgs = <<>>
  BY <1>0, <1>2 DEF EmptyHands, Polled, Starting, CallType
<1>3. ASSUME NEW c \in Calls, held' = held, pc[c] \notin {"polled", "announce", "beforeStart"},
             d # c => pc'[d] = pc[d]
      PROVE  held'[d].msgs = <<>>
  BY <1>3 DEF EmptyHands, Polled, Starting
<1>4. ASSUME NEW c \in Calls, Progress(c) PROVE held'[d].msgs = <<>>
  <2>1. CASE CreateStateDone(c)
    BY <1>0, <2>1 DEF CreateStateDone, EmptyHands, Polled, Starting, CallType, Nothing
  <2>2. CASE AnnounceDone(c)
    BY <1>0, <2>2 DEF AnnounceDone, EmptyHands, Polled, Starting, CallType
  <2>3. CASE BeforeStartDone(c) \/ PollDone(c)
    BY <1>0, <1>2, <2>3 DEF BeforeStartDone, PollDone, CallType
  <2>4. CASE WriteDone(c)
    <3>1. pc[c] = "writing" /\ held' = held
      BY <2>4 DEF WriteDone
    <3> QED
      BY <1>0, <1>3, <2>4, <3>1, WriteDoneStep
  <2>5. CASE TailDone(c)
    <3>1. Flush(c, pending, "returned") /\ "returned" \in Thens /\ pc[c] = "tail" /\ held' = held
      BY <2>5 DEF TailDone, Thens
    <3> QED
      BY <1>0, <1>3, <3>1, FlushStep
  <2>6. CASE EndWork(c)
    BY <1>0, <1>3, <2>6 DEF EndWork, CallType
  <2> QED
    BY <1>4, <2>1, <2>2, <2>3, <2>4, <2>5, <2>6 DEF Progress
<1>5. ASSUME NEW c \in Calls, LoopStep(c) PROVE held'[d].msgs = <<>>
  <2>1. CASE Save(c)
    <3>1. Flush(c, pending, "loop") /\ "loop" \in Thens /\ pc[c] = "loop" /\ held' = held
      BY <2>1 DEF Save, Thens
    <3> QED
      BY <1>0, <1>3, <3>1, FlushStep
  <2>2. ASSUME NEW mode, Poll(c, mode) PROVE held'[d].msgs = <<>>
    BY <1>0, <2>2 DEF Poll, EmptyHands, Polled, Starting, CallType
  <2> QED
    BY <1>5, <2>1, <2>2 DEF LoopStep
<1>6. ASSUME NEW c \in Calls, Failure(c) PROVE held'[d].msgs = <<>>
  <2>1. CASE CreateStateFails(c) \/ AnnounceFails(c) \/ BeforeStartFails(c)
    BY <1>0, <1>2, <2>1 DEF CreateStateFails, AnnounceFails, BeforeStartFails, PromptFails, CallType
  <2>2. CASE PollFails(c)
    <3>1. Unwind(c) /\ held' = [held EXCEPT ![c] = Nothing]
      BY <2>2 DEF PollFails
    <3> QED
      BY <1>0, <1>2, <3>1, UnwindStep
  <2>3. CASE WriteFails(c)
    <3>1. pc[c] = "writing" /\ held' = held /\ FlushRaises(c)
      BY <2>3 DEF WriteFails
    <3> QED
      BY <1>0, <1>3, <3>1, FlushRaisesStep
  <2>4. CASE TailFails(c)
    BY <1>0, <1>3, <2>4, UnwindStep DEF TailFails
  <2>5. CASE Cancel(c)
    <3>1. "raised" \in Thens
      BY DEF Thens
    <3>2. \/ PromptFails(c)
          \/ Continue(c, "raised") /\ held' = held /\ pc[c] = "writing"
          \/ Flush(c, pending, "raised") /\ held' = [held EXCEPT ![c] = Nothing]
      BY <2>5 DEF Cancel
    <3>3. CASE PromptFails(c)
      BY <1>0, <1>2, <3>3 DEF PromptFails, CallType
    <3>4. CASE Continue(c, "raised") /\ held' = held /\ pc[c] = "writing"
      BY <1>0, <1>3, <3>1, <3>4, ContinueStep
    <3>5. CASE Flush(c, pending, "raised") /\ held' = [held EXCEPT ![c] = Nothing]
      BY <1>0, <1>2, <3>1, <3>5, FlushStep
    <3> QED
      BY <3>2, <3>3, <3>4, <3>5
  <2> QED
    BY <1>6, <2>1, <2>2, <2>3, <2>4, <2>5 DEF Failure
<1>7. ASSUME NEW c \in Calls, Prompt(c) \/ \E what \in {"compaction", "branch_summary"} : BeginWork(c, what)
      PROVE held'[d].msgs = <<>>
  BY <1>0, <1>3, <1>7 DEF Prompt, BeginWork, MayCall, CallType
<1>8. ASSUME NEW c \in Calls, AgentEnd(c) PROVE held'[d].msgs = <<>>
  <2>1. Flush(c, pending, "ended") /\ "ended" \in Thens /\ pc[c] = "loop" /\ held' = held
    BY <1>8 DEF AgentEnd, Thens
  <2> QED
    BY <1>0, <1>3, <2>1, FlushStep
<1>9. CASE Write \/ steer \/ next_turn \/ abort \/ \E w \in direct : DirectWriteDone(w) \/ DirectWriteFails(w)
  BY <1>1, <1>9 DEF Write, steer, next_turn, abort, DirectWriteDone, DirectWriteFails, callVars,
     Polled, Starting
<1>10. CASE UNCHANGED vars
  BY <1>1, <1>10 DEF vars, callVars, Polled, Starting
<1> QED
  BY <1>4, <1>5, <1>6, <1>7, <1>8, <1>9, <1>10 DEF Next

\* The messages in the hands of call c move on.
LEMMA HandsStep ==
  ASSUME CallType, CallType', NEW c \in Calls,
         \A d \in Calls \ {c} : pc'[d] = pc[d] /\ held'[d] = held[d]
  PROVE  /\ ~Polled(c)' => Hands' = [Hands EXCEPT ![c] = {}]
         /\ Polled(c)' => Hands' = [Hands EXCEPT ![c] = ToSet(held'[c].msgs)]
  BY DEF Hands, Polled

\* Each step that touches steering messages moves them from one place to another.
LEMMA SteerStep == TypeOK /\ SteerInv /\ EmptyHands /\ [Next]_vars => SteerType' /\ SteerInv'
<1> SUFFICES ASSUME TypeOK, SteerInv, EmptyHands, [Next]_vars PROVE SteerType' /\ SteerInv'
  OBVIOUS
<1> USE Bounds
<1>0. CallType /\ CallType' /\ SteerType
  BY CallTypeStep DEF TypeOK
<1>a. steerQueue \in Seq(Nat) /\ steered \in Nat /\ DOMAIN Hands = Calls
  BY <1>0 DEF SteerType, Hands
<1>b. \A c \in Calls : /\ held[c].msgs \in Seq(Nat)
                       /\ Polled(c) => Hands[c] = ToSet(held[c].msgs)
                       /\ ~Polled(c) => Hands[c] = {}
  BY <1>0 DEF CallType, Hands
<1>c. ASSUME OnePlace(ToSet(steerQueue'), ToSet(delivered'), cleared', dropped', lost', Hands', steered'),
             steered' \in 0..MaxMsgs, aborts' \in 0..MaxAborts,
             steerQueue' \in Seq(Nat), delivered' \in Seq(Nat)
      PROVE  SteerType'
  <2>1. /\ \A m \in ToSet(steerQueue') : m \in 1..steered'
        /\ \A m \in ToSet(delivered') : m \in 1..steered'
        /\ cleared' \in SUBSET (1..steered')
        /\ dropped' \in SUBSET (1..steered') /\ lost' \in SUBSET (1..steered')
    BY <1>c DEF OnePlace
  <2>2. /\ \A i \in DOMAIN steerQueue' : steerQueue'[i] \in 1..MaxMsgs
        /\ \A i \in DOMAIN delivered' : delivered'[i] \in 1..MaxMsgs
    <3>1. \A m \in 1..steered' : m \in 1..MaxMsgs
      BY <1>c
    <3>2. /\ \A i \in DOMAIN steerQueue' : steerQueue'[i] \in ToSet(steerQueue')
          /\ \A i \in DOMAIN delivered' : delivered'[i] \in ToSet(delivered')
      BY DEF ToSet
    <3> QED
      BY <2>1, <3>1, <3>2
  <2>3. steerQueue' \in Seq(1..MaxMsgs) /\ delivered' \in Seq(1..MaxMsgs)
    BY <1>c, <2>2, Retyped
  <2> QED
    BY <1>c, <2>1, <2>3 DEF SteerType
<1>d. delivered \in Seq(Nat) /\ steered \in 0..MaxMsgs /\ aborts \in 0..MaxAborts
  BY <1>0 DEF SteerType
<1>1. ASSUME UNCHANGED steerVars,
             \A c \in Calls : (Polled(c)' <=> Polled(c)) /\ (Polled(c) => held'[c] = held[c])
      PROVE SteerType' /\ SteerInv'
  <2>1. Hands' = Hands
    BY <1>1 DEF Hands
  <2> QED
    BY <1>0, <1>1, <2>1 DEF SteerInv, SteerType, steerVars
<1>2. CASE steer
  <2>1. /\ steerQueue' = steerQueue \o <<steered + 1>> /\ steered' = steered + 1 /\ steered' \in 0..MaxMsgs
        /\ UNCHANGED <<aborts, delivered, cleared, dropped, lost, pc, held>>
    BY <1>2, <1>a DEF steer, callVars
  <2>2. Hands' = Hands
    BY <2>1 DEF Hands, Polled
  <2>3. /\ <<steered + 1>> \in Seq(Nat) /\ ToSet(<<steered + 1>>) = {steered + 1}
        /\ IsInjective(<<steered + 1>>)
    BY <1>a DEF ToSet, IsInjective
  <2>4. steered + 1 \notin ToSet(steerQueue)
    <3>1. steered + 1 \notin 1..steered
      BY <1>a
    <3> QED
      BY <3>1 DEF SteerInv, OnePlace
  <2>5. /\ steerQueue' \in Seq(Nat) /\ ToSet(steerQueue') = ToSet(steerQueue) \cup {steered + 1}
        /\ IsInjective(steerQueue')
    <3>1. IsInjective(steerQueue) /\ ToSet(steerQueue) \cap ToSet(<<steered + 1>>) = {}
      BY <2>3, <2>4 DEF SteerInv
    <3>2. PICK x : x = <<steered + 1>>
      OBVIOUS
    <3>3. /\ x \in Seq(Nat) /\ ToSet(x) = {steered + 1} /\ IsInjective(x)
          /\ ToSet(steerQueue) \cap ToSet(x) = {}
      BY <2>3, <3>1, <3>2
    <3>4. steerQueue' = steerQueue \o x
      BY <2>1, <3>2
    <3>5. /\ steerQueue \o x \in Seq(Nat)
          /\ ToSet(steerQueue \o x) = ToSet(steerQueue) \cup ToSet(x)
          /\ IsInjective(steerQueue \o x)
      BY <1>a, <3>1, <3>3, ConcatSets
    <3> QED
      BY <3>3, <3>4, <3>5
  <2>6. OnePlace(ToSet(steerQueue'), ToSet(delivered'), cleared', dropped', lost', Hands', steered')
    <3>1. OnePlace(ToSet(steerQueue) \cup {steered + 1}, ToSet(delivered), cleared, dropped, lost,
                   Hands, steered + 1)
      <4>1. CASE Calls = {}
        <5>1. \A m : m \in 1..(steered + 1) <=> m \in 1..steered \/ m = steered + 1
          BY <1>a
        <5> QED
          BY <2>4, <4>1, <5>1, <1>a DEF OnePlace, SteerInv
      <4>2. CASE Calls # {}
        BY <4>2, <1>a, Moves DEF SteerInv
      <4> QED
        BY <4>1, <4>2
    <3> QED
      BY <2>1, <2>2, <2>5, <3>1
  <2>7. SteerType'
    BY <1>c, <1>d, <2>1, <2>5, <2>6
  <2> QED
    BY <2>1, <2>5, <2>6, <2>7 DEF SteerInv, Polled
<1>3. CASE abort
  <2>1. /\ steerQueue' = <<>> /\ cleared' = cleared \cup ToSet(steerQueue) /\ aborts' = aborts + 1
        /\ aborts' \in 0..MaxAborts
        /\ UNCHANGED <<steered, delivered, dropped, lost, pc, held>>
    BY <1>3, <1>d DEF abort, callVars
  <2>2. Hands' = Hands
    BY <2>1 DEF Hands, Polled
  <2>3. ToSet(steerQueue') = {} /\ IsInjective(steerQueue') /\ steerQueue' \in Seq(Nat)
    BY <2>1 DEF ToSet, IsInjective
  <2>4. OnePlace(ToSet(steerQueue'), ToSet(delivered'), cleared', dropped', lost', Hands', steered')
    BY <2>1, <2>2, <2>3 DEF SteerInv, OnePlace
  <2>5. SteerType'
    BY <1>c, <1>d, <2>1, <2>3, <2>4
  <2>6. \A c \in Calls : Polled(c)' => IsInjective(held'[c].msgs) /\ held'[c].list <= aborts'
    <3> SUFFICES ASSUME NEW c \in Calls, Polled(c)' PROVE IsInjective(held'[c].msgs) /\ held'[c].list <= aborts'
      OBVIOUS
    <3>1. Polled(c) /\ held'[c] = held[c] /\ held[c].list \in Nat
      BY <1>0, <2>1 DEF Polled, CallType
    <3> QED
      BY <1>d, <2>1, <3>1 DEF SteerInv
  <2> QED
    BY <1>d, <2>1, <2>3, <2>4, <2>5, <2>6 DEF SteerInv
<1>4. ASSUME NEW c \in Calls, NEW mode \in {"all", "one-at-a-time"}, Poll(c, mode)
      PROVE SteerType' /\ SteerInv'
  <2>1. PICK n \in {1, Len(steerQueue)} :
          /\ held' = [held EXCEPT ![c] = [msgs |-> SubSeq(steerQueue, 1, n), mode |-> mode,
                                          list |-> aborts]]
          /\ steerQueue' = SubSeq(steerQueue, n + 1, Len(steerQueue))
    BY <1>4 DEF Poll
  <2>2. n \in 1..Len(steerQueue)
    BY <1>4, <1>a DEF Poll
  <2>3. /\ pc[c] = "loop" /\ pc' = [pc EXCEPT ![c] = "polled"]
        /\ UNCHANGED <<aborts, steered, delivered, cleared, dropped, lost>>
    BY <1>4 DEF Poll
  <2>4. /\ Polled(c)' /\ ~Polled(c)
        /\ held'[c].msgs = SubSeq(steerQueue, 1, n) /\ held'[c].list = aborts
        /\ \A d \in Calls \ {c} : pc'[d] = pc[d] /\ held'[d] = held[d]
    BY <1>0, <2>1, <2>3 DEF Polled, CallType
  <2> DEFINE a == SubSeq(steerQueue, 1, n)
             b == SubSeq(steerQueue, n + 1, Len(steerQueue))
  <2>5. /\ a \in Seq(Nat) /\ b \in Seq(Nat) /\ ToSet(a) \cup ToSet(b) = ToSet(steerQueue)
        /\ IsInjective(a) /\ IsInjective(b) /\ ToSet(a) \cap ToSet(b) = {}
    BY <1>a, <2>2, SplitSets DEF SteerInv
  <2>6. Hands' = [Hands EXCEPT ![c] = ToSet(a)] /\ Hands[c] = {}
    BY <1>0, <1>b, <2>4, HandsStep
  <2> HIDE DEF a, b
  <2>7. OnePlace(ToSet(b), ToSet(delivered), cleared, dropped, lost, [Hands EXCEPT ![c] = ToSet(a)], steered)
    BY <1>a, <2>5, <2>6, Moves DEF SteerInv
  <2>8. OnePlace(ToSet(steerQueue'), ToSet(delivered'), cleared', dropped', lost', Hands', steered')
    BY <2>1, <2>3, <2>6, <2>7 DEF b
  <2>9. SteerType'
    BY <1>c, <1>d, <2>1, <2>3, <2>5, <2>8 DEF b
  <2>10. \A d \in Calls : Polled(d)' => IsInjective(held'[d].msgs) /\ held'[d].list <= aborts'
    <3>1. IsInjective(held'[c].msgs) /\ held'[c].list <= aborts'
      BY <1>d, <2>3, <2>4, <2>5 DEF a
    <3>2. ASSUME NEW d \in Calls \ {c}, Polled(d)'
          PROVE IsInjective(held'[d].msgs) /\ held'[d].list <= aborts'
      <4>1. Polled(d)
        BY <2>4, <3>2 DEF Polled
      <4> QED
        BY <2>3, <2>4, <4>1 DEF SteerInv
    <3> QED
      BY <3>1, <3>2
  <2> QED
    BY <2>1, <2>3, <2>5, <2>8, <2>9, <2>10 DEF SteerInv, b
<1>5. ASSUME NEW c \in Calls, ~Polled(c)', \A d \in Calls \ {c} : pc'[d] = pc[d] /\ held'[d] = held[d],
             UNCHANGED <<aborts, steered>>,
             steerQueue' \in Seq(Nat), delivered' \in Seq(Nat), IsInjective(steerQueue'),
             OnePlace(ToSet(steerQueue'), ToSet(delivered'), cleared', dropped', lost',
                      [Hands EXCEPT ![c] = {}], steered),
             aborts = 0 => cleared' = {} /\ dropped' = {}
      PROVE  SteerType' /\ SteerInv'
  <2>1. Hands' = [Hands EXCEPT ![c] = {}]
    BY <1>0, <1>5, HandsStep
  <2>2. SteerType'
    BY <1>c, <1>d, <1>5, <2>1
  <2>3. \A d \in Calls : Polled(d)' => IsInjective(held'[d].msgs) /\ held'[d].list <= aborts'
    BY <1>5 DEF SteerInv, Polled
  <2> QED
    BY <1>5, <2>1, <2>2, <2>3 DEF SteerInv
<1>6. ASSUME NEW c \in Calls, PollDone(c) PROVE SteerType' /\ SteerInv'
  <2>1. /\ Polled(c) /\ ~Polled(c)' /\ \A d \in Calls \ {c} : pc'[d] = pc[d] /\ held'[d] = held[d]
        /\ UNCHANGED <<aborts, steered, steerQueue, cleared, dropped, lost>>
        /\ delivered' = delivered \o held[c].msgs
    BY <1>0, <1>6 DEF PollDone, Polled, CallType
  <2>2. delivered' \in Seq(Nat) /\ ToSet(delivered') = ToSet(delivered) \cup Hands[c]
    BY <1>b, <1>d, <2>1, ConcatSets
  <2>3. OnePlace(ToSet(steerQueue), ToSet(delivered) \cup Hands[c], cleared, dropped, lost,
                 [Hands EXCEPT ![c] = {}], steered)
    BY <1>a, Moves DEF SteerInv
  <2> QED
    BY <1>5, <1>a, <2>1, <2>2, <2>3 DEF SteerInv
<1>7. ASSUME NEW c \in Calls, PollFails(c) PROVE SteerType' /\ SteerInv'
  <2>1. /\ Polled(c) /\ Unwind(c) /\ held' = [held EXCEPT ![c] = Nothing]
        /\ UNCHANGED <<aborts, steered, delivered, cleared, lost>>
    BY <1>7 DEF PollFails, Polled
  <2>2. ~Polled(c)' /\ \A d \in Calls \ {c} : pc'[d] = pc[d] /\ held'[d] = held[d]
    BY <1>0, <2>1, UnwindStep DEF Polled, CallType
  <2>3. CASE held[c].list = aborts
    <3>1. /\ steerQueue' \in {steerQueue \o held[c].msgs, held[c].msgs \o steerQueue}
          /\ dropped' = dropped
      BY <1>7, <2>3 DEF PollFails
    <3>2. IsInjective(held[c].msgs) /\ IsInjective(steerQueue)
      BY <2>1 DEF SteerInv
    <3>3. ToSet(held[c].msgs) \cap ToSet(steerQueue) = {}
      BY <1>b, <2>1 DEF SteerInv, OnePlace
    <3>4. /\ steerQueue' \in Seq(Nat) /\ ToSet(steerQueue') = ToSet(steerQueue) \cup Hands[c]
          /\ IsInjective(steerQueue')
      <4>1. /\ steerQueue \o held[c].msgs \in Seq(Nat) /\ held[c].msgs \o steerQueue \in Seq(Nat)
            /\ ToSet(steerQueue \o held[c].msgs) = ToSet(steerQueue) \cup ToSet(held[c].msgs)
            /\ ToSet(held[c].msgs \o steerQueue) = ToSet(steerQueue) \cup ToSet(held[c].msgs)
        BY <1>a, <1>b, ConcatSets
      <4>2. IsInjective(steerQueue \o held[c].msgs) /\ IsInjective(held[c].msgs \o steerQueue)
        BY <1>a, <1>b, <3>2, <3>3, ConcatSets
      <4> QED
        BY <1>b, <2>1, <3>1, <4>1, <4>2
    <3>5. OnePlace(ToSet(steerQueue) \cup Hands[c], ToSet(delivered), cleared, dropped, lost,
                   [Hands EXCEPT ![c] = {}], steered)
      BY <1>a, Moves DEF SteerInv
    <3> QED
      BY <1>5, <1>d, <2>1, <2>2, <3>1, <3>4, <3>5 DEF SteerInv
  <2>4. CASE held[c].list # aborts
    <3>1. steerQueue' = steerQueue /\ dropped' = dropped \cup ToSet(held[c].msgs)
      BY <1>7, <2>4 DEF PollFails
    <3>2. aborts # 0
      <4>1. held[c].list <= aborts /\ held[c].list \in Nat
        BY <1>0, <2>1 DEF SteerInv, CallType
      <4> QED
        BY <1>d, <2>4, <4>1
    <3>3. OnePlace(ToSet(steerQueue), ToSet(delivered), cleared, dropped \cup Hands[c], lost,
                   [Hands EXCEPT ![c] = {}], steered)
      BY <1>a, Moves DEF SteerInv
    <3> QED
      BY <1>5, <1>a, <1>b, <1>d, <2>1, <2>2, <3>1, <3>2, <3>3 DEF SteerInv
  <2> QED
    BY <2>3, <2>4
<1>8. ASSUME NEW c \in Calls, Cancel(c) PROVE SteerType' /\ SteerInv'
  <2>1. CASE pc[c] \in {"createState", "announce", "beforeStart"} /\ PromptFails(c)
    <3>1. /\ UNCHANGED steerVars /\ ~Polled(c) /\ ~Polled(c)'
          /\ \A d \in Calls \ {c} : pc'[d] = pc[d] /\ held'[d] = held[d]
      BY <1>0, <2>1 DEF PromptFails, Polled, CallType
    <3> QED
      BY <1>1, <3>1 DEF Polled
  <2>2. CASE pc[c] = "writing" /\ Continue(c, "raised") /\ UNCHANGED <<steerVars, held>>
    <3>1. "raised" \in Thens
      BY DEF Thens
    <3>2. /\ ~Polled(c) /\ ~Polled(c)' /\ \A d \in Calls \ {c} : pc'[d] = pc[d]
      BY <1>0, <2>2, <3>1, ContinueStep DEF Polled, Over
    <3> QED
      BY <1>1, <2>2, <3>2 DEF Polled
  <2>3. ASSUME InLoop(c) \/ pc[c] = "tail", Flush(c, pending, "raised"),
               lost' = lost \cup ToSet(held[c].msgs), held' = [held EXCEPT ![c] = Nothing],
               UNCHANGED <<steerQueue, aborts, steered, delivered, cleared, dropped>>
        PROVE  SteerType' /\ SteerInv'
    <3>1. "raised" \in Thens
      BY DEF Thens
    <3>2. ~Polled(c)' /\ \A d \in Calls \ {c} : pc'[d] = pc[d] /\ held'[d] = held[d]
      BY <1>0, <2>3, <3>1, FlushStep DEF Polled, CallType, Over
    <3>3. ~Starting(c)
      BY <2>3 DEF InLoop, Starting
    <3>4. ToSet(<<>>) = {}
      BY DEF ToSet
    <3>5. ToSet(held[c].msgs) = Hands[c]
      BY <1>b, <3>3, <3>4 DEF EmptyHands
    <3>6. OnePlace(ToSet(steerQueue), ToSet(delivered), cleared, dropped, lost \cup Hands[c],
                   [Hands EXCEPT ![c] = {}], steered)
      BY <1>a, Moves DEF SteerInv
    <3> QED
      BY <1>5, <1>a, <1>d, <2>3, <3>2, <3>5, <3>6 DEF SteerInv
  <2> QED
    BY <1>8, <2>1, <2>2, <2>3 DEF Cancel
<1> QED
  BY <1>0, <1>1, <1>2, <1>3, <1>4, <1>6, <1>7, <1>8, SteerFrame

-----------------------------------------------------------------------------
(* Calls, one at a time *)

\* A turn from the start of its loop to the listeners of agent_end.
UnderWay(c) == InLoop(c) \/ pc[c] = "tail"

\* A step moves at most one call, which has begun already or begins now; and a turn that
\* gets under way has installed its controller.
LEMMA CallFrame ==
  ASSUME CallType, [Next]_vars
  PROVE  \/ UNCHANGED <<pc, then, controller>>
         \/ \E c \in Calls :
              /\ Active(c) \/ MayCall(c)
              /\ \A d \in Calls \ {c} : pc'[d] = pc[d] /\ then'[d] = then[d]
              /\ UnderWay(c)' => \/ UnderWay(c) /\ controller' = controller
                                 \/ controller' = c
<1> DEFINE Moves1(c) == /\ Active(c) \/ MayCall(c)
                        /\ \A d \in Calls \ {c} : pc'[d] = pc[d] /\ then'[d] = then[d]
                        /\ UnderWay(c)' => \/ UnderWay(c) /\ controller' = controller
                                           \/ controller' = c
<1> USE DEF UnderWay, InLoop, Active, NotBegun, Over
<1>0. "loop" \in Thens /\ "ended" \in Thens /\ "returned" \in Thens /\ "raised" \in Thens
  BY DEF Thens
<1>1. ASSUME NEW c \in Calls, Progress(c) PROVE Moves1(c)
  <2>1. CASE CreateStateDone(c) \/ AnnounceDone(c) \/ BeforeStartDone(c) \/ PollDone(c) \/ EndWork(c)
    BY <2>1 DEF CreateStateDone, AnnounceDone, BeforeStartDone, PollDone, EndWork, CallType
  <2>2. CASE WriteDone(c)
    <3>1. pc[c] = "writing"
      BY <2>2 DEF WriteDone
    <3> QED
      BY <2>2, <3>1, WriteDoneStep
  <2>3. CASE TailDone(c)
    <3>1. Flush(c, pending, "returned") /\ pc[c] = "tail"
      BY <2>3 DEF TailDone
    <3> QED
      BY <1>0, <3>1, FlushStep
  <2> QED
    BY <1>1, <2>1, <2>2, <2>3 DEF Progress
<1>2. ASSUME NEW c \in Calls, LoopStep(c) PROVE Moves1(c)
  <2>1. CASE Save(c)
    <3>1. Flush(c, pending, "loop") /\ pc[c] = "loop"
      BY <2>1 DEF Save
    <3> QED
      BY <1>0, <3>1, FlushStep
  <2>2. ASSUME NEW mode, Poll(c, mode) PROVE Moves1(c)
    BY <2>2 DEF Poll, CallType
  <2> QED
    BY <1>2, <2>1, <2>2 DEF LoopStep
<1>3. ASSUME NEW c \in Calls, Failure(c) PROVE Moves1(c)
  <2>1. CASE CreateStateFails(c) \/ AnnounceFails(c) \/ BeforeStartFails(c)
    BY <2>1 DEF CreateStateFails, AnnounceFails, BeforeStartFails, PromptFails, CallType
  <2>2. ASSUME Unwind(c), UnderWay(c) PROVE Moves1(c)
    BY <2>2, UnwindStep
  <2>3. ASSUME Continue(c, "raised"), UNCHANGED then, pc[c] = "writing" PROVE Moves1(c)
    BY <1>0, <2>3, ContinueStep
  <2>4. CASE WriteFails(c)
    <3>1. pc[c] = "writing" /\ FlushRaises(c)
      BY <2>4 DEF WriteFails
    <3> QED
      BY <3>1, FlushRaisesStep
  <2>5. CASE PollFails(c) \/ TailFails(c)
    <3>1. Unwind(c) /\ pc[c] \in {"polled", "tail"}
      BY <2>5 DEF PollFails, TailFails
    <3> QED
      BY <2>2, <3>1
  <2>6. CASE Cancel(c)
    <3>1. \/ PromptFails(c) /\ pc[c] \in {"createState", "announce", "beforeStart"}
          \/ Continue(c, "raised") /\ UNCHANGED then /\ pc[c] = "writing"
          \/ Flush(c, pending, "raised") /\ UnderWay(c)
      BY <2>6 DEF Cancel
    <3>2. CASE PromptFails(c) /\ pc[c] \in {"createState", "announce", "beforeStart"}
      BY <3>2 DEF PromptFails, CallType
    <3>3. CASE Flush(c, pending, "raised") /\ UnderWay(c)
      BY <1>0, <3>3, FlushStep
    <3> QED
      BY <2>3, <3>1, <3>2, <3>3
  <2> QED
    BY <1>3, <2>1, <2>4, <2>5, <2>6 DEF Failure
<1>4. ASSUME NEW c \in Calls, Prompt(c) \/ \E what \in {"compaction", "branch_summary"} : BeginWork(c, what)
      PROVE Moves1(c)
  BY <1>4 DEF Prompt, BeginWork, CallType
<1>5. ASSUME NEW c \in Calls, AgentEnd(c) PROVE Moves1(c)
  <2>1. Flush(c, pending, "ended") /\ pc[c] = "loop"
    BY <1>5 DEF AgentEnd
  <2> QED
    BY <1>0, <2>1, FlushStep
<1>6. CASE Write \/ steer \/ next_turn \/ abort \/ \E w \in direct : DirectWriteDone(w) \/ DirectWriteFails(w)
  BY <1>6 DEF Write, steer, next_turn, abort, DirectWriteDone, DirectWriteFails, callVars
<1>7. CASE UNCHANGED vars
  BY <1>7 DEF vars, callVars
<1> QED
  BY <1>1, <1>2, <1>3, <1>4, <1>5, <1>6, <1>7 DEF Next

\* Callers that wait for a call to return have one call under way at most, and it has the
\* controller while it is between the start of its loop and the end of agent_end.
OneCall ==
  /\ \A c, d \in Calls : Active(c) /\ Active(d) => c = d
  /\ \A c \in Calls : UnderWay(c) => controller = c

\* A call begins only when no other is active, and a turn under way keeps its controller.
LEMMA OneCallStep == Serial /\ TypeOK /\ OneCall /\ [Next]_vars => OneCall'
<1> SUFFICES ASSUME Serial, TypeOK, OneCall, [Next]_vars PROVE OneCall'
  OBVIOUS
<1>0. CallType
  BY DEF TypeOK
<1>1. CASE UNCHANGED <<pc, then, controller>>
  BY <1>1 DEF OneCall, Active, UnderWay, InLoop
<1>2. ASSUME NEW c \in Calls, Active(c) \/ MayCall(c),
             \A d \in Calls \ {c} : pc'[d] = pc[d] /\ then'[d] = then[d],
             UnderWay(c)' => (UnderWay(c) /\ controller' = controller) \/ controller' = c
      PROVE  OneCall'
  <2>1. \A d \in Calls \ {c} : ~Active(d)
    BY <1>2 DEF OneCall, MayCall
  <2>2. \A d \in Calls \ {c} : ~Active(d)' /\ ~UnderWay(d)'
    BY <1>2, <2>1 DEF Active, UnderWay, InLoop, NotBegun, Over
  <2>3. UnderWay(c)' => controller' = c
    BY <1>2 DEF OneCall
  <2> QED
    BY <2>2, <2>3 DEF OneCall
<1> QED
  BY <1>0, <1>1, <1>2, CallFrame

-----------------------------------------------------------------------------
(* The phase *)

\* What phase and controller say of a call, which stands alone when it is over or has not
\* begun.
Told(c) ==
  /\ pc[c] \in {"createState", "announce", "beforeStart"} => phase = "turn" /\ controller = 0
  /\ \/ pc[c] \in {"loop", "polled"}
     \/ pc[c] = "writing" /\ then[c] = "loop"
     => phase = "turn"
  /\ pc[c] \in {"compaction", "branch_summary"} => phase = pc[c] /\ controller = 0
  /\ pc[c] = "tail" => phase = "idle"

Quiet == phase = "idle" /\ controller = 0

Sound(c) == Told(c) /\ (~Active(c) => Quiet)

PhaseInv ==
  /\ \A c \in Calls : Told(c)
  /\ (\A c \in Calls : ~Active(c)) => Quiet

\* A call that the finally clauses end.
LEMMA RaisedSound ==
  ASSUME CallType, NEW c \in Calls, Continue(c, "raised") PROVE Sound(c)'
  BY DEF Continue, CallType, Sound, Told, Quiet, Over

\* A flush, before and after its last write.
LEMMA FlushSound ==
  ASSUME CallType, NEW c \in Calls, NEW ws, NEW what \in Thens, Flush(c, ws, what),
         what = "loop" => phase = "turn"
  PROVE  Sound(c)'
<1>1. CASE ws # <<>>
  <2>1. pc'[c] = "writing" /\ then'[c] = what /\ phase' = phase
    BY <1>1 DEF Flush, CallType
  <2> QED
    BY <2>1 DEF Sound, Told, Active, NotBegun, Over
<1>2. CASE ws = <<>>
  <2>1. Continue(c, what)
    BY <1>2 DEF Flush
  <2>2. \/ what = "loop" /\ pc'[c] = "loop" /\ phase' = phase
        \/ what = "ended" /\ pc'[c] = "tail" /\ phase' = "idle"
        \/ what \in Over /\ pc'[c] = what /\ phase' = "idle" /\ controller' = 0
    BY <2>1 DEF Continue, CallType, Thens, Over
  <2> QED
    BY <2>2 DEF Sound, Told, Quiet, Active, NotBegun, Over
<1> QED
  BY <1>1, <1>2

\* The exceptions inside the loop, and those in a flush.
LEMMA UnwindSound ==
  ASSUME CallType, NEW c \in Calls, Unwind(c) \/ FlushRaises(c) PROVE Sound(c)'
<1>1. CASE Unwind(c)
  <2>1. "ended" \in Thens /\ "raised" \in Thens /\ "ended" # "loop" /\ "raised" # "loop"
    BY DEF Thens
  <2>2. Flush(c, pending, "ended") \/ Flush(c, pending, "raised")
    BY <1>1 DEF Unwind
  <2> QED
    BY <2>1, <2>2, FlushSound
<1>2. CASE FlushRaises(c)
  BY <1>1, <1>2, RaisedSound DEF FlushRaises
<1> QED
  BY <1>1, <1>2

\* A step of a call leaves it with the phase that tells what it is at.
LEMMA CallSound ==
  ASSUME CallType, NEW c \in Calls, Sound(c),
         \/ Progress(c) \/ LoopStep(c) \/ Failure(c) \/ AgentEnd(c) \/ Prompt(c)
         \/ \E what \in {"compaction", "branch_summary"} : BeginWork(c, what)
  PROVE  Sound(c)'
<1>0. "loop" \in Thens /\ "ended" \in Thens /\ "returned" \in Thens /\ "raised" \in Thens
  BY DEF Thens
<1>1. CASE Prompt(c) \/ \E what \in {"compaction", "branch_summary"} : BeginWork(c, what)
  <2>1. ~Active(c)
    BY <1>1 DEF Prompt, BeginWork, MayCall, Active, NotBegun
  <2>2. controller = 0
    BY <2>1 DEF Sound, Quiet
  <2> QED
    BY <1>1, <2>2 DEF Prompt, BeginWork, CallType, Sound, Told, Active, NotBegun, Over
<1>2. CASE CreateStateDone(c) \/ AnnounceDone(c) \/ BeforeStartDone(c) \/ PollDone(c)
  BY <1>2 DEF CreateStateDone, AnnounceDone, BeforeStartDone, PollDone, CallType, Sound, Told,
     Active, NotBegun, Over
<1>3. CASE EndWork(c)
  BY <1>3 DEF EndWork, CallType, Sound, Told, Quiet, Active, NotBegun, Over
<1>4. CASE WriteDone(c)
  <2>1. CASE pending = <<>>
    BY <1>4, <2>1, UnwindSound DEF WriteDone
  <2>2. CASE pending # <<>>
    <3>1. Flush(c, Tail(pending), then[c]) /\ then[c] \in Thens /\ (then[c] = "loop" => phase = "turn")
      BY <1>4, <2>2 DEF WriteDone, CallType, Thens, Sound, Told
    <3> QED
      BY <3>1, FlushSound
  <2> QED
    BY <2>1, <2>2
<1>5. CASE TailDone(c) \/ AgentEnd(c) \/ Save(c)
  <2>1. \/ Flush(c, pending, "returned") \/ Flush(c, pending, "ended")
        \/ Flush(c, pending, "loop") /\ phase = "turn"
    BY <1>5 DEF TailDone, AgentEnd, Save, Sound, Told
  <2> QED
    BY <1>0, <2>1, FlushSound
<1>6. ASSUME NEW mode, Poll(c, mode) PROVE Sound(c)'
  BY <1>6 DEF Poll, CallType, Sound, Told, Active, NotBegun, Over
<1>7. CASE CreateStateFails(c) \/ AnnounceFails(c) \/ BeforeStartFails(c)
  <2>1. PromptFails(c) /\ pc[c] \in {"createState", "announce", "beforeStart"}
    BY <1>7 DEF CreateStateFails, AnnounceFails, BeforeStartFails
  <2> QED
    BY <2>1 DEF PromptFails, CallType, Sound, Told, Quiet
<1>8. CASE WriteFails(c) \/ PollFails(c) \/ TailFails(c)
  BY <1>8, UnwindSound DEF WriteFails, PollFails, TailFails
<1>9. CASE Cancel(c)
  <2>1. \/ PromptFails(c) /\ pc[c] \in {"createState", "announce", "beforeStart"}
        \/ Continue(c, "raised")
        \/ Flush(c, pending, "raised")
    BY <1>9 DEF Cancel
  <2>2. CASE PromptFails(c) /\ pc[c] \in {"createState", "announce", "beforeStart"}
    BY <2>2 DEF PromptFails, CallType, Sound, Told, Quiet
  <2> QED
    BY <1>0, <2>1, <2>2, RaisedSound, FlushSound
<1> QED
  BY <1>1, <1>2, <1>3, <1>4, <1>5, <1>6, <1>7, <1>8, <1>9 DEF Progress, LoopStep, Failure

\* The steps of a call leave the other calls where they are.
LEMMA OthersStay ==
  ASSUME CallType, NEW c \in Calls,
         \/ Progress(c) \/ LoopStep(c) \/ Failure(c) \/ AgentEnd(c) \/ Prompt(c)
         \/ \E what \in {"compaction", "branch_summary"} : BeginWork(c, what)
  PROVE  /\ Active(c) \/ MayCall(c)
         /\ \A d \in Calls \ {c} : pc'[d] = pc[d] /\ then'[d] = then[d]
<1>0. \A ws : \A what \in Thens : Flush(c, ws, what) =>
        \A d \in Calls \ {c} : pc'[d] = pc[d] /\ then'[d] = then[d]
  BY FlushStep
<1>1. CASE \/ Prompt(c) \/ CreateStateDone(c) \/ AnnounceDone(c) \/ BeforeStartDone(c) \/ PollDone(c)
           \/ EndWork(c) \/ \E what \in {"compaction", "branch_summary"} : BeginWork(c, what)
  BY <1>1 DEF Prompt, BeginWork, CreateStateDone, AnnounceDone, BeforeStartDone, PollDone, EndWork,
     CallType, Active, NotBegun, Over
<1>2. CASE WriteDone(c)
  <2>1. pc[c] = "writing"
    BY <1>2 DEF WriteDone
  <2> QED
    BY <1>2, <2>1, WriteDoneStep DEF Active, NotBegun, Over
<1>3. CASE TailDone(c) \/ AgentEnd(c) \/ Save(c)
  <2>1. /\ pc[c] \in {"tail", "loop"}
        /\ \E what \in {"returned", "ended", "loop"} : Flush(c, pending, what)
    BY <1>3 DEF TailDone, AgentEnd, Save
  <2>2. {"returned", "ended", "loop"} \subseteq Thens
    BY DEF Thens
  <2> QED
    BY <1>0, <2>1, <2>2 DEF Active, NotBegun, Over
<1>4. ASSUME NEW mode, Poll(c, mode)
      PROVE  Active(c) /\ \A d \in Calls \ {c} : pc'[d] = pc[d] /\ then'[d] = then[d]
  BY <1>4 DEF Poll, CallType, Active, NotBegun, Over
<1>5. CASE CreateStateFails(c) \/ AnnounceFails(c) \/ BeforeStartFails(c)
  BY <1>5 DEF CreateStateFails, AnnounceFails, BeforeStartFails, PromptFails, CallType, Active,
     NotBegun, Over
<1>6. CASE WriteFails(c) \/ PollFails(c) \/ TailFails(c)
  <2>1. pc[c] \in {"writing", "polled", "tail"} /\ (FlushRaises(c) \/ Unwind(c))
    BY <1>6 DEF WriteFails, PollFails, TailFails
  <2> QED
    BY <2>1, FlushRaisesStep, UnwindStep DEF Active, NotBegun, Over
<1>7. CASE Cancel(c)
  <2>1. \/ PromptFails(c) /\ then' = then
        \/ Continue(c, "raised") /\ then' = then
        \/ Flush(c, pending, "raised")
    BY <1>7 DEF Cancel, PromptFails
  <2>2. Active(c)
    BY <1>7 DEF Cancel, InLoop, Active, NotBegun, Over
  <2>3. "raised" \in Thens
    BY DEF Thens
  <2>4. CASE PromptFails(c) /\ then' = then
    BY <2>2, <2>4 DEF PromptFails, CallType
  <2>5. CASE Continue(c, "raised") /\ then' = then
    BY <2>2, <2>3, <2>5, ContinueStep
  <2> QED
    BY <1>0, <2>1, <2>2, <2>3, <2>4, <2>5
<1> QED
  BY <1>1, <1>2, <1>3, <1>4, <1>5, <1>6, <1>7 DEF Progress, LoopStep, Failure

\* The call that moves is the only one, and it goes on with a phase that tells of it.
LEMMA PhaseInvStep == Serial /\ TypeOK /\ OneCall /\ PhaseInv /\ [Next]_vars => PhaseInv'
<1> SUFFICES ASSUME Serial, CallType, OneCall, PhaseInv, [Next]_vars PROVE PhaseInv'
  BY DEF TypeOK
<1>1. ASSUME UNCHANGED <<pc, then, controller, phase>> PROVE PhaseInv'
  BY <1>1 DEF PhaseInv, Told, Quiet, Active
<1>2. ASSUME NEW c \in Calls,
             \/ Progress(c) \/ LoopStep(c) \/ Failure(c) \/ AgentEnd(c) \/ Prompt(c)
             \/ \E what \in {"compaction", "branch_summary"} : BeginWork(c, what)
      PROVE  PhaseInv'
  <2>1. /\ Active(c) \/ MayCall(c)
        /\ \A d \in Calls \ {c} : pc'[d] = pc[d] /\ then'[d] = then[d]
    BY <1>2, OthersStay
  <2>2. \A d \in Calls \ {c} : ~Active(d)
    BY <2>1 DEF OneCall, MayCall
  <2>3. Sound(c)
    BY <2>2 DEF PhaseInv, Sound
  <2>4. Sound(c)'
    BY <1>2, <2>3, CallSound
  <2>5. \A d \in Calls \ {c} : Told(d)'
    BY <2>1, <2>2 DEF Told, Active, NotBegun, Over, CallType
  <2> QED
    BY <2>4, <2>5 DEF PhaseInv, Sound
<1>3. CASE Write \/ steer \/ next_turn \/ abort \/ \E w \in direct : DirectWriteDone(w) \/ DirectWriteFails(w)
  BY <1>1, <1>3 DEF Write, steer, next_turn, abort, DirectWriteDone, DirectWriteFails, callVars
<1>4. CASE UNCHANGED vars
  BY <1>1, <1>4 DEF vars, callVars
<1> QED
  BY <1>2, <1>3, <1>4 DEF Next

-----------------------------------------------------------------------------
(* Next-turn messages *)

\* The next-turn messages that are queued or held were accepted before.
NextShape ==
  /\ ToSet(nextQueue) \subseteq 1..nextCount
  /\ \A c \in Calls : Starting(c) => ToSet(held[c].msgs) \subseteq 1..nextCount

\* Messages that are taken or put back were accepted before.
LEMMA NextShapeStep == TypeOK /\ NextShape /\ [Next]_vars => NextType' /\ NextShape'
<1> SUFFICES ASSUME TypeOK, NextShape, [Next]_vars PROVE NextType' /\ NextShape'
  OBVIOUS
<1> USE Bounds
<1>0. CallType /\ CallType' /\ NextType
  BY CallTypeStep DEF TypeOK
<1>a. ToSet(<<>>) = {}
  BY DEF ToSet
<1>b. /\ nextQueue \in Seq(Nat) /\ started \in Seq(1..MaxNext) /\ nextCount \in 0..MaxNext
      /\ \A c \in Calls : held[c].msgs \in Seq(Nat)
  BY <1>0 DEF NextType, CallType
<1>c. ASSUME NEW s \in Seq(Nat), ToSet(s) \subseteq 1..nextCount PROVE s \in Seq(1..MaxNext)
  <2>1. \A i \in DOMAIN s : s[i] \in ToSet(s)
    BY DEF ToSet
  <2>2. \A n \in 1..nextCount : n \in 1..MaxNext
    BY <1>b
  <2> QED
    BY <1>c, <2>1, <2>2, Retyped
<1>1. ASSUME UNCHANGED nextVars,
             \A c \in Calls : (Starting(c)' <=> Starting(c)) /\ (Starting(c) => held'[c] = held[c])
      PROVE NextType' /\ NextShape'
  BY <1>0, <1>1 DEF NextShape, NextType, nextVars
<1>2. CASE next_turn
  <2>1. /\ nextCount' = nextCount + 1 /\ nextCount' \in 0..MaxNext /\ nextCount + 1 \in 1..MaxNext
        /\ nextQueue' = nextQueue \o <<nextCount + 1>>
        /\ UNCHANGED <<started, pc, held>>
    <3>1. /\ nextCount < MaxNext /\ nextCount' = nextCount + 1
          /\ nextQueue' = Append(nextQueue, nextCount') /\ UNCHANGED <<started, pc, held>>
      BY <1>2 DEF next_turn, callVars
    <3>2. nextCount + 1 \in 1..MaxNext /\ nextCount + 1 \in 0..MaxNext
      BY <1>b, <3>1
    <3>3. \A x : Append(nextQueue, x) = nextQueue \o <<x>>
      BY <1>b
    <3> QED
      BY <3>1, <3>2, <3>3
  <2>2. PICK x : x = <<nextCount + 1>>
    OBVIOUS
  <2>3. x \in Seq(1..MaxNext) /\ ToSet(x) = {nextCount + 1}
    BY <1>b, <2>1, <2>2 DEF ToSet
  <2>4. nextQueue' \in Seq(1..MaxNext) /\ ToSet(nextQueue') = ToSet(nextQueue) \cup {nextCount + 1}
    <3>1. nextQueue \in Seq(1..MaxNext)
      BY <1>0 DEF NextType
    <3>2. nextQueue \o x \in Seq(1..MaxNext) /\ ToSet(nextQueue \o x) = ToSet(nextQueue) \cup ToSet(x)
      BY <2>3, <3>1, ConcatSets
    <3>3. nextQueue' = nextQueue \o x
      BY <2>1, <2>2
    <3> QED
      BY <2>3, <3>2, <3>3
  <2>5. \A n \in 1..nextCount : n \in 1..nextCount'
    BY <1>b, <2>1
  <2>6. nextCount + 1 \in 1..nextCount'
    BY <1>b, <2>1
  <2>7. NextShape'
    BY <2>1, <2>4, <2>5, <2>6 DEF NextShape, Starting
  <2> QED
    BY <1>b, <2>1, <2>4, <2>7 DEF NextType
<1>3. ASSUME NEW c \in Calls, CreateStateDone(c) PROVE NextType' /\ NextShape'
  <2>1. /\ nextQueue' = <<>> /\ UNCHANGED <<nextCount, started>>
        /\ held'[c].msgs = nextQueue
        /\ \A d \in Calls \ {c} : pc'[d] = pc[d] /\ held'[d] = held[d]
    BY <1>0, <1>3 DEF CreateStateDone, CallType, Nothing
  <2>2. NextShape'
    BY <1>a, <2>1 DEF NextShape, Starting
  <2> QED
    BY <1>b, <2>1, <2>2 DEF NextType
<1>4. ASSUME NEW c \in Calls, BeforeStartDone(c) PROVE NextType' /\ NextShape'
  <2>1. /\ UNCHANGED <<nextCount, nextQueue>> /\ ~Starting(c)' /\ Starting(c)
        /\ started' = started \o held[c].msgs
        /\ \A d \in Calls \ {c} : pc'[d] = pc[d] /\ held'[d] = held[d]
    BY <1>0, <1>4 DEF BeforeStartDone, CallType, Starting
  <2>2. held[c].msgs \in Seq(1..MaxNext)
    BY <1>b, <1>c, <2>1 DEF NextShape
  <2>3. started' \in Seq(1..MaxNext)
    BY <1>b, <2>1, <2>2
  <2>4. NextShape'
    BY <2>1 DEF NextShape, Starting
  <2> QED
    BY <1>0, <2>1, <2>3, <2>4 DEF NextType
<1>5. ASSUME NEW c \in Calls, AnnounceFails(c) PROVE NextType' /\ NextShape'
  <2>1. /\ UNCHANGED <<nextCount, started>> /\ ~Starting(c)' /\ Starting(c)
        /\ nextQueue' = held[c].msgs \o nextQueue
        /\ \A d \in Calls \ {c} : pc'[d] = pc[d] /\ held'[d] = held[d]
    BY <1>0, <1>5 DEF AnnounceFails, PromptFails, CallType, Starting
  <2>2. /\ held[c].msgs \o nextQueue \in Seq(Nat)
        /\ ToSet(held[c].msgs \o nextQueue) = ToSet(held[c].msgs) \cup ToSet(nextQueue)
    BY <1>b, ConcatSets
  <2>3. ToSet(nextQueue') \subseteq 1..nextCount /\ nextQueue' \in Seq(Nat)
    BY <2>1, <2>2 DEF NextShape
  <2>4. NextShape'
    BY <2>1, <2>3 DEF NextShape, Starting
  <2> QED
    BY <1>b, <1>c, <2>1, <2>3, <2>4 DEF NextType
<1>6. ASSUME NEW c \in Calls, UNCHANGED nextVars, \A d \in Calls \ {c} : pc'[d] = pc[d] /\ held'[d] = held[d],
             ~Starting(c)'
      PROVE NextType' /\ NextShape'
  BY <1>0, <1>6 DEF NextShape, NextType, Starting, nextVars
<1>7. ASSUME NEW c \in Calls, BeforeStartFails(c) PROVE NextType' /\ NextShape'
  BY <1>0, <1>6, <1>7 DEF BeforeStartFails, PromptFails, CallType, Starting, nextVars
<1>8. ASSUME NEW c \in Calls, Cancel(c) PROVE NextType' /\ NextShape'
  <2>0. "raised" \in Thens
    BY DEF Thens
  <2>1. /\ UNCHANGED nextVars
        /\ \/ PromptFails(c)
           \/ Continue(c, "raised") /\ held' = held
           \/ Flush(c, pending, "raised") /\ held' = [held EXCEPT ![c] = Nothing]
    BY <1>8 DEF Cancel, PromptFails, nextVars
  <2>2. CASE PromptFails(c)
    BY <1>0, <1>6, <2>1, <2>2 DEF PromptFails, CallType, Starting
  <2>3. CASE Continue(c, "raised") /\ held' = held
    BY <1>0, <1>6, <2>0, <2>1, <2>3, ContinueStep DEF Starting, Over
  <2>4. CASE Flush(c, pending, "raised") /\ held' = [held EXCEPT ![c] = Nothing]
    <3>1. \A d \in Calls \ {c} : held'[d] = held[d]
      BY <1>0, <2>4 DEF CallType
    <3> QED
      BY <1>0, <1>6, <2>0, <2>1, <2>4, <3>1, FlushStep DEF Starting, Over
  <2> QED
    BY <2>1, <2>2, <2>3, <2>4
<1> QED
  BY <1>0, <1>1, <1>2, <1>3, <1>4, <1>5, <1>7, <1>8, NextFrame

-----------------------------------------------------------------------------
(* Order *)

\* Every element of A is less than every element of B.
Below(A, B) == \A m \in A, n \in B : m < n

\* Those elements of a sequence that are in D come in increasing order.
OrderedIn(s, D) == \A i, j \in DOMAIN s : i < j /\ {s[i], s[j]} \subseteq D => s[i] < s[j]

\* Two sequences in a row are in order when both are and the first lies below the second.
LEMMA OrderedConcat ==
  ASSUME NEW S, NEW s \in Seq(S), NEW t \in Seq(S), NEW D
  PROVE  OrderedIn(s, D) /\ OrderedIn(t, D) /\ Below(ToSet(s) \cap D, ToSet(t) \cap D)
         => OrderedIn(s \o t, D)
<1> SUFFICES ASSUME OrderedIn(s, D), OrderedIn(t, D), Below(ToSet(s) \cap D, ToSet(t) \cap D)
             PROVE  OrderedIn(s \o t, D)
  OBVIOUS
<1> DEFINE u == s \o t
<1>1. \A i \in DOMAIN u : \/ i \in DOMAIN s /\ u[i] = s[i]
                          \/ i - Len(s) \in DOMAIN t /\ u[i] = t[i - Len(s)] /\ i > Len(s)
  OBVIOUS
<1>2. DOMAIN u \subseteq Nat /\ DOMAIN s = 1..Len(s) /\ Len(s) \in Nat
  OBVIOUS
<1> HIDE DEF u
<1> SUFFICES ASSUME NEW i \in DOMAIN u, NEW j \in DOMAIN u, i < j, u[i] \in D, u[j] \in D
             PROVE  u[i] < u[j]
  BY DEF OrderedIn, u
<1>3. CASE j \in DOMAIN s
  BY <1>1, <1>2, <1>3 DEF OrderedIn
<1>4. CASE i \in DOMAIN s /\ j \notin DOMAIN s
  <2>1. u[i] \in ToSet(s) \cap D /\ u[j] \in ToSet(t) \cap D
    BY <1>1, <1>2, <1>4 DEF ToSet
  <2> QED
    BY <2>1 DEF Below
<1>5. CASE i \notin DOMAIN s /\ j \notin DOMAIN s
  <2>1. PICK k \in DOMAIN t : k = i - Len(s) /\ u[i] = t[k]
    BY <1>1, <1>5
  <2>2. PICK l \in DOMAIN t : l = j - Len(s) /\ u[j] = t[l]
    BY <1>1, <1>5
  <2>3. k < l
    BY <1>2, <2>1, <2>2
  <2> QED
    BY <2>1, <2>2, <2>3 DEF OrderedIn
<1> QED
  BY <1>1, <1>2, <1>3, <1>4, <1>5

\* What taking the first element leaves.
LEMMA HeadTail ==
  ASSUME NEW S, NEW q \in Seq(S), q # <<>>
  PROVE  /\ Head(q) \in S /\ Tail(q) \in Seq(S)
         /\ ToSet(q) = {Head(q)} \cup ToSet(Tail(q))
         /\ IsInjective(q) => IsInjective(Tail(q)) /\ Head(q) \notin ToSet(Tail(q))
         /\ \A D : OrderedIn(q, D) => /\ OrderedIn(Tail(q), D)
                                      /\ Below({Head(q)} \cap D, ToSet(Tail(q)) \cap D)
<1> DEFINE h == Head(q)
           t == Tail(q)
<1>1. /\ h \in S /\ t \in Seq(S) /\ h = q[1] /\ 1 \in DOMAIN q /\ DOMAIN q \subseteq Nat
      /\ DOMAIN t \subseteq Nat
      /\ \A i \in DOMAIN t : i + 1 \in DOMAIN q /\ i + 1 > 1 /\ t[i] = q[i + 1]
      /\ \A i \in DOMAIN q : i # 1 => i - 1 \in DOMAIN t /\ t[i - 1] = q[i]
  OBVIOUS
<1> HIDE DEF h, t
<1>2. ToSet(q) = {h} \cup ToSet(t)
  BY <1>1 DEF ToSet
<1>3. ASSUME IsInjective(q) PROVE IsInjective(t) /\ h \notin ToSet(t)
  <2>1. ASSUME NEW i \in DOMAIN t, NEW j \in DOMAIN t, t[i] = t[j] PROVE i = j
    <3>1. i + 1 \in DOMAIN q /\ j + 1 \in DOMAIN q /\ q[i + 1] = q[j + 1] /\ i \in Nat /\ j \in Nat
      BY <1>1, <2>1
    <3>2. i + 1 = j + 1
      BY <1>3, <3>1 DEF IsInjective
    <3> QED
      BY <3>1, <3>2
  <2>2. ASSUME NEW i \in DOMAIN t, t[i] = h PROVE FALSE
    <3>1. i + 1 \in DOMAIN q /\ i + 1 # 1 /\ q[i + 1] = q[1] /\ 1 \in DOMAIN q
      BY <1>1, <2>2
    <3> QED
      BY <1>3, <3>1 DEF IsInjective
  <2> QED
    BY <2>1, <2>2 DEF IsInjective, ToSet
<1>4. ASSUME NEW D, OrderedIn(q, D) PROVE OrderedIn(t, D) /\ Below({h} \cap D, ToSet(t) \cap D)
  <2>1. ASSUME NEW i \in DOMAIN t, NEW j \in DOMAIN t, i < j, t[i] \in D, t[j] \in D
        PROVE  t[i] < t[j]
    <3>1. PICK k \in DOMAIN q : k = i + 1 /\ q[k] = t[i]
      BY <1>1
    <3>2. PICK l \in DOMAIN q : l = j + 1 /\ q[l] = t[j]
      BY <1>1
    <3>3. k < l
      BY <1>1, <2>1, <3>1, <3>2
    <3> QED
      BY <1>4, <2>1, <3>1, <3>2, <3>3 DEF OrderedIn
  <2>2. ASSUME NEW i \in DOMAIN t, h \in D, t[i] \in D PROVE h < t[i]
    <3>1. PICK k \in DOMAIN q : k = i + 1 /\ q[k] = t[i]
      BY <1>1
    <3>2. 1 < k
      BY <1>1, <3>1
    <3> QED
      BY <1>1, <1>4, <2>2, <3>1, <3>2 DEF OrderedIn
  <2> QED
    BY <2>1, <2>2 DEF OrderedIn, Below, ToSet
<1> QED
  BY <1>1, <1>2, <1>3, <1>4 DEF h, t

\* Only the elements that a sequence has matter to its order.
LEMMA OrderedSame ==
  ASSUME NEW s, NEW D, NEW E, OrderedIn(s, D), ToSet(s) \cap E \subseteq D
  PROVE  OrderedIn(s, E)
<1> SUFFICES ASSUME NEW i \in DOMAIN s, NEW j \in DOMAIN s, i < j, s[i] \in E, s[j] \in E
             PROVE  s[i] < s[j]
  BY DEF OrderedIn
<1>1. s[i] \in ToSet(s) /\ s[j] \in ToSet(s)
  BY DEF ToSet
<1> QED
  BY <1>1 DEF OrderedIn

\* What adding an element gives.
LEMMA AppendOne ==
  ASSUME NEW s \in Seq(Nat), NEW w \in Nat
  PROVE  /\ Append(s, w) \in Seq(Nat) /\ ToSet(Append(s, w)) = ToSet(s) \cup {w}
         /\ IsInjective(s) /\ w \notin ToSet(s) => IsInjective(Append(s, w))
         /\ \A D : OrderedIn(s, D) /\ Below(ToSet(s) \cap D, {w} \cap D) => OrderedIn(Append(s, w), D)
<1> DEFINE t == Append(s, w)
           k == Len(s) + 1
<1>1. /\ t \in Seq(Nat) /\ DOMAIN t = 1..k /\ DOMAIN s = 1..(k - 1) /\ k \in Nat
      /\ t[k] = w /\ \A i \in DOMAIN s : t[i] = s[i]
  OBVIOUS
<1>2. \A i \in DOMAIN t : i = k \/ (i \in DOMAIN s /\ t[i] = s[i] /\ i < k)
  BY <1>1
<1>3. k \in DOMAIN t /\ \A i \in DOMAIN s : i \in DOMAIN t
  BY <1>1
<1> HIDE DEF t, k
<1>4. ToSet(t) = ToSet(s) \cup {w}
  BY <1>1, <1>2, <1>3 DEF ToSet
<1>5. ASSUME IsInjective(s), w \notin ToSet(s) PROVE IsInjective(t)
  <2>1. \A i \in DOMAIN s : s[i] # w
    BY <1>5 DEF ToSet
  <2> QED
    BY <1>1, <1>2, <1>5, <2>1 DEF IsInjective
<1>6. ASSUME NEW D, OrderedIn(s, D), Below(ToSet(s) \cap D, {w} \cap D) PROVE OrderedIn(t, D)
  <2> SUFFICES ASSUME NEW i \in DOMAIN t, NEW j \in DOMAIN t, i < j, t[i] \in D, t[j] \in D
               PROVE  t[i] < t[j]
    BY DEF OrderedIn
  <2>1. i \in DOMAIN s /\ t[i] = s[i]
    BY <1>1, <1>2
  <2>2. CASE j = k
    BY <1>1, <1>6, <2>1, <2>2 DEF Below, ToSet
  <2>3. CASE j \in DOMAIN s /\ t[j] = s[j]
    BY <1>6, <2>1, <2>3 DEF OrderedIn
  <2> QED
    BY <1>2, <2>2, <2>3
<1> QED
  BY <1>1, <1>4, <1>5, <1>6 DEF t

\* An increasing sequence goes on with greater numbers.
LEMMA IncreasingConcat ==
  ASSUME NEW s \in Seq(Nat), NEW t \in Seq(Nat),
         Increasing(s), Increasing(t), Below(ToSet(s), ToSet(t))
  PROVE  Increasing(s \o t)
<1>1. \A r \in Seq(Nat) : OrderedIn(r, Nat) <=> Increasing(r)
  <2> SUFFICES ASSUME NEW r \in Seq(Nat) PROVE OrderedIn(r, Nat) <=> Increasing(r)
    OBVIOUS
  <2>1. \A i \in DOMAIN r : r[i] \in Nat
    OBVIOUS
  <2> QED
    BY <2>1 DEF OrderedIn, Increasing
<1>2. Below(ToSet(s) \cap Nat, ToSet(t) \cap Nat)
  BY DEF Below
<1>3. s \o t \in Seq(Nat)
  OBVIOUS
<1> QED
  BY <1>1, <1>2, <1>3, OrderedConcat

\* The next-turn messages that turns began with, those a turn is about to begin with and
\* those that are queued, in this order, are in the order in which they were given.
NextOrder ==
  /\ ToSet(started) \subseteq 1..nextCount
  /\ Increasing(started) /\ Increasing(nextQueue) /\ Below(ToSet(started), ToSet(nextQueue))
  /\ \A c \in Calls : Starting(c) => /\ Increasing(held[c].msgs)
                                     /\ Below(ToSet(started), ToSet(held[c].msgs))
                                     /\ Below(ToSet(held[c].msgs), ToSet(nextQueue))

\* The queue is taken from its front, put back there, and extended with a greater number.
LEMMA NextOrderStep ==
  Serial /\ TypeOK /\ OneCall /\ NextShape /\ NextOrder /\ [Next]_vars => NextOrder'
<1> SUFFICES ASSUME Serial, TypeOK, OneCall, NextShape, NextOrder, [Next]_vars PROVE NextOrder'
  OBVIOUS
<1> USE Bounds
<1>0. CallType /\ NextType
  BY DEF TypeOK
<1>a. ToSet(<<>>) = {} /\ Increasing(<<>>)
  BY DEF ToSet, Increasing
<1>b. /\ nextQueue \in Seq(Nat) /\ started \in Seq(Nat) /\ nextCount \in Nat
      /\ \A c \in Calls : held[c].msgs \in Seq(Nat)
  BY <1>0 DEF NextType, CallType
<1>c. \A c, d \in Calls : pc[c] \in {"createState", "announce", "beforeStart"} /\ d # c => ~Starting(d)
  BY DEF OneCall, Active, Starting, NotBegun, Over
<1>1. ASSUME UNCHANGED nextVars,
             \A c \in Calls : (Starting(c)' <=> Starting(c)) /\ (Starting(c) => held'[c] = held[c])
      PROVE NextOrder'
  BY <1>1 DEF NextOrder, nextVars
<1>2. CASE next_turn
  <2>1. PICK n \in Nat : n = nextCount + 1
    BY <1>b
  <2>2. /\ nextCount' = n /\ UNCHANGED <<started, pc, held>>
        /\ nextQueue' = Append(nextQueue, n)
    BY <1>2, <2>1 DEF next_turn, callVars
  <2>3. PICK x : x = <<n>>
    OBVIOUS
  <2>4. x \in Seq(Nat) /\ ToSet(x) = {n} /\ Increasing(x)
    BY <2>3 DEF ToSet, Increasing
  <2>5. nextQueue' = nextQueue \o x
    BY <1>b, <2>2, <2>3
  <2>6. \A m \in 1..nextCount : m < n /\ m \in 1..n
    BY <1>b, <2>1
  <2>7. Increasing(nextQueue \o x)
    <3>1. Below(ToSet(nextQueue), ToSet(x))
      BY <2>4, <2>6 DEF Below, NextShape
    <3> QED
      BY <1>b, <2>4, <3>1, IncreasingConcat DEF NextOrder
  <2>8. ToSet(nextQueue \o x) = ToSet(nextQueue) \cup {n}
    BY <1>b, <2>4, ConcatSets
  <2>9. Below(ToSet(started), {n}) /\ \A c \in Calls : Starting(c) => Below(ToSet(held[c].msgs), {n})
    BY <2>6 DEF Below, NextShape, NextOrder
  <2> QED
    BY <2>2, <2>5, <2>6, <2>7, <2>8, <2>9 DEF NextOrder, Below, Starting
<1>3. ASSUME NEW c \in Calls, CreateStateDone(c) PROVE NextOrder'
  <2>1. /\ nextQueue' = <<>> /\ UNCHANGED <<nextCount, started>> /\ held'[c].msgs = nextQueue
        /\ pc[c] = "createState" /\ \A d \in Calls \ {c} : pc'[d] = pc[d]
    BY <1>0, <1>3 DEF CreateStateDone, CallType, Nothing
  <2>2. \A d \in Calls \ {c} : ~Starting(d)'
    BY <1>c, <2>1 DEF Starting
  <2> QED
    BY <1>a, <2>1, <2>2 DEF NextOrder, Below
<1>4. ASSUME NEW c \in Calls, BeforeStartDone(c) PROVE NextOrder'
  <2>1. /\ UNCHANGED <<nextCount, nextQueue>> /\ Starting(c) /\ pc[c] = "beforeStart"
        /\ started' = started \o held[c].msgs
        /\ ~Starting(c)' /\ \A d \in Calls \ {c} : pc'[d] = pc[d]
    BY <1>0, <1>4 DEF BeforeStartDone, CallType, Starting
  <2>2. \A d \in Calls : ~Starting(d)'
    BY <1>c, <2>1 DEF Starting
  <2>3. Increasing(started')
    BY <1>b, <2>1, IncreasingConcat DEF NextOrder
  <2>4. ToSet(started') = ToSet(started) \cup ToSet(held[c].msgs)
    BY <1>b, <2>1, ConcatSets
  <2> QED
    BY <2>1, <2>2, <2>3, <2>4 DEF NextOrder, NextShape, Below
<1>5. ASSUME NEW c \in Calls, AnnounceFails(c) PROVE NextOrder'
  <2>1. /\ UNCHANGED <<nextCount, started>> /\ Starting(c) /\ pc[c] = "announce"
        /\ nextQueue' = held[c].msgs \o nextQueue
        /\ ~Starting(c)' /\ \A d \in Calls \ {c} : pc'[d] = pc[d]
    BY <1>0, <1>5 DEF AnnounceFails, PromptFails, CallType, Starting
  <2>2. \A d \in Calls : ~Starting(d)'
    BY <1>c, <2>1 DEF Starting
  <2>3. Increasing(nextQueue')
    BY <1>b, <2>1, IncreasingConcat DEF NextOrder
  <2>4. ToSet(nextQueue') = ToSet(held[c].msgs) \cup ToSet(nextQueue)
    BY <1>b, <2>1, ConcatSets
  <2> QED
    BY <2>1, <2>2, <2>3, <2>4 DEF NextOrder, Below
<1>6. ASSUME NEW c \in Calls, UNCHANGED nextVars, ~Starting(c)',
             \A d \in Calls \ {c} : pc'[d] = pc[d] /\ held'[d] = held[d]
      PROVE NextOrder'
  BY <1>6 DEF NextOrder, Starting, nextVars
<1>7. ASSUME NEW c \in Calls, BeforeStartFails(c) PROVE NextOrder'
  BY <1>0, <1>6, <1>7 DEF BeforeStartFails, PromptFails, CallType, Starting, nextVars
<1>8. ASSUME NEW c \in Calls, Cancel(c) PROVE NextOrder'
  <2>0. "raised" \in Thens
    BY DEF Thens
  <2>1. /\ UNCHANGED nextVars
        /\ \/ PromptFails(c)
           \/ Continue(c, "raised") /\ held' = held
           \/ Flush(c, pending, "raised") /\ held' = [held EXCEPT ![c] = Nothing]
    BY <1>8 DEF Cancel, PromptFails, nextVars
  <2>2. CASE PromptFails(c)
    BY <1>0, <1>6, <2>1, <2>2 DEF PromptFails, CallType, Starting
  <2>3. CASE Continue(c, "raised") /\ held' = held
    BY <1>0, <1>6, <2>0, <2>1, <2>3, ContinueStep DEF Starting, Over
  <2>4. CASE Flush(c, pending, "raised") /\ held' = [held EXCEPT ![c] = Nothing]
    <3>1. \A d \in Calls \ {c} : held'[d] = held[d]
      BY <1>0, <2>4 DEF CallType
    <3> QED
      BY <1>0, <1>6, <2>0, <2>1, <2>4, <3>1, FlushStep DEF Starting, Over
  <2> QED
    BY <2>1, <2>2, <2>3, <2>4
<1> QED
  BY <1>0, <1>1, <1>2, <1>3, <1>4, <1>5, <1>7, <1>8, NextFrame

-----------------------------------------------------------------------------
(* Session writes *)

\* The write a flush is appending is the first one: no other call removes it meanwhile.
FirstWrite == \A c \in Calls : pc[c] = "writing" => pending # <<>> /\ write[c] = Head(pending)

\* It stays the first one: others append behind it, and no other call flushes.
LEMMA FirstWriteStep == TypeOK /\ OneCall /\ FirstWrite /\ [Next]_vars => FirstWrite'
<1> SUFFICES ASSUME TypeOK, OneCall, FirstWrite, [Next]_vars, NEW c \in Calls, pc'[c] = "writing"
             PROVE  pending' # <<>> /\ write'[c] = Head(pending')
  BY DEF FirstWrite
<1>0. CallType /\ WriteType /\ pending \in Seq(Nat)
  BY Bounds DEF TypeOK, WriteType
<1>1. CASE pc[c] = "writing" /\ write'[c] = write[c] /\ pending' = pending
  BY <1>1 DEF FirstWrite
<1>2. CASE pc[c] = "writing" /\ write'[c] = write[c] /\ Write
  <2>1. pending' = pending \/ pending' = Append(pending, issued')
    BY <1>2 DEF Write
  <2>2. pending # <<>> /\ write'[c] = Head(pending)
    BY <1>2 DEF FirstWrite
  <2>3. \A x : Append(pending, x) # <<>> /\ Head(Append(pending, x)) = Head(pending)
    BY <1>0, <2>2
  <2> QED
    BY <2>1, <2>2, <2>3
<1>3. ASSUME pc[c] = "writing", NEW d \in Calls \ {c}, WriteDone(d) PROVE FALSE
  <2>1. Active(c) /\ Active(d)
    BY <1>3 DEF WriteDone, Active, NotBegun, Over
  <2> QED
    BY <2>1 DEF OneCall
<1> QED
  BY <1>0, <1>1, <1>2, <1>3, WriteFrameOf

\* WritesOnceInOrder with session and pending taken apart; and a write that its caller is
\* still appending was not refused.
WriteInv ==
  /\ OrderedIn(session, deferred) /\ OrderedIn(pending, deferred)
  /\ Below(ToSet(session) \cap deferred, ToSet(pending) \cap deferred)
  /\ IsInjective(session) /\ IsInjective(pending) /\ ToSet(session) \cap ToSet(pending) = {}
  /\ ToSet(session) \cup ToSet(pending) = (1..issued) \ (direct \cup refused)
  /\ ToSet(pending) \subseteq deferred /\ deferred \subseteq ToSet(session) \cup ToSet(pending)
  /\ direct \cap refused = {}

\* A write is appended to the session when it leaves the front of the queue.
LEMMA WriteInvStep == WriteType /\ WriteInv /\ FirstWrite /\ [Next]_vars => WriteInv'
<1> SUFFICES ASSUME WriteType, WriteInv, FirstWrite, [Next]_vars PROVE WriteInv'
  OBVIOUS
<1> USE Bounds
<1>a. /\ session \in Seq(Nat) /\ pending \in Seq(Nat) /\ issued \in Nat
      /\ direct \subseteq 1..issued /\ refused \subseteq 1..issued /\ deferred \subseteq 1..issued
  BY DEF WriteType
<1>1. CASE UNCHANGED writeVars
  BY <1>1 DEF WriteInv, writeVars
<1>2. CASE Write
  <2>1. PICK n \in Nat : n = issued + 1
    BY <1>a
  <2>2. issued' = n /\ UNCHANGED <<session, refused>>
    BY <1>2, <2>1 DEF Write
  <2>3. n \notin 1..issued /\ 1..n = (1..issued) \cup {n} /\ \A m \in 1..issued : m < n
    BY <1>a, <2>1
  <2>4. n \notin ToSet(session) /\ n \notin ToSet(pending)
    BY <2>3 DEF WriteInv
  <2>5. CASE phase = "idle"
    <3>1. direct' = direct \cup {n} /\ UNCHANGED <<pending, deferred>>
      BY <1>2, <2>1, <2>5 DEF Write
    <3>2. (1..n) \ (direct' \cup refused) = (1..issued) \ (direct \cup refused)
      BY <2>3, <3>1
    <3>3. direct' \cap refused = {}
      BY <1>a, <2>3, <3>1 DEF WriteInv
    <3> QED
      BY <2>2, <3>1, <3>2, <3>3 DEF WriteInv
  <2>6. CASE phase # "idle"
    <3>1. pending' = Append(pending, n) /\ deferred' = deferred \cup {n} /\ direct' = direct
      BY <1>2, <2>1, <2>6 DEF Write
    <3>4. ToSet(pending') = ToSet(pending) \cup {n} /\ IsInjective(pending')
      BY <1>a, <2>4, <3>1, AppendOne DEF WriteInv
    <3>5. OrderedIn(session, deferred') /\ OrderedIn(pending, deferred')
      BY <2>4, <3>1, OrderedSame DEF WriteInv
    <3>6. OrderedIn(pending', deferred')
      <4>1. Below(ToSet(pending) \cap deferred', {n} \cap deferred')
        BY <2>3, <3>1 DEF Below, WriteInv
      <4> QED
        BY <1>a, <3>1, <3>5, <4>1, AppendOne
    <3>7. Below(ToSet(session) \cap deferred', ToSet(pending') \cap deferred')
      BY <1>a, <2>3, <2>4, <3>1, <3>4 DEF Below, WriteInv
    <3>8. ToSet(session) \cup ToSet(pending') = (1..n) \ (direct \cup refused)
      <4>1. n \notin direct /\ n \notin refused
        BY <1>a, <2>3
      <4> QED
        BY <2>3, <3>4, <4>1 DEF WriteInv
    <3>9. /\ ToSet(session) \cap ToSet(pending') = {}
          /\ ToSet(pending') \subseteq deferred' /\ deferred' \subseteq ToSet(session) \cup ToSet(pending')
      BY <2>4, <3>1, <3>4 DEF WriteInv
    <3>10. IsInjective(session) /\ direct \cap refused = {}
      BY DEF WriteInv
    <3> QED
      BY <2>2, <3>1, <3>4, <3>5, <3>6, <3>7, <3>8, <3>9, <3>10 DEF WriteInv
  <2> QED
    BY <2>5, <2>6
<1>3. ASSUME NEW w \in direct, DirectWriteDone(w) PROVE WriteInv'
  <2>1. direct' = direct \ {w} /\ session' = Append(session, w)
        /\ UNCHANGED <<pending, issued, deferred, refused>>
    BY <1>3 DEF DirectWriteDone
  <2>2. w \in Nat /\ w \in 1..issued /\ w \notin refused
    BY <1>a DEF WriteInv
  <2>3. w \notin ToSet(session) /\ w \notin ToSet(pending) /\ w \notin deferred
    BY DEF WriteInv
  <2>6. ToSet(session') = ToSet(session) \cup {w} /\ IsInjective(session')
    BY <1>a, <2>1, <2>2, <2>3, AppendOne DEF WriteInv
  <2>7. OrderedIn(session', deferred)
    <3>1. Below(ToSet(session) \cap deferred, {w} \cap deferred)
      BY <2>3 DEF Below
    <3> QED
      BY <1>a, <2>1, <2>2, <3>1, AppendOne DEF WriteInv
  <2>8. ToSet(session') \cap deferred = ToSet(session) \cap deferred
    BY <2>3, <2>6
  <2>9. ToSet(session') \cup ToSet(pending) = (1..issued) \ (direct' \cup refused)
    BY <2>1, <2>2, <2>6 DEF WriteInv
  <2>10. ToSet(session') \cap ToSet(pending) = {} /\ direct' \cap refused = {}
    BY <2>1, <2>3, <2>6 DEF WriteInv
  <2>11. /\ OrderedIn(pending, deferred) /\ IsInjective(pending)
         /\ Below(ToSet(session') \cap deferred, ToSet(pending) \cap deferred)
    BY <2>8 DEF WriteInv
  <2>12. ToSet(pending) \subseteq deferred /\ deferred \subseteq ToSet(session') \cup ToSet(pending)
    BY <2>6 DEF WriteInv
  <2> QED
    BY <2>1, <2>6, <2>7, <2>9, <2>10, <2>11, <2>12 DEF WriteInv
<1>4. ASSUME NEW w \in direct, DirectWriteFails(w) PROVE WriteInv'
  BY <1>4 DEF DirectWriteFails, WriteInv
<1>5. ASSUME NEW c \in Calls, WriteDone(c) PROVE WriteInv'
  <2>1. /\ pending # <<>> /\ session' = Append(session, Head(pending)) /\ pending' = Tail(pending)
        /\ UNCHANGED <<issued, deferred, direct, refused>>
    BY <1>5 DEF WriteDone, FirstWrite
  <2>2. PICK h : h = Head(pending)
    OBVIOUS
  <2>3. /\ h \in Nat /\ pending' \in Seq(Nat) /\ ToSet(pending) = {h} \cup ToSet(pending')
        /\ IsInjective(pending') /\ h \notin ToSet(pending')
        /\ OrderedIn(pending', deferred) /\ Below({h} \cap deferred, ToSet(pending') \cap deferred)
    BY <1>a, <2>1, <2>2, HeadTail DEF WriteInv
  <2>6. h \notin ToSet(session)
    BY <2>3 DEF WriteInv
  <2>7. ToSet(session') = ToSet(session) \cup {h} /\ IsInjective(session')
    BY <1>a, <2>1, <2>2, <2>3, <2>6, AppendOne DEF WriteInv
  <2>8. OrderedIn(session', deferred)
    <3>1. Below(ToSet(session) \cap deferred, {h} \cap deferred)
      BY <2>3 DEF Below, WriteInv
    <3> QED
      BY <1>a, <2>1, <2>2, <2>3, <3>1, AppendOne DEF WriteInv
  <2>9. Below(ToSet(session') \cap deferred, ToSet(pending') \cap deferred)
    BY <2>3, <2>7 DEF Below, WriteInv
  <2>10. /\ ToSet(session') \cap ToSet(pending') = {}
         /\ ToSet(session') \cup ToSet(pending') = ToSet(session) \cup ToSet(pending)
    BY <2>3, <2>6, <2>7 DEF WriteInv
  <2>11. /\ ToSet(pending') \subseteq deferred /\ direct \cap refused = {}
         /\ ToSet(session) \cup ToSet(pending) = (1..issued) \ (direct \cup refused)
         /\ deferred \subseteq ToSet(session) \cup ToSet(pending)
    BY <2>3 DEF WriteInv
  <2> QED
    BY <2>1, <2>3, <2>7, <2>8, <2>9, <2>10, <2>11 DEF WriteInv
<1> QED
  BY <1>1, <1>2, <1>3, <1>4, <1>5, WriteFrame

-----------------------------------------------------------------------------
(* Theorems *)

\* What holds however the callers behave.
HarnessInv == TypeOK /\ Flushing /\ SteerInv /\ EmptyHands /\ NextShape

\* What callers that wait for a call to return can rely on besides.
SerialInv == OneCall /\ PhaseInv /\ NextOrder /\ FirstWrite /\ WriteInv

\* Nothing has happened yet.
LEMMA HarnessInvInit == Init => HarnessInv /\ SerialInv
<1> SUFFICES ASSUME Init PROVE HarnessInv /\ SerialInv
  OBVIOUS
<1> USE Bounds
<1>0. ToSet(<<>>) = {} /\ IsInjective(<<>>) /\ Increasing(<<>>) /\ \A D : OrderedIn(<<>>, D)
  BY DEF ToSet, IsInjective, Increasing, OrderedIn
<1>1. TypeOK
  <2>1. WriteType
    BY DEF Init, WriteType
  <2>2. SteerType
    BY DEF Init, SteerType
  <2>3. NextType
    BY DEF Init, NextType
  <2>4. CallType
    BY DEF Init, CallType, Nothing
  <2> QED
    BY <2>1, <2>2, <2>3, <2>4 DEF TypeOK
<1>2. \A c \in Calls : /\ ~Polled(c) /\ ~Starting(c) /\ ~Active(c) /\ ~UnderWay(c)
                       /\ pc[c] # "writing"
  BY DEF Init, Polled, Starting, Active, UnderWay, InLoop, NotBegun
<1>3. SteerInv
  <2>1. \A c \in Calls : Hands[c] = {}
    BY <1>2 DEF Hands
  <2>2. \A m : m \notin 1..0
    OBVIOUS
  <2> QED
    BY <1>0, <1>2, <2>1, <2>2 DEF Init, SteerInv, OnePlace
<1>4. EmptyHands /\ NextShape
  BY <1>0, <1>2 DEF Init, EmptyHands, NextShape, Nothing
<1>5. OneCall /\ NextOrder
  BY <1>0, <1>2 DEF Init, OneCall, NextOrder, Below
<1>8. PhaseInv
  BY DEF Init, PhaseInv, Told, Quiet
<1>6. WriteInv
  BY <1>0 DEF Init, WriteInv, Below
<1>7. Flushing /\ FirstWrite
  BY <1>2 DEF Flushing, FirstWrite
<1> QED
  BY <1>1, <1>3, <1>4, <1>5, <1>6, <1>7, <1>8 DEF HarnessInv, SerialInv

\* The first invariant is inductive.
LEMMA HarnessInvStep == HarnessInv /\ [Next]_vars => HarnessInv'
<1> SUFFICES ASSUME HarnessInv, [Next]_vars PROVE HarnessInv'
  OBVIOUS
<1>1. WriteType /\ CallType /\ TypeOK /\ Flushing /\ SteerInv /\ EmptyHands /\ NextShape
  BY DEF HarnessInv, TypeOK
<1> QED
  BY <1>1, WriteTypeStep, CallTypeStep, FlushingStep, SteerStep, EmptyHandsStep, NextShapeStep DEF HarnessInv, TypeOK

\* The second is inductive relative to the first, for callers that wait.
LEMMA SerialInvStep == Serial /\ HarnessInv /\ SerialInv /\ [Next]_vars => SerialInv'
<1> SUFFICES ASSUME Serial, HarnessInv, SerialInv, [Next]_vars PROVE SerialInv'
  OBVIOUS
<1>1. WriteType /\ TypeOK /\ NextShape /\ OneCall /\ PhaseInv /\ NextOrder /\ FirstWrite /\ WriteInv
  BY DEF HarnessInv, SerialInv, TypeOK
<1> QED
  BY <1>1, OneCallStep, PhaseInvStep, NextOrderStep, FirstWriteStep, WriteInvStep DEF SerialInv

\* Every variable of the harness keeps its type, however calls of prompt, compact,
\* navigate_tree, steer, next_turn, abort and the session's writes interleave and fail.
THEOREM TypeInvariant == Spec => []TypeOK
<1>1. HarnessInv => TypeOK
  BY DEF HarnessInv
<1> QED
  BY <1>1, HarnessInvInit, HarnessInvStep, PTL DEF Spec

\* No steering message is lost sight of or has two fates: queue, poll, delivery, abort and
\* cancelled polls share the accepted messages out among them, with any number of
\* overlapping calls (steer, abort, _drain_queued_messages).
THEOREM SteeringAccountedInvariant == Spec => []SteeringAccounted
<1>1. HarnessInv => SteeringAccounted
  <2> SUFFICES ASSUME HarnessInv PROVE SteeringAccounted
    OBVIOUS
  <2> DEFINE inHand == UNION {ToSet(held[c].msgs) : c \in {d \in Calls : pc[d] = "polled"}}
             places == <<ToSet(steerQueue), inHand, ToSet(delivered), cleared, dropped, lost>>
  <2>1. \A m : m \in inHand <=> \E c \in Calls : m \in Hands[c]
    BY DEF Hands, Polled
  <2>2. OnePlace(ToSet(steerQueue), ToSet(delivered), cleared, dropped, lost, Hands, steered)
    BY DEF HarnessInv, SteerInv
  <2> HIDE DEF inHand
  <2>3. \A m : m \in 1..steered <=> \/ m \in ToSet(steerQueue) \/ m \in inHand \/ m \in ToSet(delivered)
                                    \/ m \in cleared \/ m \in dropped \/ m \in lost
    BY <2>1, <2>2 DEF OnePlace
  <2>4. UNION {places[i] : i \in 1..6}
          = ToSet(steerQueue) \cup inHand \cup ToSet(delivered) \cup cleared \cup dropped \cup lost
    <3>1. 1..6 = {1, 2, 3, 4, 5, 6}
      OBVIOUS
    <3> QED
      BY <3>1
  <2>5. UNION {places[i] : i \in 1..6} = 1..steered
    BY <2>3, <2>4
  <2>6. /\ ToSet(steerQueue) \cap inHand = {} /\ ToSet(steerQueue) \cap ToSet(delivered) = {}
        /\ ToSet(steerQueue) \cap cleared = {} /\ ToSet(steerQueue) \cap dropped = {}
        /\ ToSet(steerQueue) \cap lost = {} /\ inHand \cap ToSet(delivered) = {}
        /\ inHand \cap cleared = {} /\ inHand \cap dropped = {} /\ inHand \cap lost = {}
        /\ ToSet(delivered) \cap cleared = {} /\ ToSet(delivered) \cap dropped = {}
        /\ ToSet(delivered) \cap lost = {} /\ cleared \cap dropped = {}
        /\ cleared \cap lost = {} /\ dropped \cap lost = {}
    BY <2>1, <2>2 DEF OnePlace
  <2>7. \A i, j \in 1..6 : i # j => places[i] \cap places[j] = {}
    <3>1. \A i, j \in 1..6 : i < j => places[i] \cap places[j] = {}
      BY <2>6
    <3>2. \A i, j \in 1..6 : i # j => i < j \/ j < i
      OBVIOUS
    <3> HIDE DEF places
    <3> QED
      BY <3>1, <3>2
  <2>8. aborts = 0 => cleared \cup dropped = {}
    BY DEF HarnessInv, SteerInv
  <2> QED
    BY <2>5, <2>7, <2>8 DEF SteeringAccounted, inHand
<1> QED
  BY <1>1, HarnessInvInit, HarnessInvStep, PTL DEF Spec

\* Callers that wait for a call to return can always abort the turn that runs: while its
\* loop is at work the harness holds its controller (_execute_turn).
THEOREM AbortReachesLoopInvariant == ASSUME Serial PROVE Spec => []AbortReachesLoop
<1>1. SerialInv => AbortReachesLoop
  BY DEF SerialInv, OneCall, AbortReachesLoop, UnderWay
<1>2. HarnessInv /\ SerialInv /\ [Next]_vars => HarnessInv' /\ SerialInv'
  BY HarnessInvStep, SerialInvStep
<1> QED
  BY <1>1, <1>2, HarnessInvInit, PTL DEF Spec

\* For the same callers the phase is that of the call under way, through every flush, failure
\* and cancellation, and neither phase nor controller outlives a call (_execute_turn).
THEOREM PhaseTellsInvariant == ASSUME Serial PROVE Spec => []PhaseTells
<1>1. SerialInv => PhaseTells
  BY DEF SerialInv, PhaseInv, Told, Quiet, PhaseTells
<1>2. HarnessInv /\ SerialInv /\ [Next]_vars => HarnessInv' /\ SerialInv'
  BY HarnessInvStep, SerialInvStep
<1> QED
  BY <1>1, <1>2, HarnessInvInit, PTL DEF Spec

\* For the same callers next-turn messages begin turns in the order in which they were
\* given, whichever announcements fail and put their messages back.
THEOREM NextTurnInOrderInvariant == ASSUME Serial PROVE Spec => []NextTurnInOrder
<1>1. HarnessInv /\ SerialInv => NextTurnInOrder
  <2> SUFFICES ASSUME HarnessInv, SerialInv, NEW c \in Calls, pc[c] \in {"announce", "beforeStart"}
               PROVE  Increasing(started \o held[c].msgs \o nextQueue)
    BY DEF NextTurnInOrder
  <2>1. Starting(c) /\ NextOrder /\ NextType /\ CallType
    BY DEF Starting, HarnessInv, SerialInv, TypeOK
  <2>2. started \in Seq(Nat) /\ held[c].msgs \in Seq(Nat) /\ nextQueue \in Seq(Nat)
    BY <2>1, Bounds DEF NextType, CallType
  <2>3. Increasing(started \o held[c].msgs) /\ started \o held[c].msgs \in Seq(Nat)
    BY <2>1, <2>2, IncreasingConcat DEF NextOrder
  <2>4. ToSet(started \o held[c].msgs) = ToSet(started) \cup ToSet(held[c].msgs)
    BY <2>2, ConcatSets
  <2>5. Below(ToSet(started \o held[c].msgs), ToSet(nextQueue))
    BY <2>1, <2>4 DEF NextOrder, Below
  <2> QED
    BY <2>1, <2>2, <2>3, <2>5, IncreasingConcat DEF NextOrder
<1>2. HarnessInv /\ SerialInv /\ [Next]_vars => HarnessInv' /\ SerialInv'
  BY HarnessInvStep, SerialInvStep
<1> QED
  BY <1>1, <1>2, HarnessInvInit, PTL DEF Spec

\* For the same callers every session write is made, put off, under way or refused, once,
\* and those put off reach the session in the order in which they were asked for, whatever
\* fails and however many writes are added during a flush.
THEOREM WritesOnceInOrderInvariant == ASSUME Serial PROVE Spec => []WritesOnceInOrder
<1>1. HarnessInv /\ SerialInv => WritesOnceInOrder
  <2> SUFFICES ASSUME HarnessInv, SerialInv PROVE WritesOnceInOrder
    OBVIOUS
  <2>1. WriteInv /\ session \in Seq(Nat) /\ pending \in Seq(Nat)
    BY Bounds DEF HarnessInv, SerialInv, TypeOK, WriteType
  <2> DEFINE flow == session \o pending
  <2>2. OrderedIn(flow, deferred)
    BY <2>1, OrderedConcat DEF WriteInv
  <2>3. ToSet(flow) = ToSet(session) \cup ToSet(pending) /\ IsInjective(flow)
    BY <2>1, ConcatSets DEF WriteInv
  <2> HIDE DEF flow
  <2>4. /\ \A i, j \in DOMAIN flow : i < j /\ {flow[i], flow[j]} \subseteq deferred => flow[i] < flow[j]
        /\ IsInjective(flow)
        /\ ToSet(flow) = (1..issued) \ (direct \cup refused)
        /\ ToSet(pending) \subseteq deferred /\ deferred \subseteq ToSet(flow)
    BY <2>1, <2>2, <2>3 DEF WriteInv, OrderedIn
  <2> QED
    BY <2>4 DEF WritesOnceInOrder, flow
<1>2. HarnessInv /\ SerialInv /\ [Next]_vars => HarnessInv' /\ SerialInv'
  BY HarnessInvStep, SerialInvStep
<1> QED
  BY <1>1, <1>2, HarnessInvInit, PTL DEF Spec

\* A turn that reaches its agent_end tail, at once, after a flush or after the report of a
\* failure, leaves no write behind in _pending_session_writes.
THEOREM IdleAfterTurnIsFlushedHolds == Spec => IdleAfterTurnIsFlushed
<1> DEFINE Flushed == \A c \in Calls : (pc[c] # "tail" /\ pc'[c] = "tail") => pending' = <<>>
<1>1. HarnessInv /\ [Next]_vars => Flushed
  <2> SUFFICES ASSUME HarnessInv, [Next]_vars, NEW c \in Calls, pc[c] # "tail", pc'[c] = "tail"
               PROVE  pending' = <<>>
    OBVIOUS
  <2>0. CallType /\ "loop" \in Thens /\ "ended" \in Thens /\ "returned" \in Thens /\ "raised" \in Thens
    BY DEF HarnessInv, TypeOK, Thens
  <2>1. ASSUME NEW d \in Calls, NEW ws, NEW what \in Thens, Flush(d, ws, what) PROVE ws = <<>>
    BY <2>0, <2>1, FlushStep DEF Over
  <2>2. ASSUME NEW d \in Calls, Unwind(d) PROVE pending = <<>>
    BY <2>0, <2>2, UnwindStep
  <2>3. ASSUME NEW d \in Calls, Continue(d, "raised") PROVE FALSE
    BY <2>0, <2>3, ContinueStep DEF Over
  <2>4. ASSUME NEW d \in Calls, PromptFails(d) PROVE FALSE
    BY <2>0, <2>4 DEF PromptFails, CallType
  <2>5. ASSUME NEW d \in Calls, Progress(d) PROVE pending' = <<>>
    <3>1. CASE WriteDone(d)
      BY <2>0, <3>1, WriteDoneStep DEF Over
    <3>2. CASE TailDone(d)
      BY <2>0, <2>1, <3>2 DEF TailDone, writeVars
    <3>3. CASE CreateStateDone(d) \/ AnnounceDone(d) \/ BeforeStartDone(d) \/ PollDone(d) \/ EndWork(d)
      BY <2>0, <3>3 DEF CreateStateDone, AnnounceDone, BeforeStartDone, PollDone, EndWork, CallType, Over
    <3> QED
      BY <2>5, <3>1, <3>2, <3>3 DEF Progress
  <2>6. ASSUME NEW d \in Calls, Failure(d) PROVE pending' = <<>>
    <3>1. pending' = pending
      BY <2>6 DEF Failure, CreateStateFails, AnnounceFails, BeforeStartFails, PollFails, WriteFails,
         TailFails, Cancel, PromptFails, writeVars
    <3>2. \/ PromptFails(d) \/ Unwind(d) \/ Continue(d, "raised") \/ Flush(d, pending, "raised")
      BY <2>6 DEF Failure, CreateStateFails, AnnounceFails, BeforeStartFails, PollFails, WriteFails,
         FlushRaises, TailFails, Cancel
    <3> QED
      BY <2>0, <2>1, <2>2, <2>3, <2>4, <3>1, <3>2
  <2>7. ASSUME NEW d \in Calls, Save(d) \/ AgentEnd(d) PROVE pending' = <<>>
    BY <2>0, <2>1, <2>7 DEF Save, AgentEnd, writeVars
  <2>8. ASSUME NEW d \in Calls, NEW mode, Poll(d, mode) PROVE FALSE
    BY <2>0, <2>8 DEF Poll, CallType
  <2>9. ASSUME NEW d \in Calls, Prompt(d) \/ \E what \in {"compaction", "branch_summary"} : BeginWork(d, what)
        PROVE  FALSE
    BY <2>0, <2>9 DEF Prompt, BeginWork, CallType
  <2>10. CASE Write \/ steer \/ next_turn \/ abort \/ \E w \in direct : DirectWriteDone(w) \/ DirectWriteFails(w)
    BY <2>10 DEF Write, steer, next_turn, abort, DirectWriteDone, DirectWriteFails, callVars
  <2>11. CASE UNCHANGED vars
    BY <2>11 DEF vars, callVars
  <2> QED
    BY <2>5, <2>6, <2>7, <2>8, <2>9, <2>10, <2>11 DEF Next, LoopStep
<1>2. HarnessInv /\ [Next]_vars => [Flushed]_vars
  BY <1>1
<1> QED
  BY <1>2, HarnessInvInit, HarnessInvStep, PTL DEF Spec, IdleAfterTurnIsFlushed

=============================================================================
