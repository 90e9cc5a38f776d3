--------------------------- MODULE SdkClientProofs ---------------------------
(***************************************************************************)
(* Theorems about SdkClient, for any number of callers, runs and events    *)
(* and any limits of the replay buffers.                                   *)
(***************************************************************************)
EXTENDS SdkClient, FiniteSetTheorems, TLAPS

-----------------------------------------------------------------------------
(* Inductive invariants *)

\* The pump has taken what it received, unless it failed or a cancellation of close()
\* ended it; close() has returned normally only after it.
Cut == closing \in {"cancelled", "swallowed", "aborted"}

CloseInv ==
  /\ closed <=> closing # "no"
  /\ ready = "none" => pump = "none"
  /\ pump \in {"none", "scheduled"} => rawQueue = <<>>
  /\ pump \in {"running", "ended"} => rawReplay = <<>>
  /\ pump = "ended" => rawQueue = <<>> \/ hub = "failed" \/ Cut
  /\ closing \in {"done", "swallowed"} => pump \in {"none", "ended"}
  /\ hub # "open" => pump = "ended" \/ closed

\* A sequence of events whose ids grow.
Growing(s) == \A i, j \in DOMAIN s : i < j => s[i].id < s[j].id

Ids(s) == {s[i].id : i \in DOMAIN s}

Below(A, B) == \A m \in A, n \in B : m < n

\* The ids of the published events of a run grow, and those of the raw events to come are
\* larger still.
IdInv ==
  /\ Growing(rawReplay) /\ Growing(rawQueue)
  /\ \A i \in Ids(rawReplay) \cup Ids(rawQueue) : i <= lastRaw
  /\ \A r \in Runs : /\ Growing(published[r])
                     /\ \A i \in Ids(published[r]) : i <= lastRaw
                     /\ Below(Ids(published[r]), Ids(rawReplay) \cup Ids(rawQueue))

\* The sequence t ends with s.
Ends(s, t) == \E p \in Seq(Events) : t = p \o s

\* The buffers are what run_events() has to begin with.
ReplayInv ==
  /\ IsFiniteSet(Known)
  /\ ~closed =>
    /\ \A r \in Runs : Ends(replayOf[r], published[r])
    /\ Cardinality(Known) <= MaxReplayRuns =>
         /\ ToSet(replayRuns) = Known /\ Len(replayRuns) = Cardinality(Known)
         /\ \A r \in Runs : Len(published[r]) <= MaxReplayEvents => replayOf[r] = published[r]

Got(c) == taken[c] \o (replay[c] \o queue[c])

\* Nothing has been taken before the stream begins, and nothing is left to replay at its end.
StreamInv ==
  \A c \in Callers :
    /\ pc[c] \in {"idle", "connecting", "waitReady"} =>
         replay[c] = <<>> /\ queue[c] = <<>> /\ taken[c] = <<>>
    /\ Streaming(c) => /\ goal[c] \in Runs
                       /\ Ends(Got(c), published[goal[c]])
                       /\ Unbounded(goal[c]) => Got(c) = published[goal[c]]
    /\ pc[c] = "ended" => replay[c] = <<>>

\* A caller that was told of the end of the run, or knows that it was, has been given a
\* terminal event or has one to come in its replay.
TerminalInv ==
  \A c \in Callers :
    terminal[c] \/ (\E e \in ToSet(taken[c]) : e.kind \in {"final", "terminal"})
    => "terminal" \in yielded[c] \/ HasTerminal(replay[c])

-----------------------------------------------------------------------------
(* Sequences *)

\* The elements of two sequences in a row.
LEMMA ConcatIndex ==
  ASSUME NEW S, NEW s \in Seq(S), NEW t \in Seq(S)
  PROVE  /\ s \o t \in Seq(S) /\ Len(s \o t) = Len(s) + Len(t)
         /\ \A i \in 1..Len(s) : (s \o t)[i] = s[i]
         /\ \A i \in 1..Len(t) : (s \o t)[Len(s) + i] = t[i]
  OBVIOUS

\* What a replay buffer keeps: a suffix no longer than its limit, all of it when it fits.
LEMMA KeepLast ==
  ASSUME NEW S, NEW s \in Seq(S), NEW limit \in Nat \ {0}
  PROVE  /\ Keep(s, limit) \in Seq(S) /\ Len(Keep(s, limit)) <= limit
         /\ Len(s) <= limit => Keep(s, limit) = s
         /\ \E p \in Seq(S) : s = p \o Keep(s, limit)
<1>1. CASE Len(s) <= limit
  <2>1. Keep(s, limit) = s /\ s = <<>> \o s /\ <<>> \in Seq(S)
    BY <1>1 DEF Keep
  <2> QED
    BY <1>1, <2>1
<1>2. CASE Len(s) > limit
  <2>1. PICK n \in Nat : n = Len(s) - limit
    BY <1>2
  <2>2. n + 1 \in 1..Len(s) /\ Len(s) - limit + 1 = n + 1 /\ n \in 1..Len(s) /\ Len(s) - n = limit
    BY <1>2, <2>1
  <2>3. PICK a, b : a = SubSeq(s, 1, n) /\ b = SubSeq(s, n + 1, Len(s))
    OBVIOUS
  <2>4. Keep(s, limit) = b
    BY <1>2, <2>2, <2>3 DEF Keep
  <2>5. /\ a \in Seq(S) /\ Len(a) = n /\ \A i \in 1..n : a[i] = s[i]
        /\ b \in Seq(S) /\ Len(b) = limit /\ \A i \in 1..limit : b[i] = s[n + i]
    BY <2>2, <2>3
  <2>6. Len(s) = n + limit /\ limit \in Nat
    BY <2>1
  <2>7. PICK u : u = a \o b
    OBVIOUS
  <2>8. /\ u \in Seq(S) /\ Len(u) = Len(s)
        /\ \A i \in 1..n : u[i] = a[i]
        /\ \A i \in 1..limit : u[n + i] = b[i]
    <3>1. /\ u \in Seq(S) /\ Len(u) = Len(a) + Len(b)
          /\ \A i \in 1..Len(a) : u[i] = a[i]
          /\ \A i \in 1..Len(b) : u[Len(a) + i] = b[i]
      <4>1. a \in Seq(S) /\ b \in Seq(S)
        BY <2>5
      <4> QED
        BY <2>7, <4>1, ConcatIndex
    <3>2. Len(a) = n /\ Len(b) = limit
      BY <2>5
    <3> QED
      BY <2>6, <3>1, <3>2
  <2>9. ASSUME NEW i \in 1..Len(s) PROVE u[i] = s[i]
    <3>1. CASE i \in 1..n
      BY <2>5, <2>8, <3>1
    <3>2. CASE i \notin 1..n
      <4>1. PICK k \in 1..limit : k = i - n
        BY <2>6, <3>2
      <4>2. u[n + k] = b[k]
        BY <2>8
      <4>3. b[k] = s[n + k]
        BY <2>5
      <4>4. n + k = i
        BY <2>6, <4>1
      <4> QED
        BY <4>2, <4>3, <4>4
    <3> QED
      BY <3>1, <3>2
  <2>10. s = u
    BY <2>8, <2>9
  <2>11. \E p \in Seq(S) : s = p \o Keep(s, limit)
    BY <2>4, <2>5, <2>7, <2>10
  <2>12. Keep(s, limit) \in Seq(S) /\ Len(Keep(s, limit)) = limit
    BY <2>4, <2>5
  <2>13. ~(Len(s) <= limit) /\ limit <= limit
    BY <1>2
  <2> QED
    BY <2>11, <2>12, <2>13
<1>3. Len(s) <= limit \/ Len(s) > limit
  OBVIOUS
<1> QED
  BY <1>1, <1>2, <1>3, Zenon

\* Sequences in a row may be grouped either way.
LEMMA ConcatAssoc ==
  ASSUME NEW S, NEW s \in Seq(S), NEW t \in Seq(S), NEW u \in Seq(S)
  PROVE  (s \o t) \o u = s \o (t \o u)
  OBVIOUS

\* The same, for sequences of events.
LEMMA EventsAssoc ==
  \A s, t, u \in Seq(Events) : (s \o t) \o u = s \o (t \o u)
  OBVIOUS

\* An empty sequence in a row adds nothing.
LEMMA ConcatEmpty ==
  ASSUME NEW S, NEW s \in Seq(S)
  PROVE  s \o <<>> = s /\ <<>> \o s = s /\ <<>> \in Seq(S)
  OBVIOUS

\* To append to the second of two sequences is to append to both.
LEMMA ConcatAppend ==
  ASSUME NEW S, NEW s \in Seq(S), NEW t \in Seq(S), NEW e \in S
  PROVE  s \o Append(t, e) = Append(s \o t, e)
  OBVIOUS

\* The head of a sequence moves to the end of the one before it.
LEMMA HeadTail ==
  ASSUME NEW S, NEW s \in Seq(S), NEW t \in Seq(S), t # <<>>
  PROVE  /\ Head(t) \in S /\ Tail(t) \in Seq(S)
         /\ Append(s, Head(t)) \o Tail(t) = s \o t
  OBVIOUS

\* The suffix of SequencesExt, by what comes before it.
LEMMA SuffixOf ==
  ASSUME NEW S, NEW p \in Seq(S), NEW s \in Seq(S)
  PROVE  IsSuffix(s, p \o s)
<1> DEFINE t == p \o s
           m == Len(s)
           n == Len(t)
           rs == Reverse(s)
           rt == Reverse(t)
<1>1. t \in Seq(S) /\ m \in Nat /\ n \in Nat /\ n = Len(p) + m /\ Len(p) \in Nat
  OBVIOUS
<1>2. \A i \in 1..m : t[Len(p) + i] = s[i]
  OBVIOUS
<1>3. /\ rs \in Seq(S) /\ Len(rs) = m /\ \A i \in 1..m : rs[i] = s[m - i + 1]
      /\ rt \in Seq(S) /\ Len(rt) = n /\ \A i \in 1..n : rt[i] = t[n - i + 1]
  BY <1>1 DEF Reverse
<1> HIDE DEF t, m, n, rs, rt
<1>4. \A i \in 1..m : rs[i] = rt[i]
  <2> SUFFICES ASSUME NEW i \in 1..m PROVE rs[i] = rt[i]
    OBVIOUS
  <2>1. PICK k \in 1..m : k = m - i + 1
    BY <1>1
  <2>2. n - i + 1 = Len(p) + k /\ i \in 1..n
    BY <1>1, <2>1
  <2> QED
    BY <1>2, <1>3, <2>1, <2>2
<1>5. SubSeq(rs, 1, m) = SubSeq(rt, 1, m)
  <2>1. m <= n
    BY <1>1
  <2>2. /\ SubSeq(rs, 1, m) \in Seq(S) /\ Len(SubSeq(rs, 1, m)) = m
        /\ SubSeq(rt, 1, m) \in Seq(S) /\ Len(SubSeq(rt, 1, m)) = m
        /\ \A i \in 1..m : SubSeq(rs, 1, m)[i] = rs[i] /\ SubSeq(rt, 1, m)[i] = rt[i]
    BY <1>1, <1>3, <2>1
  <2> QED
    BY <1>4, <2>2
<1> QED
  BY <1>1, <1>3, <1>5 DEF IsSuffix, IsPrefix, t, m, n, rs, rt

\* The elements after one more is appended.
LEMMA AppendSet ==
  ASSUME NEW S, NEW s \in Seq(S), NEW e \in S
  PROVE  ToSet(Append(s, e)) = ToSet(s) \cup {e} /\ Len(Append(s, e)) = Len(s) + 1
<1> DEFINE t == Append(s, e)
<1>1. /\ Len(t) = Len(s) + 1 /\ \A i \in DOMAIN s : i \in DOMAIN t /\ t[i] = s[i]
      /\ Len(s) + 1 \in DOMAIN t /\ t[Len(s) + 1] = e
      /\ \A i \in DOMAIN t : i \in DOMAIN s \/ i = Len(s) + 1
  OBVIOUS
<1> HIDE DEF t
<1> QED
  BY <1>1 DEF ToSet, t

-----------------------------------------------------------------------------
(* What a step may do *)

NotStreaming == {"idle", "connecting", "waitReady"}

Except(c, q) == pc' = [pc EXCEPT ![c] = q]

\* connect() has returned to run_events of r, which takes the replay and subscribes.
Opens(c, r) ==
  /\ pc[c] \in NotStreaming /\ ~closed
  /\ goal' = [goal EXCEPT ![c] = r]
  /\ Except(c, "iterating")
  /\ replay' = [replay EXCEPT ![c] = replayOf[r]]
  /\ terminal' = [terminal EXCEPT ![c] = HasTerminal(replayOf[r])]
  /\ UNCHANGED <<queue, taken, yielded>>

\* A caller gets to q with what it has taken.
Goes(c, q) ==
  /\ Except(c, q)
  /\ UNCHANGED streamVars
  /\ \E what \in Runs \cup {"request"} : goal' = [goal EXCEPT ![c] = what]
  /\ \/ q \in {"connecting", "waitReady", "raised", "sent"} /\ pc[c] \in NotStreaming
     \/ /\ q \in {"waiting", "ended", "raised"} /\ pc[c] = "iterating"
        /\ goal' = goal /\ replay[c] = <<>>

\* A connected caller sends its request, or opens its stream.
LEMMA ConnectedStep ==
  ASSUME CallerType, NEW c \in Callers, NEW what \in Runs \cup {"request"}, Connected(c, what),
         pc[c] \in NotStreaming, ~closed, goal' = [goal EXCEPT ![c] = what]
  PROVE  Goes(c, "sent") \/ \E r \in Runs : Opens(c, r)
<1>1. CASE what = "request"
  BY <1>1 DEF Connected, Goes, Except
<1>2. CASE what # "request"
  BY <1>2 DEF Connected, Opens, Except
<1> QED
  BY <1>1, <1>2

\* A caller that needs the pump waits for it, raises, or is connected.
LEMMA AwaitReadyStep ==
  ASSUME CallerType, NEW c \in Callers, NEW what \in Runs \cup {"request"}, AwaitReady(c, what),
         pc[c] \in NotStreaming, ~closed, goal' = [goal EXCEPT ![c] = what]
  PROVE  \/ \E q \in {"waitReady", "raised", "sent"} : Goes(c, q)
         \/ \E r \in Runs : Opens(c, r)
<1>1. CASE ready = "done"
  BY <1>1, ConnectedStep DEF AwaitReady
<1>2. CASE ready = "cancelled"
  BY <1>2 DEF AwaitReady, Goes, Except
<1>3. CASE ready \notin {"done", "cancelled"}
  BY <1>3 DEF AwaitReady, Goes, Except
<1> QED
  BY <1>1, <1>2, <1>3

\* A caller goes on to another place, opens its stream, takes an event or leaves; the
\* transport, the hub and the buffers stay as they are.
LEMMA CallerStep ==
  ASSUME ClientType, CallerType, NEW c \in Callers, CallerNext(c)
  PROVE  /\ UNCHANGED <<transportVars, closed, closing, hubVars, replayVars>>
         /\ \/ \E q : Goes(c, q)
            \/ \E r \in Runs : Opens(c, r)
            \/ Take(c)
            \/ Leave(c)
<1>0. goal[c] \in Runs \cup {"request"} /\ goal = [goal EXCEPT ![c] = goal[c]]
  BY DEF CallerType
<1>1. ASSUME NEW what \in {p[2] : p \in {p \in Calls : p[1] = c}}, Call(c, what)
      PROVE  (\E q : Goes(c, q)) \/ \E r \in Runs : Opens(c, r)
  <2>1. what \in Runs \cup {"request"}
    BY Limits
  <2>2. pc[c] \in NotStreaming /\ goal' = [goal EXCEPT ![c] = what]
    BY <1>1 DEF Call, NotStreaming
  <2>3. CASE closed
    BY <1>1, <2>1, <2>2, <2>3 DEF Call, Goes, Except
  <2>4. CASE ~closed /\ ~connected
    BY <1>1, <2>1, <2>2, <2>4 DEF Call, Goes, Except
  <2>5. CASE ~closed /\ connected
    BY <1>1, <2>1, <2>2, <2>5, AwaitReadyStep DEF Call
  <2> QED
    BY <2>3, <2>4, <2>5
<1>2. ASSUME TransportConnected(c) PROVE (\E q : Goes(c, q)) \/ \E r \in Runs : Opens(c, r)
  <2>1. pc[c] \in NotStreaming /\ goal' = goal
    BY <1>2 DEF TransportConnected, NotStreaming
  <2>2. CASE closed
    BY <1>0, <1>2, <2>1, <2>2 DEF TransportConnected, Goes, Except
  <2>3. CASE ~closed
    <3>1. AwaitReady(c, goal[c])
      BY <1>2, <2>3 DEF TransportConnected
    <3>2. goal' = [goal EXCEPT ![c] = goal[c]]
      BY <1>0, <2>1
    <3> QED
      BY <1>0, <2>1, <2>3, <3>1, <3>2, AwaitReadyStep
  <2> QED
    BY <2>2, <2>3
<1>3. ASSUME TransportConnectFails(c) \/ CancelWaiter(c) PROVE Goes(c, "raised")
  BY <1>0, <1>3 DEF TransportConnectFails, CancelWaiter, Goes, Except, NotStreaming
<1>4. ASSUME Resume(c) PROVE (\E q : Goes(c, q)) \/ \E r \in Runs : Opens(c, r)
  <2>1. pc[c] \in NotStreaming /\ goal' = goal
    BY <1>4 DEF Resume, NotStreaming
  <2>2. CASE closed \/ ready = "cancelled"
    BY <1>0, <1>4, <2>1, <2>2 DEF Resume, Goes, Except
  <2>3. CASE ~(closed \/ ready = "cancelled")
    <3>1. Connected(c, goal[c]) /\ ~closed
      BY <1>4, <2>3 DEF Resume
    <3>2. goal' = [goal EXCEPT ![c] = goal[c]]
      BY <1>0, <2>1
    <3> QED
      BY <1>0, <2>1, <3>1, <3>2, ConnectedStep
  <2> QED
    BY <2>2, <2>3
<1>5. ASSUME WaitOrEnd(c) PROVE \E q : Goes(c, q)
  BY <1>0, <1>5 DEF WaitOrEnd, Goes, Except, ClientType
<1>6. UNCHANGED <<transportVars, closed, closing, hubVars, replayVars>>
  BY DEF CallerNext, Call, TransportConnected, TransportConnectFails, CancelWaiter, Resume, Take,
     WaitOrEnd, Leave, clientVars
<1> QED
  BY <1>1, <1>2, <1>3, <1>4, <1>5, <1>6 DEF CallerNext

\* The callers stay where they are, but for sleepers that are woken.
Woken ==
  /\ pc' \in [Callers -> {"idle", "connecting", "waitReady", "sent", "iterating", "waiting",
                          "ended", "raised", "left"}]
  /\ \A c \in Callers : pc'[c] = pc[c] \/ (pc[c] = "waiting" /\ pc'[c] = "iterating")

\* An event of the pump that reaches the buffers and, while it is open, the hub.
Publishes(e) ==
  /\ pump = "running" /\ rawQueue # <<>> /\ e = Head(rawQueue)
  /\ RecordReplay(e) /\ HubPublish(e)
  /\ UNCHANGED <<pump, hub, closed, closing, goal, replay, taken, yielded, terminal>>

\* Everything else leaves the events and the streams alone.
LEMMA StepKinds ==
  ASSUME CallerType, [Next]_vars
  PROVE  \/ \E c \in Callers : CallerNext(c)
         \/ Publishes(Head(rawQueue))
         \/ UNCHANGED <<published, replayVars, goal, streamVars>> /\ Woken
<1>1. ASSUME NEW how, HubClose(how) PROVE Woken
  BY <1>1 DEF HubClose, Woken, CallerType
<1>2. UNCHANGED pc => Woken
  BY DEF Woken, CallerType
<1>3. CASE PumpEvent
  <2>1. CASE Head(rawQueue).kind = "noTs"
    BY <1>1, <1>3, <2>1 DEF PumpEvent, streamVars
  <2>2. CASE Head(rawQueue).kind # "noTs"
    BY <1>3, <2>2 DEF PumpEvent, Publishes
  <2> QED
    BY <2>1, <2>2
<1>4. CASE PumpStart \/ PumpEnd
  BY <1>1, <1>2, <1>4 DEF PumpStart, PumpEnd, hubVars
<1>5. CASE CloseNext
  <2>1. ASSUME NEW how, CloseFinally(how)
        PROVE  UNCHANGED <<published, replayVars, goal, streamVars>> /\ Woken
    BY <1>1, <2>1 DEF CloseFinally
  <2>2. CASE CloseBegins
    BY <1>2, <2>2 DEF CloseBegins, hubVars
  <2>3. CASE CloseTransportReturns
    BY <1>2, <2>1, <2>3 DEF CloseTransportReturns, hubVars
  <2> QED
    BY <1>5, <2>1, <2>2, <2>3 DEF CloseNext, CloseTransportRaises, PumpJoined
<1>6. CASE Close \/ CancelScheduledClose \/ RawCloses
  BY <1>2, <1>6 DEF Close, CancelScheduledClose, RawCloses, hubVars
<1>7. CASE CancelPumpWait
  BY <1>1, <1>7 DEF CancelPumpWait, CloseFinally
<1>8. ASSUME NEW r, NEW kind, RawEvent(r, kind)
      PROVE  UNCHANGED <<published, replayVars, goal, streamVars>> /\ Woken
  BY <1>2, <1>8 DEF RawEvent, hubVars
<1>9. CASE UNCHANGED vars
  BY <1>2, <1>9 DEF vars, hubVars
<1> QED
  BY <1>3, <1>4, <1>5, <1>6, <1>7, <1>8, <1>9 DEF Next, PumpNext

-----------------------------------------------------------------------------
(* Types *)

\* The bounds as single facts.
LEMMA Positive == /\ MaxEvents \in Nat \ {0} /\ RawLimit \in Nat \ {0}
                  /\ MaxReplayRuns \in Nat \ {0} /\ MaxReplayEvents \in Nat \ {0}
  BY Limits

\* The transport's hub keeps its types.
LEMMA TransportTypeStep == TransportType /\ [Next]_vars => TransportType'
<1> SUFFICES ASSUME TransportType, [Next]_vars PROVE TransportType'
  OBVIOUS
<1>0. rawReplay \in Seq(Events) /\ rawQueue \in Seq(Events) /\ <<>> \in Seq(Events)
  BY DEF TransportType
<1>1. ASSUME NEW t \in Traffic, RawEvent(t[1], t[2]) PROVE TransportType'
  <2>1. PICK e : e = [id |-> lastRaw + 1, run |-> t[1], kind |-> t[2]]
    OBVIOUS
  <2>2. lastRaw + 1 \in 0..MaxEvents
    BY <1>1, Positive DEF RawEvent, TransportType
  <2>3. t[1] \in Runs /\ t[2] \in Kinds
    BY Limits DEF Kinds
  <2>4. e \in Events
    BY <2>1, <2>2, <2>3 DEF Events
  <2>5. \/ rawQueue' = Append(rawQueue, e) /\ UNCHANGED rawReplay
        \/ rawReplay' = Keep(Append(rawReplay, e), RawLimit) /\ UNCHANGED rawQueue
    BY <1>1, <2>1 DEF RawEvent
  <2>6. Append(rawQueue, e) \in Seq(Events) /\ Append(rawReplay, e) \in Seq(Events)
    BY <1>0, <2>4
  <2>7. Keep(Append(rawReplay, e), RawLimit) \in Seq(Events)
    BY <2>6, KeepLast, Positive
  <2>8. rawQueue' \in Seq(Events) /\ rawReplay' \in Seq(Events)
    BY <1>0, <2>5, <2>6, <2>7
  <2> QED
    BY <1>1, <2>2, <2>8 DEF RawEvent, TransportType
<1>2. CASE RawCloses \/ PumpStart \/ CloseBegins
  BY <1>0, <1>2 DEF RawCloses, PumpStart, CloseBegins, TransportType
<1>3. CASE PumpEvent
  <2>1. Tail(rawQueue) \in Seq(Events)
    BY <1>0, <1>3 DEF PumpEvent
  <2> QED
    BY <1>3, <2>1 DEF PumpEvent, TransportType
<1>4. CASE UNCHANGED transportVars
  BY <1>4 DEF transportVars, TransportType
<1>5. ASSUME NEW c \in Callers, CallerNext(c) PROVE UNCHANGED transportVars
  BY <1>5 DEF CallerNext, Call, TransportConnected, TransportConnectFails, CancelWaiter, Resume, Take,
     WaitOrEnd, Leave
<1>6. PumpEnd \/ Close \/ CloseTransportReturns \/ CloseTransportRaises \/ PumpJoined
      \/ CancelScheduledClose \/ CancelPumpWait \/ UNCHANGED vars => UNCHANGED transportVars
  BY DEF PumpEnd, Close, CloseTransportReturns, CloseTransportRaises, PumpJoined,
     CancelScheduledClose, CancelPumpWait, CloseFinally, vars
<1> QED
  BY <1>1, <1>2, <1>3, <1>4, <1>5, <1>6 DEF Next, PumpNext, CloseNext

\* The client, its pump and its close keep their types.
LEMMA ClientTypeStep == ClientType /\ [Next]_vars => ClientType'
<1> SUFFICES ASSUME ClientType, [Next]_vars PROVE ClientType'
  OBVIOUS
<1>1. ASSUME NEW how \in {"closed", "failed"}, HubClose(how) PROVE hub' \in {"open", "closed", "failed"}
  BY <1>1 DEF HubClose
<1>2. MarkReady => ready' \in {"none", "pending", "done", "cancelled"}
  BY DEF MarkReady, ClientType
<1>3. ASSUME NEW c \in Callers, CallerNext(c) PROVE ClientType'
  <2>1. CASE TransportConnected(c) \/ CancelWaiter(c)
    BY <2>1 DEF TransportConnected, CancelWaiter, ClientType, hubVars
  <2>2. CASE UNCHANGED <<clientVars, hubVars>>
    BY <2>2 DEF ClientType, clientVars, hubVars
  <2> QED
    BY <1>3, <2>1, <2>2 DEF CallerNext, Call, TransportConnectFails, Resume, Take, WaitOrEnd, Leave
<1>4. CASE PumpNext
  <2>1. CASE PumpStart
    BY <2>1 DEF PumpStart, ClientType, hubVars
  <2>2. CASE PumpEvent
    <3>1. MarkReady /\ UNCHANGED <<closed, connected, closing>>
      BY <2>2 DEF PumpEvent
    <3>2. \/ pump' = "ended" /\ HubClose("failed")
          \/ UNCHANGED <<pump, hub>>
      BY <2>2 DEF PumpEvent
    <3> QED
      BY <1>1, <1>2, <3>1, <3>2 DEF ClientType
  <2>3. CASE PumpEnd
    BY <1>1, <1>2, <2>3 DEF PumpEnd, ClientType
  <2> QED
    BY <1>4, <2>1, <2>2, <2>3 DEF PumpNext
<1>5. CASE CloseNext
  <2>1. ASSUME NEW how \in {"done", "swallowed", "aborted"}, CloseFinally(how) PROVE ClientType'
    BY <1>1, <2>1 DEF CloseFinally, ClientType
  <2>2. CASE CloseBegins
    BY <2>2 DEF CloseBegins, ClientType, hubVars
  <2>3. CASE CloseTransportReturns
    BY <2>1, <2>3 DEF CloseTransportReturns, ClientType, hubVars
  <2> QED
    BY <1>5, <2>1, <2>2, <2>3 DEF CloseNext, CloseTransportRaises, PumpJoined
<1>6. CASE Close \/ CancelScheduledClose
  BY <1>6 DEF Close, CancelScheduledClose, ClientType, hubVars
<1>7. CASE CancelPumpWait
  BY <1>1, <1>2, <1>7 DEF CancelPumpWait, CloseFinally, ClientType
<1>8. CASE RawCloses \/ \E t \in Traffic : RawEvent(t[1], t[2])
  BY <1>8 DEF RawCloses, RawEvent, ClientType, clientVars, hubVars
<1>9. CASE UNCHANGED vars
  BY <1>9 DEF vars, ClientType, clientVars, hubVars
<1> QED
  BY <1>3, <1>4, <1>5, <1>6, <1>7, <1>8, <1>9 DEF Next

\* The replay buffers and the history keep their types.
LEMMA ReplayTypeStep ==
  TransportType /\ ClientType /\ CallerType /\ ReplayType /\ [Next]_vars => ReplayType'
<1> SUFFICES ASSUME TransportType, ClientType, CallerType, ReplayType, [Next]_vars PROVE ReplayType'
  OBVIOUS
<1>1. ASSUME Publishes(Head(rawQueue)) PROVE ReplayType'
  <2>1. PICK e \in Events : e = Head(rawQueue)
    BY <1>1 DEF Publishes, TransportType
  <2>2. e.run \in Runs
    BY DEF Events
  <2>3. RecordReplay(e) /\ HubPublish(e)
    BY <1>1, <2>1 DEF Publishes
  <2>4. published' \in [Runs -> Seq(Events)]
    <3>1. Append(published[e.run], e) \in Seq(Events)
      BY <2>2 DEF ReplayType
    <3> QED
      BY <2>3, <3>1 DEF HubPublish, ReplayType
  <2>5. replayRuns' \in Seq(Runs) /\ Len(replayRuns') <= MaxReplayRuns
    <3> DEFINE full == e.run \notin ToSet(replayRuns) /\ Len(replayRuns) >= MaxReplayRuns
    <3>1. CASE e.run \in ToSet(replayRuns)
      BY <2>3, <3>1 DEF RecordReplay, ReplayType
    <3>2. CASE e.run \notin ToSet(replayRuns) /\ Len(replayRuns) >= MaxReplayRuns
      <4>1. replayRuns' = Append(Tail(replayRuns), e.run)
        BY <2>3, <3>2 DEF RecordReplay
      <4>2. replayRuns \in Seq(Runs) /\ Len(replayRuns) = MaxReplayRuns /\ replayRuns # <<>>
        BY <3>2, Positive DEF ReplayType
      <4>3. Tail(replayRuns) \in Seq(Runs) /\ Len(Tail(replayRuns)) + 1 = MaxReplayRuns
        BY <4>2
      <4> QED
        BY <2>2, <4>1, <4>3, Positive
    <3>3. CASE e.run \notin ToSet(replayRuns) /\ ~(Len(replayRuns) >= MaxReplayRuns)
      <4>1. replayRuns' = Append(replayRuns, e.run)
        BY <2>3, <3>3 DEF RecordReplay
      <4> QED
        BY <2>2, <3>3, <4>1, Positive DEF ReplayType
    <3> QED
      BY <3>1, <3>2, <3>3
  <2>6. ASSUME NEW r \in Runs
        PROVE  /\ Keep(Append(replayOf[r], e), MaxReplayEvents) \in Seq(Events)
               /\ Len(Keep(Append(replayOf[r], e), MaxReplayEvents)) <= MaxReplayEvents
    <3>1. Append(replayOf[r], e) \in Seq(Events)
      BY DEF ReplayType
    <3> QED
      BY <3>1, KeepLast, Positive
  <2>7. \A r \in Runs : replayOf'[r] \in {Keep(Append(replayOf[r], e), MaxReplayEvents), <<>>, replayOf[r]}
    BY <2>3 DEF RecordReplay
  <2>8. DOMAIN replayOf' = Runs /\ replayOf' = [r \in Runs |-> replayOf'[r]]
    BY <2>3 DEF RecordReplay
  <2>9. Len(<<>>) <= MaxReplayEvents /\ <<>> \in Seq(Events)
    BY Positive
  <2>10. \A r \in Runs : replayOf'[r] \in Seq(Events) /\ Len(replayOf'[r]) <= MaxReplayEvents
    BY <2>6, <2>7, <2>9 DEF ReplayType
  <2> QED
    BY <2>4, <2>5, <2>8, <2>10 DEF ReplayType
<1>2. ASSUME NEW c \in Callers, CallerNext(c) PROVE ReplayType'
  BY <1>2, CallerStep DEF ReplayType, hubVars, replayVars
<1>3. CASE UNCHANGED <<published, replayVars>>
  BY <1>3 DEF ReplayType, replayVars
<1> QED
  BY <1>1, <1>2, <1>3, StepKinds

\* The callers and their streams keep their types.
LEMMA CallerTypeStep ==
  TransportType /\ ClientType /\ ReplayType /\ CallerType /\ [Next]_vars => CallerType'
<1> SUFFICES ASSUME TransportType, ClientType, ReplayType, CallerType, [Next]_vars PROVE CallerType'
  OBVIOUS
<1>1. ASSUME Publishes(Head(rawQueue)) PROVE CallerType'
  <2>1. PICK e \in Events : e = Head(rawQueue)
    BY <1>1 DEF Publishes, TransportType
  <2>2. HubPublish(e) /\ UNCHANGED <<goal, replay, taken, yielded, terminal>>
    BY <1>1, <2>1 DEF Publishes
  <2>3. \A c \in Callers : Append(queue[c], e) \in Seq(Events)
    BY DEF CallerType
  <2> QED
    BY <2>2, <2>3 DEF HubPublish, CallerType
<1>2. ASSUME NEW c \in Callers, CallerNext(c) PROVE CallerType'
  <2>1. ASSUME NEW q, Goes(c, q) PROVE CallerType'
    BY <2>1 DEF Goes, Except, CallerType, streamVars
  <2>2. ASSUME NEW r \in Runs, Opens(c, r) PROVE CallerType'
    BY <2>2 DEF Opens, Except, CallerType, ReplayType, HasTerminal
  <2>3. CASE Take(c)
    <3>1. PICK e : e = IF replay[c] # <<>> THEN Head(replay[c]) ELSE Head(queue[c])
      OBVIOUS
    <3>2. /\ replay[c] \in Seq(Events) /\ queue[c] \in Seq(Events) /\ taken[c] \in Seq(Events)
          /\ replay[c] \o queue[c] # <<>>
      BY <2>3 DEF Take, CallerType
    <3>3. \/ replay[c] # <<>> /\ e \in Events /\ Tail(replay[c]) \in Seq(Events)
             /\ replay' = [replay EXCEPT ![c] = Tail(@)] /\ queue' = queue
          \/ replay[c] = <<>> /\ queue[c] # <<>> /\ e \in Events /\ Tail(queue[c]) \in Seq(Events)
             /\ queue' = [queue EXCEPT ![c] = Tail(@)] /\ replay' = replay
      BY <2>3, <3>1, <3>2 DEF Take
    <3>4. replay' \in [Callers -> Seq(Events)] /\ queue' \in [Callers -> Seq(Events)]
      BY <3>3 DEF CallerType
    <3>5. taken' = [taken EXCEPT ![c] = Append(@, e)]
      BY <2>3, <3>1 DEF Take
    <3>6. Append(taken[c], e) \in Seq(Events)
      BY <3>2, <3>3
    <3>7. \A b : Project(e, b) \subseteq Kinds
      BY <3>3 DEF Project, Events, Kinds
    <3>8. /\ yielded' = yielded \/ yielded' = [yielded EXCEPT ![c] = @ \cup Project(e, terminal[c])]
          /\ terminal' = terminal \/ terminal' = [terminal EXCEPT ![c] = @ \/ e.kind \in {"final", "terminal"}]
      BY <2>3, <3>1 DEF Take
    <3>9. yielded' \in [Callers -> SUBSET Kinds] /\ terminal' \in [Callers -> BOOLEAN]
      BY <3>7, <3>8 DEF CallerType
    <3>10. taken' \in [Callers -> Seq(Events)]
      BY <3>5, <3>6 DEF CallerType
    <3> QED
      BY <2>3, <3>4, <3>9, <3>10 DEF Take, CallerType
  <2>4. CASE Leave(c)
    BY <2>4 DEF Leave, CallerType
  <2> QED
    BY <1>2, <2>1, <2>2, <2>3, <2>4, CallerStep
<1>3. CASE UNCHANGED <<goal, streamVars>> /\ Woken
  BY <1>3 DEF CallerType, Woken, streamVars
<1> QED
  BY <1>1, <1>2, <1>3, StepKinds

-----------------------------------------------------------------------------
(* Closing *)

\* Each step of a close, and of the pump it waits for, keeps them in line.
LEMMA CloseInvStep == TypeOK /\ CloseInv /\ [Next]_vars => CloseInv'
<1> SUFFICES ASSUME ClientType, CloseInv, [Next]_vars PROVE CloseInv'
  BY DEF TypeOK
<1>1. ASSUME NEW how, HubClose(how)
      PROVE  hub' # "open" /\ (hub = "failed" \/ how = "failed" => hub' = "failed")
  BY <1>1 DEF HubClose
<1>2. MarkReady => (ready' = "none" => ready = "none")
  BY DEF MarkReady
<1>3. ASSUME NEW c \in Callers, CallerNext(c) PROVE CloseInv'
  <2>1. CASE TransportConnected(c)
    BY <2>1 DEF TransportConnected, CloseInv, Cut, transportVars, hubVars
  <2>2. CASE CancelWaiter(c)
    BY <2>2 DEF CancelWaiter, CloseInv, Cut, transportVars, hubVars
  <2>3. CASE UNCHANGED <<transportVars, clientVars, hubVars>>
    BY <2>3 DEF CloseInv, Cut, transportVars, clientVars, hubVars
  <2> QED
    BY <1>3, <2>1, <2>2, <2>3 DEF CallerNext, Call, TransportConnectFails, Resume, Take, WaitOrEnd, Leave
<1>4. CASE PumpStart
  BY <1>4 DEF PumpStart, CloseInv, Cut, hubVars
<1>5. CASE PumpEvent
  <2>1. /\ pump = "running" /\ MarkReady
        /\ UNCHANGED <<rawReplay, closed, closing>>
        /\ \/ pump' = "ended" /\ HubClose("failed")
           \/ pump' = pump /\ hub' = hub
    BY <1>5 DEF PumpEvent
  <2> QED
    BY <1>1, <1>2, <2>1 DEF CloseInv, Cut
<1>6. CASE PumpEnd
  BY <1>1, <1>2, <1>6 DEF PumpEnd, CloseInv, Cut, transportVars
<1>7. ASSUME NEW how, CloseFinally(how), closing # "no", how # "no",
             how = "done" => ~Cut,
             how \in {"done", "swallowed"} => pump \in {"none", "ended"},
             Cut => how \in {"swallowed", "aborted"}
      PROVE  CloseInv'
  BY <1>1, <1>7 DEF CloseFinally, CloseInv, Cut, transportVars
<1>8. CASE CloseNext
  <2>1. CASE CloseBegins
    BY <2>1 DEF CloseBegins, CloseInv, Cut, hubVars
  <2>2. CASE CloseTransportReturns
    <3>1. CASE pump \in {"none", "ended"}
      BY <1>7, <2>2, <3>1 DEF CloseTransportReturns, Cut
    <3>2. CASE pump \notin {"none", "ended"}
      BY <2>2, <3>2 DEF CloseTransportReturns, CloseInv, Cut, hubVars, transportVars
    <3> QED
      BY <3>1, <3>2
  <2>3. CASE CloseTransportRaises
    BY <1>7, <2>3 DEF CloseTransportRaises, Cut
  <2>4. CASE PumpJoined
    <3>1. CASE closing = "pump"
      BY <1>7, <2>4, <3>1 DEF PumpJoined, Cut
    <3>2. CASE closing = "cancelled"
      BY <1>7, <2>4, <3>2 DEF PumpJoined, Cut
    <3> QED
      BY <2>4, <3>1, <3>2 DEF PumpJoined
  <2> QED
    BY <1>8, <2>1, <2>2, <2>3, <2>4 DEF CloseNext
<1>9. CASE Close \/ CancelScheduledClose
  BY <1>9 DEF Close, CancelScheduledClose, CloseInv, Cut, transportVars, hubVars
<1>10. CASE CancelPumpWait
  <2>1. CASE closing = "pump" /\ pump = "running"
    BY <1>1, <1>2, <1>10, <2>1 DEF CancelPumpWait, CloseInv, Cut, transportVars
  <2>2. CASE closing \in {"pump", "cancelled"} /\ CloseFinally("aborted")
    BY <1>7, <2>2
  <2> QED
    BY <1>10, <2>1, <2>2 DEF CancelPumpWait
<1>11. CASE RawCloses
  BY <1>11 DEF RawCloses, CloseInv, Cut, clientVars, hubVars
<1>12. ASSUME NEW r, NEW kind, RawEvent(r, kind) PROVE CloseInv'
  <2>1. /\ UNCHANGED <<clientVars, hubVars>> /\ pump # "ended"
        /\ pump = "running" => rawReplay' = rawReplay
        /\ pump # "running" => rawQueue' = rawQueue
    BY <1>12 DEF RawEvent
  <2> QED
    BY <2>1 DEF CloseInv, Cut, clientVars, hubVars, ClientType
<1>13. CASE UNCHANGED vars
  BY <1>13 DEF vars, CloseInv, Cut, transportVars, clientVars, hubVars
<1> QED
  BY <1>3, <1>4, <1>5, <1>6, <1>8, <1>9, <1>10, <1>11, <1>12, <1>13 DEF Next, PumpNext

-----------------------------------------------------------------------------
(* Ids *)

\* Appending a greater identity keeps identities increasing.
LEMMA GrowingAppend ==
  ASSUME NEW s \in Seq(Events), NEW e \in Events
  PROVE  /\ Ids(Append(s, e)) = Ids(s) \cup {e.id}
         /\ Growing(s) /\ Below(Ids(s), {e.id}) => Growing(Append(s, e))
<1> DEFINE t == Append(s, e)
           k == Len(s) + 1
<1>1. /\ DOMAIN t = 1..k /\ DOMAIN s = 1..(k - 1) /\ k \in Nat
      /\ t[k] = e /\ \A i \in DOMAIN s : t[i] = s[i]
  OBVIOUS
<1>2. /\ \A i \in DOMAIN t : i = k \/ (i \in DOMAIN s /\ t[i] = s[i] /\ i < k)
      /\ k \in DOMAIN t /\ \A i \in DOMAIN s : i \in DOMAIN t
  BY <1>1
<1> HIDE DEF t, k
<1>3. Ids(t) = Ids(s) \cup {e.id}
  BY <1>1, <1>2 DEF Ids
<1>4. ASSUME Growing(s), Below(Ids(s), {e.id}), NEW i \in DOMAIN t, NEW j \in DOMAIN t, i < j
      PROVE  t[i].id < t[j].id
  <2>1. i \in DOMAIN s /\ t[i] = s[i]
    BY <1>1, <1>2, <1>4
  <2>2. CASE j = k
    BY <1>1, <1>4, <2>1, <2>2 DEF Below, Ids
  <2>3. CASE j \in DOMAIN s /\ t[j] = s[j]
    BY <1>4, <2>1, <2>3 DEF Growing
  <2> QED
    BY <1>2, <2>2, <2>3
<1> QED
  BY <1>3, <1>4 DEF Growing, t

\* Identities that increase in a row increase in each part, the first below the second.
LEMMA GrowingParts ==
  ASSUME NEW s \in Seq(Events), NEW t \in Seq(Events)
  PROVE  /\ Ids(s \o t) = Ids(s) \cup Ids(t)
         /\ Growing(s \o t) => Growing(s) /\ Growing(t) /\ Below(Ids(s), Ids(t))
<1> DEFINE u == s \o t
           n == Len(s)
<1>1. /\ n \in Nat /\ DOMAIN s = 1..n /\ DOMAIN t \subseteq Nat \ {0}
      /\ \A i \in DOMAIN s : i \in DOMAIN u /\ u[i] = s[i]
      /\ \A i \in DOMAIN t : n + i \in DOMAIN u /\ u[n + i] = t[i]
  OBVIOUS
<1>2. \A i \in DOMAIN u : \/ i \in DOMAIN s /\ u[i] = s[i]
                          \/ \E k \in DOMAIN t : u[i] = t[k]
  <2>1. \A i \in DOMAIN u : i \in DOMAIN s \/ (i - n \in DOMAIN t /\ u[i] = t[i - n])
    OBVIOUS
  <2> QED
    BY <1>1, <2>1
<1> HIDE DEF u, n
<1>3. Ids(u) = Ids(s) \cup Ids(t)
  BY <1>1, <1>2 DEF Ids
<1>4. ASSUME Growing(u) PROVE Growing(s) /\ Growing(t) /\ Below(Ids(s), Ids(t))
  <2>1. Growing(s)
    BY <1>1, <1>4 DEF Growing
  <2>2. ASSUME NEW i \in DOMAIN t, NEW j \in DOMAIN t, i < j PROVE t[i].id < t[j].id
    <3>1. n + i < n + j
      BY <1>1, <2>2
    <3> QED
      BY <1>1, <1>4, <3>1 DEF Growing
  <2>3. ASSUME NEW i \in DOMAIN s, NEW j \in DOMAIN t PROVE s[i].id < t[j].id
    <3>1. i < n + j
      BY <1>1
    <3> QED
      BY <1>1, <1>4, <3>1 DEF Growing
  <2> QED
    BY <2>1, <2>2, <2>3 DEF Growing, Below, Ids
<1> QED
  BY <1>3, <1>4 DEF u

\* Identities that increase go on to do so when the first is taken.
LEMMA GrowingTail ==
  ASSUME NEW q \in Seq(Events), q # <<>>
  PROVE  /\ Head(q) \in Events /\ Tail(q) \in Seq(Events)
         /\ Ids(q) = {Head(q).id} \cup Ids(Tail(q))
         /\ Growing(q) => Growing(Tail(q)) /\ Below({Head(q).id}, Ids(Tail(q)))
<1>1. PICK h, x, t : h = Head(q) /\ t = Tail(q) /\ x = <<h>>
  OBVIOUS
<1>2. h \in Events /\ t \in Seq(Events) /\ x \in Seq(Events) /\ Ids(x) = {h.id}
  BY <1>1 DEF Ids
<1>3. q = x \o t
  BY <1>1
<1>4. Growing(q) => Growing(t) /\ Below(Ids(x), Ids(t))
  BY <1>2, <1>3, GrowingParts
<1>5. Ids(q) = Ids(x) \cup Ids(t)
  BY <1>2, <1>3, GrowingParts
<1> QED
  BY <1>1, <1>2, <1>4, <1>5

\* Raw events come with ever greater identities and leave their queue in order.
LEMMA IdInvStep == TypeOK /\ CloseInv /\ IdInv /\ [Next]_vars => IdInv'
<1> SUFFICES ASSUME TransportType, ClientType, ReplayType, CallerType, CloseInv, IdInv, [Next]_vars
             PROVE  IdInv'
  BY DEF TypeOK
<1>0. /\ rawReplay \in Seq(Events) /\ rawQueue \in Seq(Events) /\ lastRaw \in Nat
      /\ \A r \in Runs : published[r] \in Seq(Events)
  BY DEF TransportType, ReplayType
<1>a. Growing(<<>>) /\ Ids(<<>>) = {}
  BY DEF Growing, Ids
<1>b. \A s \in Seq(Events) : Ids(s) \subseteq Nat
  <2> SUFFICES ASSUME NEW s \in Seq(Events), NEW i \in DOMAIN s PROVE s[i].id \in Nat
    BY DEF Ids
  <2>1. s[i] \in Events
    OBVIOUS
  <2> QED
    BY <2>1, Positive DEF Events
<1>1. CASE UNCHANGED <<transportVars, published>>
  BY <1>1 DEF IdInv, transportVars
<1>2. ASSUME NEW t \in Traffic, RawEvent(t[1], t[2]) PROVE IdInv'
  <2>1. PICK e : e = [id |-> lastRaw + 1, run |-> t[1], kind |-> t[2]]
    OBVIOUS
  <2>2. e \in Events /\ e.id = lastRaw + 1 /\ lastRaw' = lastRaw + 1
    <3>1. lastRaw + 1 \in 0..MaxEvents
      BY <1>2, Positive DEF RawEvent, TransportType
    <3>2. t[1] \in Runs /\ t[2] \in Kinds
      BY Limits DEF Kinds
    <3> QED
      BY <1>2, <2>1, <3>1, <3>2 DEF Events, RawEvent
  <2>3. published' = published
    BY <1>2 DEF RawEvent, hubVars
  <2>4. \A s \in Seq(Events) : (\A i \in Ids(s) : i <= lastRaw) => Below(Ids(s), {e.id})
    BY <1>0, <1>b, <2>2 DEF Below
  <2>5. \A r \in Runs : Below(Ids(published[r]), {e.id})
    BY <1>0, <2>4 DEF IdInv
  <2>6. \A i \in Nat : i <= lastRaw => i <= lastRaw'
    BY <1>0, <2>2
  <2>7. e.id <= lastRaw'
    BY <1>0, <2>2
  <2>8. CASE pump = "running"
    <3>1. rawQueue' = Append(rawQueue, e) /\ rawReplay' = rawReplay
      BY <1>2, <2>1, <2>8 DEF RawEvent
    <3>2. Below(Ids(rawQueue), {e.id})
      BY <1>0, <2>4 DEF IdInv
    <3>3. Growing(rawQueue') /\ Ids(rawQueue') = Ids(rawQueue) \cup {e.id}
      BY <1>0, <2>2, <3>1, <3>2, GrowingAppend DEF IdInv
    <3>4. \A i \in Ids(rawReplay) \cup Ids(rawQueue') : i <= lastRaw'
      BY <1>0, <1>b, <2>6, <2>7, <3>3 DEF IdInv
    <3> QED
      BY <1>0, <1>b, <2>3, <2>5, <2>6, <3>1, <3>3, <3>4 DEF IdInv, Below
  <2>9. CASE pump # "running"
    <3>1. rawReplay' = Keep(Append(rawReplay, e), RawLimit) /\ rawQueue' = rawQueue
      BY <1>2, <2>1, <2>9 DEF RawEvent
    <3>2. Below(Ids(rawReplay), {e.id})
      BY <1>0, <2>4 DEF IdInv
    <3>3. PICK s : s = Append(rawReplay, e)
      OBVIOUS
    <3>4. s \in Seq(Events) /\ Growing(s) /\ Ids(s) = Ids(rawReplay) \cup {e.id}
      BY <1>0, <2>2, <3>2, <3>3, GrowingAppend DEF IdInv
    <3>5. rawReplay' \in Seq(Events) /\ \E p \in Seq(Events) : s = p \o rawReplay'
      <4>1. \E p \in Seq(Events) : s = p \o Keep(s, RawLimit)
        BY <3>4, KeepLast, Positive
      <4>2. Keep(s, RawLimit) \in Seq(Events)
        BY <3>4, KeepLast, Positive
      <4>3. rawReplay' = Keep(s, RawLimit)
        BY <3>1, <3>3
      <4> QED
        BY <4>1, <4>2, <4>3
    <3>6. Growing(rawReplay') /\ Ids(rawReplay') \subseteq Ids(rawReplay) \cup {e.id}
      BY <3>4, <3>5, GrowingParts
    <3>7. \A i \in Ids(rawReplay') \cup Ids(rawQueue) : i <= lastRaw'
      BY <1>0, <1>b, <2>6, <2>7, <3>6 DEF IdInv
    <3> QED
      BY <1>0, <1>b, <2>3, <2>5, <2>6, <3>1, <3>6, <3>7 DEF IdInv, Below
  <2> QED
    BY <2>8, <2>9
<1>3. CASE RawCloses \/ CloseBegins
  BY <1>a, <1>3 DEF RawCloses, CloseBegins, IdInv, Below, hubVars
<1>4. CASE PumpStart
  BY <1>a, <1>4 DEF PumpStart, CloseInv, IdInv, Below, hubVars
<1>5. CASE PumpEvent
  <2>1. /\ pump = "running" /\ rawQueue # <<>> /\ rawQueue' = Tail(rawQueue)
        /\ UNCHANGED <<rawReplay, lastRaw>>
    BY <1>5 DEF PumpEvent
  <2>2. PICK e : e = Head(rawQueue)
    OBVIOUS
  <2>3. /\ e \in Events /\ Ids(rawQueue) = {e.id} \cup Ids(rawQueue')
        /\ Growing(rawQueue') /\ Below({e.id}, Ids(rawQueue'))
    BY <1>0, <2>1, <2>2, GrowingTail DEF IdInv
  <2>4. rawReplay = <<>> /\ Ids(rawReplay) = {}
    BY <1>a, <2>1 DEF CloseInv
  <2>5. e.run \in Runs
    BY <2>3 DEF Events
  <2>6. \/ published' = published
        \/ published' = [published EXCEPT ![e.run] = Append(@, e)]
    BY <1>5, <2>2 DEF PumpEvent, HubPublish
  <2>7. ASSUME NEW r \in Runs, published'[r] = published[r]
        PROVE  /\ Growing(published'[r]) /\ \A i \in Ids(published'[r]) : i <= lastRaw
               /\ Below(Ids(published'[r]), Ids(rawReplay) \cup Ids(rawQueue'))
    BY <2>3, <2>7 DEF IdInv, Below
  <2>8. ASSUME published'[e.run] = Append(published[e.run], e)
        PROVE  /\ Growing(published'[e.run]) /\ \A i \in Ids(published'[e.run]) : i <= lastRaw
               /\ Below(Ids(published'[e.run]), Ids(rawReplay) \cup Ids(rawQueue'))
    <3>1. Below(Ids(published[e.run]), {e.id})
      BY <2>3, <2>5 DEF IdInv, Below
    <3>2. Growing(published'[e.run]) /\ Ids(published'[e.run]) = Ids(published[e.run]) \cup {e.id}
      BY <1>0, <2>3, <2>5, <2>8, <3>1, GrowingAppend DEF IdInv
    <3>3. \A i \in Ids(published'[e.run]) : i <= lastRaw
      BY <2>3, <2>5, <3>2 DEF IdInv
    <3>4. Below(Ids(published'[e.run]), Ids(rawReplay) \cup Ids(rawQueue'))
      BY <2>3, <2>4, <2>5, <3>2 DEF IdInv, Below
    <3> QED
      BY <3>2, <3>3, <3>4
  <2>9. \A r \in Runs : published'[r] = published[r] \/ (r = e.run /\ published'[r] = Append(published[r], e))
    BY <2>6 DEF ReplayType
  <2>10. \A r \in Runs : /\ Growing(published'[r]) /\ \A i \in Ids(published'[r]) : i <= lastRaw
                         /\ Below(Ids(published'[r]), Ids(rawReplay) \cup Ids(rawQueue'))
    BY <2>5, <2>7, <2>8, <2>9
  <2> QED
    BY <1>a, <2>1, <2>3, <2>4, <2>10 DEF IdInv
<1>6. ASSUME NEW c \in Callers, CallerNext(c) PROVE UNCHANGED <<transportVars, published>>
  BY <1>6, CallerStep DEF hubVars
<1>7. PumpEnd \/ Close \/ CloseTransportReturns \/ CloseTransportRaises \/ PumpJoined
      \/ CancelScheduledClose \/ CancelPumpWait \/ UNCHANGED vars => UNCHANGED <<transportVars, published>>
  BY DEF PumpEnd, Close, CloseTransportReturns, CloseTransportRaises, PumpJoined,
     CancelScheduledClose, CancelPumpWait, CloseFinally, vars, hubVars
<1> QED
  BY <1>1, <1>2, <1>3, <1>4, <1>5, <1>6, <1>7 DEF Next, PumpNext, CloseNext

-----------------------------------------------------------------------------
(* The replay buffers *)

\* A closed client is not opened again.
LEMMA ClosedStays == [Next]_vars => (closed => closed')
  BY DEF Next, CallerNext, Call, TransportConnected, TransportConnectFails, CancelWaiter, Resume, Take,
     WaitOrEnd, Leave, RawEvent, RawCloses, PumpNext, PumpStart, PumpEvent, PumpEnd, Close, CloseNext,
     CloseBegins, CloseTransportReturns, CloseTransportRaises, PumpJoined, CloseFinally,
     CancelScheduledClose, CancelPumpWait, clientVars, vars

\* What an event does to the history, by the state of the hub.
LEMMA PublishStep ==
  ASSUME TransportType, ReplayType, NEW e, e = Head(rawQueue), Publishes(e)
  PROVE  /\ e \in Events /\ e.run \in Runs
         /\ hub # "open" => published' = published
         /\ hub = "open" => /\ \A r \in Runs : published'[r] = IF r = e.run THEN Append(published[r], e)
                                                               ELSE published[r]
                            /\ Known' = Known \cup {e.run}
<1>1. e \in Events /\ e.run \in Runs
  <2>1. e \in Events
    BY DEF Publishes, TransportType
  <2> QED
    BY <2>1 DEF Events
<1>2. HubPublish(e)
  BY DEF Publishes
<1>3. ASSUME hub = "open"
      PROVE  \A r \in Runs : published'[r] = IF r = e.run THEN Append(published[r], e) ELSE published[r]
  BY <1>1, <1>2, <1>3 DEF HubPublish, ReplayType
<1>4. ASSUME hub = "open" PROVE Known' = Known \cup {e.run}
  <2>1. Append(published[e.run], e) # <<>>
    <3>1. published[e.run] \in Seq(Events)
      BY <1>1 DEF ReplayType
    <3>2. e \in ToSet(Append(published[e.run], e))
      BY <1>1, <3>1, AppendSet
    <3>3. ToSet(<<>>) = {}
      BY DEF ToSet
    <3> QED
      BY <3>2, <3>3
  <2> QED
    BY <1>1, <1>3, <1>4, <2>1 DEF Known
<1> QED
  BY <1>1, <1>2, <1>3, <1>4 DEF HubPublish

\* A replay that was unbounded after the event was so before it.
LEMMA UnboundedBefore ==
  ASSUME TransportType, ReplayType, IsFiniteSet(Known), NEW e, e = Head(rawQueue), Publishes(e)
  PROVE  /\ IsFiniteSet(Known')
         /\ Cardinality(Known') <= MaxReplayRuns => Cardinality(Known) <= MaxReplayRuns
         /\ \A r \in Runs : Unbounded(r)' => Unbounded(r)
<1>1. CASE hub # "open"
  BY <1>1, PublishStep DEF Unbounded, Known
<1>2. CASE hub = "open"
  <2>1. IsFiniteSet(Known') /\ Cardinality(Known) \in Nat /\ Cardinality(Known') \in Nat
    BY <1>2, PublishStep, FS_AddElement, FS_CardinalityType
  <2>2. Cardinality(Known) <= Cardinality(Known')
    <3>1. Cardinality(Known') = IF e.run \in Known THEN Cardinality(Known) ELSE Cardinality(Known) + 1
      BY <1>2, PublishStep, FS_AddElement
    <3> QED
      BY <2>1, <3>1
  <2>3. Cardinality(Known') <= MaxReplayRuns => Cardinality(Known) <= MaxReplayRuns
    BY <2>1, <2>2, Positive
  <2>4. ASSUME NEW r \in Runs, Len(published'[r]) <= MaxReplayEvents
        PROVE  Len(published[r]) <= MaxReplayEvents
    <3>1. e \in Events /\ published[r] \in Seq(Events)
      BY PublishStep DEF ReplayType
    <3>2. Len(published[r]) \in Nat /\ Len(Append(published[r], e)) = Len(published[r]) + 1
      BY <3>1
    <3>3. published'[r] \in {published[r], Append(published[r], e)}
      BY <1>2, PublishStep
    <3> QED
      BY <2>4, <3>2, <3>3, Positive
  <2> QED
    BY <2>1, <2>3, <2>4 DEF Unbounded
<1> QED
  BY <1>1, <1>2

\* A publication extends the history and the buffer alike; an eviction drops a whole buffer.
LEMMA ReplayInvStep == TypeOK /\ CloseInv /\ ReplayInv /\ [Next]_vars => ReplayInv'
<1> SUFFICES ASSUME TransportType, ClientType, ReplayType, CallerType, CloseInv, ReplayInv, [Next]_vars
             PROVE  ReplayInv'
  BY DEF TypeOK
<1>1. CASE UNCHANGED <<published, replayVars>>
  BY <1>1, ClosedStays DEF ReplayInv, Known, replayVars
<1>2. ASSUME NEW c \in Callers, CallerNext(c) PROVE ReplayInv'
  BY <1>1, <1>2, CallerStep DEF hubVars
<1>3. ASSUME Publishes(Head(rawQueue)) PROVE ReplayInv'
  <2>1. PICK e : e = Head(rawQueue)
    OBVIOUS
  <2>2. IsFiniteSet(Known')
    BY <1>3, <2>1, UnboundedBefore DEF ReplayInv
  <2> SUFFICES ASSUME ~closed
               PROVE  /\ \A r \in Runs : Ends(replayOf'[r], published'[r])
                      /\ Cardinality(Known') <= MaxReplayRuns =>
                           /\ ToSet(replayRuns') = Known' /\ Len(replayRuns') = Cardinality(Known')
                           /\ \A r \in Runs : Len(published'[r]) <= MaxReplayEvents
                                              => replayOf'[r] = published'[r]
    BY <1>3, <2>2 DEF ReplayInv, Publishes
  <2>3. hub = "open" /\ RecordReplay(e)
    BY <1>3, <2>1 DEF Publishes, CloseInv
  <2>4. /\ e \in Events /\ e.run \in Runs /\ Known' = Known \cup {e.run}
        /\ \A r \in Runs : published'[r] = IF r = e.run THEN Append(published[r], e) ELSE published[r]
    BY <1>3, <2>1, <2>3, PublishStep
  <2>5. \A r \in Runs : published[r] \in Seq(Events) /\ replayOf[r] \in Seq(Events)
    BY DEF ReplayType
  <2>6. PICK a : a = Append(replayOf[e.run], e)
    OBVIOUS
  <2>7. PICK k : k = Keep(a, MaxReplayEvents)
    OBVIOUS
  <2>8. a \in Seq(Events) /\ Len(a) = Len(replayOf[e.run]) + 1
    BY <2>4, <2>5, <2>6
  <2>9. /\ k \in Seq(Events)
        /\ Len(a) <= MaxReplayEvents => k = a
        /\ \E q \in Seq(Events) : a = q \o k
    <3>1. /\ Keep(a, MaxReplayEvents) \in Seq(Events)
          /\ Len(a) <= MaxReplayEvents => Keep(a, MaxReplayEvents) = a
          /\ \E q \in Seq(Events) : a = q \o Keep(a, MaxReplayEvents)
      BY <2>8, KeepLast, Positive
    <3> QED
      BY <2>7, <3>1
  <2>10. \A r \in Runs : \/ r = e.run /\ replayOf'[r] = k
                         \/ r # e.run /\ replayOf'[r] = replayOf[r]
                         \/ r # e.run /\ replayOf'[r] = <<>>
    BY <2>3, <2>6, <2>7 DEF RecordReplay
  <2>11. ASSUME NEW r \in Runs PROVE Ends(replayOf'[r], published'[r])
    <3>1. CASE r = e.run
      <4>1. PICK p \in Seq(Events) : published[r] = p \o replayOf[r]
        BY DEF ReplayInv, Ends
      <4>2. PICK q \in Seq(Events) : a = q \o k
        BY <2>9
      <4>3. published'[r] = Append(p \o replayOf[r], e)
        BY <2>4, <3>1, <4>1
      <4>4. Append(p \o replayOf[r], e) = p \o a
        <5>1. replayOf[r] \in Seq(Events) /\ a = Append(replayOf[r], e)
          BY <2>5, <2>6, <3>1
        <5>2. \A t \in Seq(Events) : p \o Append(t, e) = Append(p \o t, e)
          BY <2>4, <4>1, ConcatAppend
        <5> QED
          BY <5>1, <5>2
      <4>5. p \o (q \o k) = (p \o q) \o k /\ p \o q \in Seq(Events)
        <5>1. p \o q \in Seq(Events)
          BY <4>1, <4>2
        <5>2. k \in Seq(Events)
          BY <2>9
        <5>3. (p \o q) \o k = p \o (q \o k)
          BY <5>2, EventsAssoc, Zenon
        <5> QED
          BY <5>1, <5>3
      <4>6. published'[r] = (p \o q) \o replayOf'[r]
        BY <2>10, <3>1, <4>2, <4>3, <4>4, <4>5
      <4> QED
        BY <4>5, <4>6 DEF Ends
    <3>2. CASE r # e.run /\ replayOf'[r] = replayOf[r]
      BY <2>4, <3>2 DEF ReplayInv, Ends
    <3>3. CASE r # e.run /\ replayOf'[r] = <<>>
      <4>1. published'[r] = published[r] /\ published[r] = published[r] \o <<>>
        BY <2>4, <2>5, <3>3, ConcatEmpty
      <4> QED
        BY <2>5, <3>3, <4>1 DEF Ends
    <3> QED
      BY <2>10, <3>1, <3>2, <3>3
  <2>12. ASSUME Cardinality(Known') <= MaxReplayRuns
         PROVE  /\ ToSet(replayRuns') = Known' /\ Len(replayRuns') = Cardinality(Known')
                /\ \A r \in Runs : Len(published'[r]) <= MaxReplayEvents => replayOf'[r] = published'[r]
    <3>1. Cardinality(Known) <= MaxReplayRuns
      BY <1>3, <2>1, <2>12, UnboundedBefore DEF ReplayInv
    <3>2. /\ ToSet(replayRuns) = Known /\ Len(replayRuns) = Cardinality(Known)
          /\ \A r \in Runs : Len(published[r]) <= MaxReplayEvents => replayOf[r] = published[r]
      BY <3>1 DEF ReplayInv
    <3>3. /\ Cardinality(Known') = IF e.run \in Known THEN Cardinality(Known) ELSE Cardinality(Known) + 1
          /\ Cardinality(Known) \in Nat
      BY <2>4, FS_AddElement, FS_CardinalityType DEF ReplayInv
    <3>4. ~(e.run \notin ToSet(replayRuns) /\ Len(replayRuns) >= MaxReplayRuns)
      BY <2>12, <3>2, <3>3, Positive
    <3>5. /\ replayRuns' = IF e.run \in Known THEN replayRuns ELSE Append(replayRuns, e.run)
          /\ \A r \in Runs : replayOf'[r] = IF r = e.run THEN k ELSE replayOf[r]
      BY <2>3, <2>6, <2>7, <3>2, <3>4 DEF RecordReplay
    <3>6. ToSet(replayRuns') = Known' /\ Len(replayRuns') = Cardinality(Known')
      <4>1. CASE e.run \in Known
        BY <2>4, <3>2, <3>3, <3>5, <4>1
      <4>2. CASE e.run \notin Known
        <5>1. replayRuns \in Seq(Runs)
          BY DEF ReplayType
        <5>2. /\ ToSet(Append(replayRuns, e.run)) = ToSet(replayRuns) \cup {e.run}
              /\ Len(Append(replayRuns, e.run)) = Len(replayRuns) + 1
          BY <2>4, <5>1, AppendSet
        <5> QED
          BY <2>4, <3>2, <3>3, <3>5, <4>2, <5>2
      <4> QED
        BY <4>1, <4>2
    <3>7. ASSUME NEW r \in Runs, Len(published'[r]) <= MaxReplayEvents PROVE replayOf'[r] = published'[r]
      <4>1. CASE r # e.run
        BY <2>4, <3>2, <3>5, <3>7, <4>1
      <4>2. CASE r = e.run
        <5>1. published'[r] = Append(published[r], e)
          BY <2>4, <4>2
        <5>2. Len(Append(published[r], e)) = Len(published[r]) + 1 /\ Len(published[r]) \in Nat
          BY <2>4, <2>5
        <5>3. Len(published[r]) <= MaxReplayEvents
          BY <3>7, <5>1, <5>2, Positive
        <5>4. a = published'[r]
          BY <2>6, <3>2, <4>2, <5>1, <5>3
        <5> QED
          BY <2>9, <3>5, <3>7, <4>2, <5>4
      <4> QED
        BY <4>1, <4>2
    <3> QED
      BY <3>6, <3>7
  <2> QED
    BY <2>11, <2>12
<1> QED
  BY <1>1, <1>2, <1>3, StepKinds

-----------------------------------------------------------------------------
(* Streams *)

\* What a subscriber has, or is about to get, is a sequence of events.
LEMMA GotTyped ==
  ASSUME CallerType, NEW c \in Callers
  PROVE  /\ taken[c] \in Seq(Events) /\ replay[c] \in Seq(Events) /\ queue[c] \in Seq(Events)
         /\ replay[c] \o queue[c] \in Seq(Events) /\ Got(c) \in Seq(Events)
<1>1. taken[c] \in Seq(Events) /\ replay[c] \in Seq(Events) /\ queue[c] \in Seq(Events)
  BY DEF CallerType
<1>2. replay[c] \o queue[c] \in Seq(Events)
  BY <1>1
<1> QED
  BY <1>1, <1>2 DEF Got

\* Taking an event moves it from what is to come to what has been.
LEMMA TakeStep ==
  ASSUME CallerType, NEW c \in Callers, Take(c)
  PROVE  \E e \in Events :
           /\ e = IF replay[c] # <<>> THEN Head(replay[c]) ELSE Head(queue[c])
           /\ taken'[c] = Append(taken[c], e)
           /\ Got(c)' = Got(c)
           /\ e.id \in Ids(replay[c] \o queue[c])
           /\ \/ replay[c] # <<>> /\ replay'[c] = Tail(replay[c]) /\ e = Head(replay[c])
              \/ replay[c] = <<>> /\ replay'[c] = <<>>
<1>1. PICK t, p, q : t = taken[c] /\ p = replay[c] /\ q = queue[c]
  OBVIOUS
<1>2. t \in Seq(Events) /\ p \in Seq(Events) /\ q \in Seq(Events)
  BY <1>1, GotTyped
<1>3. CASE p # <<>>
  <2>1. PICK e : e = Head(p)
    OBVIOUS
  <2>2. e \in Events /\ Tail(p) \in Seq(Events) /\ Append(t, e) \o Tail(p) = t \o p
    BY <1>2, <1>3, <2>1, HeadTail
  <2>3. replay'[c] = Tail(p) /\ queue'[c] = q /\ taken'[c] = Append(t, e)
    BY <1>1, <1>3, <2>1 DEF Take, CallerType
  <2>4. Append(t, e) \in Seq(Events)
    BY <1>2, <2>2
  <2>5. Append(t, e) \o (Tail(p) \o q) = t \o (p \o q)
    <3>1. (Append(t, e) \o Tail(p)) \o q = Append(t, e) \o (Tail(p) \o q)
      BY <1>2, <2>2, <2>4, EventsAssoc, Zenon
    <3>2. (t \o p) \o q = t \o (p \o q)
      BY <1>2, EventsAssoc, Zenon
    <3> QED
      BY <2>2, <3>1, <3>2
  <2>6. e.id \in Ids(p \o q)
    <3>1. e.id \in Ids(p)
      BY <1>2, <1>3, <2>1, GrowingTail
    <3> QED
      BY <1>2, <3>1, GrowingParts
  <2> QED
    BY <1>1, <1>3, <2>1, <2>2, <2>3, <2>5, <2>6 DEF Got
<1>4. CASE p = <<>>
  <2>1. PICK e : e = Head(q)
    OBVIOUS
  <2>2. q # <<>> /\ p \o q = q
    <3>1. p \o q = q
      BY <1>2, <1>4, ConcatEmpty
    <3>2. p \o q # <<>>
      BY <1>1 DEF Take
    <3> QED
      BY <3>1, <3>2
  <2>3. e \in Events /\ Tail(q) \in Seq(Events) /\ Append(t, e) \o Tail(q) = t \o q
    BY <1>2, <2>1, <2>2, HeadTail
  <2>4. replay'[c] = <<>> /\ queue'[c] = Tail(q) /\ taken'[c] = Append(t, e)
    BY <1>1, <1>4, <2>1 DEF Take, CallerType
  <2>5. <<>> \o Tail(q) = Tail(q)
    BY <2>3, ConcatEmpty
  <2>6. e.id \in Ids(p \o q)
    BY <1>2, <2>1, <2>2, GrowingTail
  <2> QED
    BY <1>1, <1>4, <2>1, <2>2, <2>3, <2>4, <2>5, <2>6 DEF Got
<1> QED
  BY <1>3, <1>4

\* A stream opens with a suffix of the history and receives what is published after it.
LEMMA StreamInvStep ==
  TypeOK /\ ReplayInv /\ StreamInv /\ [Next]_vars => StreamInv'
<1> SUFFICES ASSUME TransportType, ClientType, ReplayType, CallerType, ReplayInv, StreamInv,
                    [Next]_vars
             PROVE  StreamInv'
  BY DEF TypeOK
<1> DEFINE Fine(c) == /\ pc[c] \in {"idle", "connecting", "waitReady"} =>
                           replay[c] = <<>> /\ queue[c] = <<>> /\ taken[c] = <<>>
                      /\ Streaming(c) => /\ goal[c] \in Runs
                                         /\ Ends(Got(c), published[goal[c]])
                                         /\ Unbounded(goal[c]) => Got(c) = published[goal[c]]
                      /\ pc[c] = "ended" => replay[c] = <<>>
<1>0. \A c \in Callers : Fine(c)
  BY DEF StreamInv
<1>1. ASSUME NEW c \in Callers, CallerNext(c) PROVE StreamInv'
  <2>0. published' = published
    BY <1>1, CallerStep DEF hubVars
  <2>1. ASSUME NEW d \in Callers, pc'[d] = pc[d], goal'[d] = goal[d], replay'[d] = replay[d],
               queue'[d] = queue[d], taken'[d] = taken[d]
        PROVE  Fine(d)'
    BY <1>0, <2>0, <2>1 DEF Streaming, Got, Unbounded, Known
  <2>2. ASSUME NEW q, Goes(c, q) PROVE StreamInv'
    <3>1. \A d \in Callers \ {c} : Fine(d)'
      BY <2>1, <2>2 DEF Goes, Except, CallerType, streamVars
    <3>2. pc'[c] = q /\ UNCHANGED streamVars
      BY <2>2 DEF Goes, Except, CallerType
    <3>3. CASE q \in {"connecting", "waitReady", "raised", "sent"} /\ pc[c] \in NotStreaming
      <4>1. Fine(c)'
        BY <1>0, <3>2, <3>3 DEF NotStreaming, Streaming, streamVars
      <4> QED
        BY <3>1, <4>1 DEF StreamInv
    <3>4. CASE /\ q \in {"waiting", "ended", "raised"} /\ pc[c] = "iterating"
               /\ goal' = goal /\ replay[c] = <<>>
      <4>1. Fine(c)'
        BY <1>0, <2>0, <3>2, <3>4 DEF Streaming, Got, Unbounded, Known, streamVars
      <4> QED
        BY <3>1, <4>1 DEF StreamInv
    <3> QED
      BY <2>2, <3>3, <3>4 DEF Goes
  <2>3. ASSUME NEW r \in Runs, Opens(c, r) PROVE StreamInv'
    <3>1. \A d \in Callers \ {c} : Fine(d)'
      BY <2>1, <2>3 DEF Opens, Except, CallerType
    <3>2. /\ pc'[c] = "iterating" /\ goal'[c] = r /\ replay'[c] = replayOf[r] /\ ~closed
          /\ queue'[c] = <<>> /\ taken'[c] = <<>>
      BY <1>0, <2>3 DEF Opens, Except, NotStreaming, CallerType
    <3>3. Got(c)' = replayOf[r]
      <4>1. replayOf[r] \in Seq(Events)
        BY DEF ReplayType
      <4>2. replayOf[r] \o <<>> = replayOf[r] /\ <<>> \o replayOf[r] = replayOf[r]
        BY <4>1, ConcatEmpty
      <4> QED
        BY <3>2, <4>2 DEF Got
    <3>4. Ends(replayOf[r], published[r]) /\ (Unbounded(r) => replayOf[r] = published[r])
      BY <3>2 DEF ReplayInv, Unbounded
    <3>5. Fine(c)'
      BY <2>0, <3>2, <3>3, <3>4 DEF Unbounded, Known
    <3> QED
      BY <3>1, <3>5 DEF StreamInv
  <2>4. CASE Take(c)
    <3>1. \A d \in Callers \ {c} : Fine(d)'
      BY <2>1, <2>4 DEF Take, CallerType
    <3>2. Got(c)' = Got(c) /\ pc' = pc /\ goal' = goal /\ pc[c] = "iterating"
      BY <2>4, TakeStep DEF Take
    <3>3. Fine(c)'
      BY <1>0, <2>0, <3>2 DEF Streaming, Unbounded, Known
    <3> QED
      BY <3>1, <3>3 DEF StreamInv
  <2>5. CASE Leave(c)
    <3>1. \A d \in Callers \ {c} : Fine(d)'
      BY <2>1, <2>5 DEF Leave, CallerType
    <3>2. Fine(c)'
      BY <2>5 DEF Leave, CallerType, Streaming
    <3> QED
      BY <3>1, <3>2 DEF StreamInv
  <2> QED
    BY <1>1, <2>2, <2>3, <2>4, <2>5, CallerStep
<1>2. ASSUME Publishes(Head(rawQueue)) PROVE StreamInv'
  <2>1. PICK e : e = Head(rawQueue)
    OBVIOUS
  <2>2. e \in Events /\ e.run \in Runs /\ UNCHANGED <<goal, replay, taken>> /\ HubPublish(e)
    BY <1>2, <2>1, PublishStep DEF Publishes
  <2>a. \A s, t \in Seq(Events) : s \o Append(t, e) = Append(s \o t, e)
    BY <2>2, ConcatAppend
  <2>3. \A r \in Runs : Unbounded(r)' => Unbounded(r)
    BY <1>2, <2>1, UnboundedBefore DEF ReplayInv
  <2>4. /\ \A c \in Callers : pc'[c] = pc[c] \/ (pc[c] = "waiting" /\ pc'[c] = "iterating")
        /\ \A c \in Callers : queue'[c] = IF hub = "open" /\ Streaming(c) /\ Matches(c, e)
                                          THEN Append(queue[c], e) ELSE queue[c]
    BY <2>2 DEF HubPublish
  <2>5. ASSUME NEW c \in Callers PROVE Fine(c)'
    <3>1. Streaming(c)' <=> Streaming(c)
      BY <2>4 DEF Streaming
    <3>2. CASE ~Streaming(c)
      BY <1>0, <2>2, <2>4, <3>1, <3>2 DEF Streaming
    <3>3. CASE Streaming(c) /\ hub = "open" /\ goal[c] = e.run
      <4>1. queue'[c] = Append(queue[c], e) /\ published'[e.run] = Append(published[e.run], e)
        BY <1>2, <2>1, <2>2, <2>4, <3>3, PublishStep DEF Matches
      <4>2. Got(c)' = Append(Got(c), e)
        <5>0. /\ taken[c] \in Seq(Events) /\ replay[c] \in Seq(Events) /\ queue[c] \in Seq(Events)
              /\ replay[c] \o queue[c] \in Seq(Events)
          BY GotTyped
        <5>1. replay[c] \o Append(queue[c], e) = Append(replay[c] \o queue[c], e)
          BY <2>a, <5>0
        <5>2. taken[c] \o Append(replay[c] \o queue[c], e) = Append(taken[c] \o (replay[c] \o queue[c]), e)
          BY <2>a, <5>0
        <5> QED
          BY <2>2, <4>1, <5>1, <5>2 DEF Got
      <4>3. Ends(Got(c)', published'[e.run])
        <5>1. PICK p \in Seq(Events) : published[e.run] = p \o Got(c)
          BY <1>0, <3>3 DEF Ends
        <5>2. Append(p \o Got(c), e) = p \o Append(Got(c), e)
          <6>1. Got(c) \in Seq(Events)
            BY GotTyped
          <6> QED
            BY <2>a, <5>1, <6>1
        <5> QED
          BY <4>1, <4>2, <5>1, <5>2 DEF Ends
      <4>4. Unbounded(e.run)' => Got(c)' = published'[e.run]
        BY <1>0, <2>2, <2>3, <3>3, <4>1, <4>2
      <4>5. goal'[c] = e.run /\ pc'[c] \notin {"idle", "connecting", "waitReady", "ended"}
        BY <2>2, <3>1, <3>3 DEF Streaming
      <4> QED
        BY <2>2, <4>3, <4>4, <4>5
    <3>4. CASE Streaming(c) /\ ~(hub = "open" /\ goal[c] = e.run)
      <4>1. goal[c] \in Runs /\ Ends(Got(c), published[goal[c]])
            /\ (Unbounded(goal[c]) => Got(c) = published[goal[c]])
        BY <1>0, <3>4
      <4>2. queue'[c] = queue[c] /\ published'[goal[c]] = published[goal[c]]
        BY <1>2, <2>1, <2>4, <3>4, <4>1, PublishStep DEF Matches
      <4>3. Got(c)' = Got(c)
        BY <2>2, <4>2 DEF Got
      <4>4. goal' = goal /\ pc'[c] \notin {"idle", "connecting", "waitReady", "ended"}
        BY <2>2, <3>1, <3>4 DEF Streaming
      <4>5. Unbounded(goal[c])' => Unbounded(goal[c])
        BY <2>2, <2>3, <4>1
      <4> QED
        BY <2>3, <4>1, <4>2, <4>3, <4>4
    <3> QED
      BY <3>2, <3>3, <3>4
  <2> QED
    BY <2>5 DEF StreamInv
<1>3. CASE UNCHANGED <<published, replayVars, goal, streamVars>> /\ Woken
  <2>1. ASSUME NEW c \in Callers PROVE Fine(c)'
    <3>1. (Streaming(c)' <=> Streaming(c)) /\ UNCHANGED <<published, goal, replay, queue, taken>>
      BY <1>3 DEF Streaming, Woken, streamVars
    <3>2. pc'[c] \in {"idle", "connecting", "waitReady", "ended"} => pc'[c] = pc[c]
      BY <1>3 DEF Woken
    <3> QED
      BY <1>0, <3>1, <3>2 DEF Got, Unbounded, Known
  <2> QED
    BY <2>1 DEF StreamInv
<1> QED
  BY <1>1, <1>2, <1>3, StepKinds

-----------------------------------------------------------------------------
(* Terminal events *)

\* A stream never meets an id twice: what it has to come is larger than what it has taken.
LEMMA NeverSeen ==
  ASSUME TypeOK, IdInv, StreamInv, NEW c \in Callers, Streaming(c),
         NEW i \in Ids(replay[c] \o queue[c])
  PROVE  i \notin {t.id : t \in ToSet(taken[c])}
<1>1. CallerType /\ ReplayType
  BY DEF TypeOK
<1>2. PICK t, u : t = taken[c] /\ u = replay[c] \o queue[c]
  OBVIOUS
<1>3. t \in Seq(Events) /\ u \in Seq(Events) /\ Got(c) = t \o u
  BY <1>1, <1>2, GotTyped DEF Got
<1>4. goal[c] \in Runs /\ Ends(Got(c), published[goal[c]])
  BY DEF StreamInv
<1>5. PICK p \in Seq(Events) : published[goal[c]] = p \o (t \o u)
  BY <1>3, <1>4 DEF Ends
<1>6. Growing(p \o (t \o u))
  BY <1>4, <1>5 DEF IdInv
<1>7. t \o u \in Seq(Events)
  BY <1>3
<1>8. Growing(t \o u)
  BY <1>5, <1>6, <1>7, GrowingParts
<1>9. Below(Ids(t), Ids(u))
  BY <1>3, <1>8, GrowingParts
<1>10. {x.id : x \in ToSet(t)} = Ids(t)
  BY DEF ToSet, Ids
<1>11. Ids(t) \subseteq Nat
  <2> SUFFICES ASSUME NEW k \in DOMAIN t PROVE t[k].id \in Nat
    BY DEF Ids
  <2>1. t[k] \in Events
    BY <1>3
  <2> QED
    BY <2>1, Positive DEF Events
<1>12. i \in Ids(u) /\ {x.id : x \in ToSet(taken[c])} = Ids(t)
  BY <1>2, <1>10
<1>13. i \notin Ids(t)
  <2>1. \A m \in Ids(t) : m < i
    BY <1>9, <1>12 DEF Below
  <2> QED
    BY <2>1, <1>11
<1> QED
  BY <1>12, <1>13

\* A subscriber takes the terminal event only from its own stream.
LEMMA TerminalInvStep ==
  TypeOK /\ IdInv /\ StreamInv /\ TerminalInv /\ [Next]_vars => TerminalInv'
<1> SUFFICES ASSUME TypeOK, IdInv, StreamInv, TerminalInv, [Next]_vars
             PROVE  TerminalInv'
  OBVIOUS
<1>0. TransportType /\ ClientType /\ ReplayType /\ CallerType
  BY DEF TypeOK
<1> DEFINE Told(c) == terminal[c] \/ (\E e \in ToSet(taken[c]) : e.kind \in {"final", "terminal"})
           Good(c) == Told(c) => "terminal" \in yielded[c] \/ HasTerminal(replay[c])
<1>a. \A c \in Callers : Good(c)
  BY DEF TerminalInv
<1>b. ToSet(<<>>) = {}
  BY DEF ToSet
<1>1. ASSUME UNCHANGED <<replay, taken, yielded, terminal>> PROVE TerminalInv'
  BY <1>1 DEF TerminalInv
<1>2. ASSUME NEW c \in Callers, CallerNext(c) PROVE TerminalInv'
  <2>1. ASSUME NEW d \in Callers, replay'[d] = replay[d], taken'[d] = taken[d], yielded'[d] = yielded[d],
               terminal'[d] = terminal[d]
        PROVE  Good(d)'
    BY <1>a, <2>1
  <2>2. ASSUME NEW q, Goes(c, q) PROVE TerminalInv'
    BY <1>1, <2>2 DEF Goes, streamVars
  <2>3. ASSUME NEW r \in Runs, Opens(c, r) PROVE TerminalInv'
    <3>1. \A d \in Callers \ {c} : Good(d)'
      BY <1>0, <2>1, <2>3 DEF Opens, CallerType
    <3>2. /\ replay'[c] = replayOf[r] /\ terminal'[c] = HasTerminal(replayOf[r])
          /\ taken'[c] = <<>>
      BY <1>0, <2>3 DEF Opens, NotStreaming, StreamInv, CallerType
    <3>3. Good(c)'
      BY <1>b, <3>2
    <3> QED
      BY <3>1, <3>3 DEF TerminalInv
  <2>4. CASE Leave(c)
    <3>1. \A d \in Callers \ {c} : Good(d)'
      BY <1>0, <2>1, <2>4 DEF Leave, CallerType
    <3>2. Good(c)'
      BY <1>0, <1>b, <2>4 DEF Leave, CallerType
    <3> QED
      BY <3>1, <3>2 DEF TerminalInv
  <2>5. CASE Take(c)
    <3>1. \A d \in Callers \ {c} : Good(d)'
      BY <1>0, <2>1, <2>5 DEF Take, CallerType
    <3>2. PICK e \in Events :
            /\ e = IF replay[c] # <<>> THEN Head(replay[c]) ELSE Head(queue[c])
            /\ taken'[c] = Append(taken[c], e)
            /\ e.id \in Ids(replay[c] \o queue[c])
            /\ \/ replay[c] # <<>> /\ replay'[c] = Tail(replay[c]) /\ e = Head(replay[c])
               \/ replay[c] = <<>> /\ replay'[c] = <<>>
      BY <1>0, <2>5, TakeStep
    <3>3. e.id \notin {t.id : t \in ToSet(taken[c])}
      BY <2>5, <3>2, NeverSeen DEF Take, Streaming
    <3>4. /\ yielded'[c] = yielded[c] \cup Project(e, terminal[c])
          /\ terminal'[c] <=> terminal[c] \/ e.kind \in {"final", "terminal"}
      <4>1. /\ yielded' = [yielded EXCEPT ![c] = @ \cup Project(e, terminal[c])]
            /\ terminal' = [terminal EXCEPT ![c] = @ \/ e.kind \in {"final", "terminal"}]
        BY <2>5, <3>2, <3>3 DEF Take
      <4> QED
        BY <1>0, <4>1 DEF CallerType
    <3>5. ToSet(taken'[c]) = ToSet(taken[c]) \cup {e}
      BY <1>0, <3>2, GotTyped, AppendSet
    <3>6. HasTerminal(replay[c]) => e.kind = "terminal" \/ HasTerminal(replay'[c])
      <4> SUFFICES ASSUME HasTerminal(replay[c]), e.kind # "terminal" PROVE HasTerminal(replay'[c])
        OBVIOUS
      <4>1. PICK p : p = replay[c]
        OBVIOUS
      <4>2. p \in Seq(Events) /\ \E i \in 1..Len(p) : p[i].kind = "terminal"
        BY <1>0, <4>1, GotTyped DEF HasTerminal
      <4>3. p # <<>> /\ replay'[c] = Tail(p) /\ e = Head(p)
        BY <3>2, <4>1, <4>2
      <4>4. PICK i \in 1..Len(p) : p[i].kind = "terminal"
        BY <4>2
      <4>5. i # 1
        BY <4>2, <4>3, <4>4
      <4>6. PICK j \in 1..Len(Tail(p)) : Tail(p)[j] = p[i]
        <5>1. PICK j : j = i - 1
          OBVIOUS
        <5>2. j \in 1..Len(Tail(p)) /\ Tail(p)[j] = p[j + 1] /\ j + 1 = i
          BY <4>2, <4>3, <4>5, <5>1
        <5> QED
          BY <5>2
      <4> QED
        BY <4>3, <4>4, <4>6 DEF HasTerminal
    <3>7. ~HasTerminal(<<>>)
      BY DEF HasTerminal
    <3>8. Good(c)'
      <4>1. CASE e.kind = "terminal" \/ (e.kind = "final" /\ ~terminal[c])
        <5>1. "terminal" \in yielded'[c]
          BY <3>4, <4>1 DEF Project
        <5> QED
          BY <5>1
      <4>2. CASE e.kind = "final" /\ terminal[c]
        <5>1. "terminal" \in yielded[c] \/ HasTerminal(replay[c])
          BY <1>a, <4>2
        <5> QED
          BY <3>4, <3>6, <4>2, <5>1
      <4>3. CASE e.kind \notin {"terminal", "final"}
        <5>1. (terminal'[c] <=> terminal[c]) /\ yielded[c] \subseteq yielded'[c]
          BY <3>4, <4>3
        <5>2. Told(c)' => Told(c)
          BY <3>5, <4>3, <5>1
        <5> QED
          BY <1>a, <3>6, <4>3, <5>1, <5>2
      <4> QED
        BY <4>1, <4>2, <4>3
    <3> QED
      BY <3>1, <3>8 DEF TerminalInv
  <2> QED
    BY <1>0, <1>2, <2>2, <2>3, <2>4, <2>5, CallerStep
<1>3. ASSUME Publishes(Head(rawQueue)) PROVE TerminalInv'
  BY <1>1, <1>3 DEF Publishes
<1> QED
  BY <1>0, <1>1, <1>2, <1>3, StepKinds DEF streamVars

-----------------------------------------------------------------------------
(* Theorems *)

SdkInv == TypeOK /\ CloseInv /\ IdInv /\ ReplayInv /\ StreamInv /\ TerminalInv

\* Nothing has happened yet.
LEMMA SdkInvInit == Init => SdkInv
<1> SUFFICES ASSUME Init PROVE SdkInv
  OBVIOUS
<1>0. ToSet(<<>>) = {} /\ Growing(<<>>) /\ Ids(<<>>) = {} /\ <<>> \in Seq(Events) /\ <<>> \in Seq(Runs)
  BY DEF ToSet, Growing, Ids
<1>1. TypeOK
  <2>1. TransportType
    BY Positive DEF Init, TransportType
  <2>2. ClientType
    BY DEF Init, ClientType
  <2>3. ReplayType
    BY Positive DEF Init, ReplayType
  <2>4. CallerType
    BY DEF Init, CallerType
  <2> QED
    BY <2>1, <2>2, <2>3, <2>4 DEF TypeOK
<1>2. CloseInv
  BY DEF Init, CloseInv, Cut
<1>3. IdInv
  BY <1>0 DEF Init, IdInv, Below
<1>4. ReplayInv
  <2>1. Known = {}
    BY DEF Init, Known
  <2>2. IsFiniteSet({}) /\ Cardinality({}) = 0
    BY FS_EmptySet
  <2>3. Ends(<<>>, <<>>)
    <3>1. <<>> \o <<>> = <<>>
      OBVIOUS
    <3> QED
      BY <1>0, <3>1 DEF Ends
  <2>4. Len(<<>>) = 0
    OBVIOUS
  <2> QED
    BY <1>0, <2>1, <2>2, <2>3, <2>4 DEF Init, ReplayInv
<1>5. StreamInv /\ TerminalInv
  BY <1>0 DEF Init, StreamInv, TerminalInv, Streaming
<1> QED
  BY <1>1, <1>2, <1>3, <1>4, <1>5 DEF SdkInv

\* The invariant is inductive.
LEMMA SdkInvStep == SdkInv /\ [Next]_vars => SdkInv'
<1> SUFFICES ASSUME SdkInv, [Next]_vars PROVE SdkInv'
  OBVIOUS
<1>1. TypeOK'
  BY TransportTypeStep, ClientTypeStep, ReplayTypeStep, CallerTypeStep DEF SdkInv, TypeOK
<1> QED
  BY <1>1, CloseInvStep, IdInvStep, ReplayInvStep, StreamInvStep, TerminalInvStep DEF SdkInv

\* So it holds in every state; the theorems are parts of it.
LEMMA SdkInvHolds == Spec => []SdkInv
  BY SdkInvInit, SdkInvStep, PTL DEF Spec

\* Every variable of the client keeps its type and no replay buffer outgrows its limits
\* (_record_replay_event).
THEOREM TypeInvariant == Spec => []TypeOK
<1>1. SdkInv => TypeOK
  BY DEF SdkInv
<1> QED
  BY <1>1, SdkInvHolds, PTL

\* A close() that returns normally has left no pump behind and, unless the pump failed or
\* the cancellation of a caller was swallowed, no raw event unread, wherever callers,
\* pump, transport and close() interleave (_do_close).
THEOREM CloseDrainsInvariant == Spec => []CloseDrains
<1>1. SdkInv => CloseDrains
  BY DEF SdkInv, CloseInv, Cut, CloseDrains
<1> QED
  BY <1>1, SdkInvHolds, PTL

\* run_events() neither misses an event between its snapshot and its subscription nor gets
\* one twice, for any limits of the buffers (_iterate_run_events, _record_replay_event).
THEOREM NoGapInvariant == Spec => []NoGap
<1>1. SdkInv => NoGap
  <2> SUFFICES ASSUME SdkInv, NEW c \in Callers, Streaming(c)
               PROVE  LET got == taken[c] \o replay[c] \o queue[c]
                      IN /\ IsSuffix(got, published[goal[c]])
                         /\ Unbounded(goal[c]) => got = published[goal[c]]
    BY DEF NoGap
  <2>1. CallerType /\ StreamInv
    BY DEF SdkInv, TypeOK
  <2>2. /\ taken[c] \in Seq(Events) /\ replay[c] \in Seq(Events) /\ queue[c] \in Seq(Events)
        /\ Got(c) \in Seq(Events)
    BY <2>1, GotTyped
  <2>3. taken[c] \o replay[c] \o queue[c] = Got(c)
    <3>1. \A s, t, u \in Seq(Events) : (s \o t) \o u = s \o (t \o u)
      BY ConcatAssoc
    <3> QED
      BY <2>2, <3>1 DEF Got
  <2>4. Ends(Got(c), published[goal[c]]) /\ (Unbounded(goal[c]) => Got(c) = published[goal[c]])
    BY <2>1 DEF StreamInv
  <2>5. IsSuffix(Got(c), published[goal[c]])
    <3>1. PICK p \in Seq(Events) : published[goal[c]] = p \o Got(c)
      BY <2>4 DEF Ends
    <3> QED
      BY <2>2, <3>1, SuffixOf
  <2> QED
    BY <2>3, <2>4, <2>5
<1> QED
  BY <1>1, SdkInvHolds, PTL

\* No caller of run_events() that took the end of its run ends without a terminal event:
\* neither the projection nor the filter of seen ids swallows the only one
\* (to_run_stream_event).
THEOREM TerminalDeliveredInvariant == Spec => []TerminalDelivered
<1>1. SdkInv => TerminalDelivered
  <2>1. ~HasTerminal(<<>>)
    BY DEF HasTerminal
  <2> QED
    BY <2>1 DEF SdkInv, StreamInv, TerminalInv, TerminalDelivered
<1> QED
  BY <1>1, SdkInvHolds, PTL

=============================================================================
